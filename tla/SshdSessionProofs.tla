------------------------- MODULE SshdSessionProofs -------------------------
(***************************************************************************)
(* Proofs about a session of the built-in SSH server: the types, among them *)
(* that resizes never holds more than its capacity, and that the pty never  *)
(* goes back to an earlier window size.                                     *)
(*                                                                          *)
(* A window size travels from the client's request through the variable of  *)
(* handleRequests and the channel resizes to the pty.  The invariant says   *)
(* that the sizes are in order along all of that way.                       *)
(***************************************************************************)
EXTENDS SshdSession, TLAPS

IsSize(m) == m.type \in {"pty-req", "window-change"}

\* The sizes among the requests on the way: above n, at most top, and rising.
WireOrdered(w, n, top) ==
    /\ \A i \in 1..Len(w) : IsSize(w[i]) => n < w[i].size /\ w[i].size <= top
    /\ \A i, j \in 1..Len(w) : i < j /\ IsSize(w[i]) /\ IsSize(w[j]) => w[i].size < w[j].size

\* The sizes in the channel: above n, at most top, and rising.
ChannelOrdered(c, n, top) ==
    /\ \A i \in 1..Len(c) : c[i] # Short => n < c[i] /\ c[i] <= top
    /\ \A i, j \in 1..Len(c) : i < j /\ c[i] # Short /\ c[j] # Short => c[i] < c[j]

\* What handleRequests has in hand is a payload.
InHand == handler = "resize" => size \in Payloads

\* The pty's size, the channel, the size in hand and the requests, in this order.
InOrder ==
    /\ ptySize <= sent
    /\ WireOrdered(wire, ptySize, sent)
    /\ ChannelOrdered(resizes, ptySize, sent)
    /\ \A i \in 1..Len(resizes) : resizes[i] # Short => WireOrdered(wire, resizes[i], sent)
    /\ handler = "resize" /\ size # Short =>
          /\ ptySize < size /\ size <= sent
          /\ ChannelOrdered(resizes, ptySize, size - 1)
          /\ WireOrdered(wire, size, sent)

IInv == TypeOK /\ InHand /\ InOrder
-----------------------------------------------------------------------------
(***************************************************************************)
(* Queues of sizes that are in order.                                       *)
(***************************************************************************)

\* A request with a size has one.
LEMMA SizeOf ==
    ASSUME NEW m \in Request, IsSize(m)
    PROVE  m.size \in Sizes
  BY DEF Request, IsSize, Asks

\* What is in the channel is a number.
LEMMA ChannelNat ==
    ASSUME TypeOK
    PROVE  resizes \in Seq(Payloads) /\ \A i \in 1..Len(resizes) : resizes[i] \in Nat
  <1>1. resizes \in Seq(Payloads)
    BY DEF TypeOK
  <1>2. \A i \in 1..Len(resizes) : resizes[i] \in Payloads
    BY <1>1
  <1>. QED
    BY <1>1, <1>2 DEF Payloads, Sizes, Short

\* What the first request leaves behind.
LEMMA WireTail ==
    ASSUME NEW w \in Seq(Request), w # <<>>, NEW n, NEW top, WireOrdered(w, n, top)
    PROVE  /\ Tail(w) \in Seq(Request)
           /\ Head(w) \in Request
           /\ WireOrdered(Tail(w), n, top)
           /\ IsSize(Head(w)) => /\ n < Head(w).size /\ Head(w).size <= top
                                 /\ WireOrdered(Tail(w), Head(w).size, top)
  <1>1. /\ Tail(w) \in Seq(Request) /\ Head(w) \in Request /\ Head(w) = w[1]
        /\ Len(w) \in Nat /\ Len(w) > 0 /\ Len(Tail(w)) = Len(w) - 1
        /\ \A i \in 1..Len(Tail(w)) : Tail(w)[i] = w[i + 1] /\ i + 1 \in 1..Len(w)
    OBVIOUS
  <1>2. WireOrdered(Tail(w), n, top)
    BY <1>1 DEF WireOrdered
  <1>3. IsSize(Head(w)) => n < Head(w).size /\ Head(w).size <= top
    BY <1>1 DEF WireOrdered
  <1>4. IsSize(Head(w)) => WireOrdered(Tail(w), Head(w).size, top)
    <2>1. 1 \in 1..Len(w) /\ \A i \in 1..Len(Tail(w)) : 1 < i + 1
      BY <1>1
    <2>. QED
      BY <1>1, <1>2, <2>1 DEF WireOrdered
  <1>. QED
    BY <1>1, <1>2, <1>3, <1>4

\* A new size is larger than all before it; any other request has no size.
LEMMA WireAppend ==
    ASSUME NEW w \in Seq(Request), NEW n \in Nat, NEW top \in Nat, n <= top,
           WireOrdered(w, n, top),
           NEW m \in Request, NEW max \in Nat,
           \/ IsSize(m) /\ m.size = top + 1 /\ max = top + 1
           \/ ~IsSize(m) /\ max = top
    PROVE  WireOrdered(Append(w, m), n, max)
  <1>1. /\ Len(w) \in Nat /\ Len(Append(w, m)) = Len(w) + 1
        /\ \A i \in 1..Len(w) : Append(w, m)[i] = w[i] /\ w[i] \in Request
        /\ Append(w, m)[Len(w) + 1] = m
        /\ \A i \in 1..(Len(w) + 1) : i \in 1..Len(w) \/ i = Len(w) + 1
    OBVIOUS
  <1>2. \A i \in 1..Len(w) : IsSize(w[i]) => w[i].size \in Nat /\ w[i].size <= top /\ n < w[i].size
    BY <1>1, SizeOf DEF WireOrdered, Sizes
  <1>3. ASSUME NEW i \in 1..(Len(w) + 1), IsSize(Append(w, m)[i])
        PROVE  n < Append(w, m)[i].size /\ Append(w, m)[i].size <= max
    <2>1. CASE i \in 1..Len(w)
      BY <1>1, <1>2, <1>3, <2>1
    <2>2. CASE i = Len(w) + 1
      BY <1>1, <1>3, <2>2
    <2>. QED
      BY <1>1, <2>1, <2>2
  <1>4. ASSUME NEW i \in 1..(Len(w) + 1), NEW j \in 1..(Len(w) + 1), i < j,
               IsSize(Append(w, m)[i]), IsSize(Append(w, m)[j])
        PROVE  Append(w, m)[i].size < Append(w, m)[j].size
    <2>1. i \in 1..Len(w)
      BY <1>1, <1>4
    <2>2. CASE j \in 1..Len(w)
      BY <1>1, <1>4, <2>1, <2>2 DEF WireOrdered
    <2>3. CASE j = Len(w) + 1
      BY <1>1, <1>2, <1>4, <2>1, <2>3
    <2>. QED
      BY <1>1, <2>2, <2>3
  <1>. QED
    BY <1>1, <1>3, <1>4 DEF WireOrdered

\* What is left of the channel when its first size has been taken out.
LEMMA ChannelTail ==
    ASSUME NEW c \in Seq(Payloads), c # <<>>, NEW n, NEW top, ChannelOrdered(c, n, top)
    PROVE  /\ Tail(c) \in Seq(Payloads)
           /\ Len(Tail(c)) = Len(c) - 1
           /\ Head(c) \in Payloads
           /\ ChannelOrdered(Tail(c), n, top)
           /\ Head(c) # Short => /\ n < Head(c) /\ Head(c) <= top
                                 /\ ChannelOrdered(Tail(c), Head(c), top)
  <1>1. /\ Tail(c) \in Seq(Payloads) /\ Head(c) \in Payloads /\ Head(c) = c[1]
        /\ Len(c) \in Nat /\ Len(c) > 0 /\ Len(Tail(c)) = Len(c) - 1
        /\ \A i \in 1..Len(Tail(c)) : Tail(c)[i] = c[i + 1] /\ i + 1 \in 1..Len(c)
    OBVIOUS
  <1>2. ChannelOrdered(Tail(c), n, top)
    BY <1>1 DEF ChannelOrdered
  <1>3. Head(c) # Short => n < Head(c) /\ Head(c) <= top
    BY <1>1 DEF ChannelOrdered
  <1>4. Head(c) # Short => ChannelOrdered(Tail(c), Head(c), top)
    <2>1. 1 \in 1..Len(c) /\ \A i \in 1..Len(Tail(c)) : 1 < i + 1
      BY <1>1
    <2>. QED
      BY <1>1, <1>2, <2>1 DEF ChannelOrdered
  <1>. QED
    BY <1>1, <1>2, <1>3, <1>4

\* A size that is above all in the channel goes to its end; so does a short payload.
LEMMA ChannelAppend ==
    ASSUME NEW c \in Seq(Payloads), NEW n \in Nat, NEW e \in Payloads, NEW top \in Nat,
           ChannelOrdered(c, n, top),
           e # Short => n < e /\ e <= top /\ ChannelOrdered(c, n, e - 1)
    PROVE  /\ Append(c, e) \in Seq(Payloads)
           /\ Len(Append(c, e)) = Len(c) + 1
           /\ \A i \in 1..Len(Append(c, e)) : \/ i \in 1..Len(c) /\ Append(c, e)[i] = c[i]
                                              \/ Append(c, e)[i] = e
           /\ ChannelOrdered(Append(c, e), n, top)
  <1>1. /\ Append(c, e) \in Seq(Payloads) /\ Len(c) \in Nat
        /\ Len(Append(c, e)) = Len(c) + 1
        /\ \A i \in 1..Len(c) : Append(c, e)[i] = c[i] /\ c[i] \in Nat
        /\ Append(c, e)[Len(c) + 1] = e
        /\ \A i \in 1..(Len(c) + 1) : i \in 1..Len(c) \/ i = Len(c) + 1
    <2>1. /\ Append(c, e) \in Seq(Payloads) /\ Len(c) \in Nat
          /\ Len(Append(c, e)) = Len(c) + 1
          /\ \A i \in 1..Len(c) : Append(c, e)[i] = c[i] /\ c[i] \in Payloads
          /\ Append(c, e)[Len(c) + 1] = e
          /\ \A i \in 1..(Len(c) + 1) : i \in 1..Len(c) \/ i = Len(c) + 1
      OBVIOUS
    <2>. QED
      BY <2>1 DEF Payloads, Sizes, Short
  <1>2. \A i \in 1..Len(c) : c[i] # Short =>
            n < c[i] /\ c[i] <= top /\ (e # Short => c[i] <= e - 1)
    BY DEF ChannelOrdered
  <1>3. e \in Nat
    BY DEF Payloads, Sizes, Short
  <1>4. \A i \in 1..(Len(c) + 1) : Append(c, e)[i] # Short =>
            n < Append(c, e)[i] /\ Append(c, e)[i] <= top
    BY <1>1, <1>2, <1>3
  <1>5. ASSUME NEW i \in 1..(Len(c) + 1), NEW j \in 1..(Len(c) + 1), i < j,
               Append(c, e)[i] # Short, Append(c, e)[j] # Short
        PROVE  Append(c, e)[i] < Append(c, e)[j]
    <2>1. i \in 1..Len(c)
      BY <1>1, <1>5
    <2>2. CASE j \in 1..Len(c)
      BY <1>1, <1>5, <2>1, <2>2 DEF ChannelOrdered
    <2>3. CASE j = Len(c) + 1
      BY <1>1, <1>2, <1>3, <1>5, <2>1, <2>3
    <2>. QED
      BY <1>1, <2>2, <2>3
  <1>. QED
    BY <1>1, <1>4, <1>5 DEF ChannelOrdered
-----------------------------------------------------------------------------
(***************************************************************************)
(* The client.                                                              *)
(***************************************************************************)

\* What InOrder says of the request queue alone, for a queue that grows.
LEMMA OrderedAppend ==
    ASSUME IInv, NEW m \in Request, NEW max \in 0..MaxSizes,
           \/ IsSize(m) /\ m.size = sent + 1 /\ max = sent + 1
           \/ ~IsSize(m) /\ max = sent,
           wire' = Append(wire, m), sent' = max,
           UNCHANGED <<handler, size, resizes, ptySize>>
    PROVE  /\ wire' \in Seq(Request)
           /\ InOrder'
  <1>1. /\ wire \in Seq(Request) /\ sent \in Nat /\ ptySize \in Nat /\ size \in Nat
        /\ max \in Nat /\ sent <= max
    BY BoundsAssumption DEF IInv, TypeOK
  <1>2. resizes \in Seq(Payloads) /\ \A i \in 1..Len(resizes) : resizes[i] \in Nat
    BY ChannelNat DEF IInv
  <1>3. ptySize' <= sent' /\ WireOrdered(wire', ptySize', sent')
    <2>1. ptySize <= sent /\ WireOrdered(wire, ptySize, sent)
      BY DEF IInv, InOrder
    <2>. QED
      BY <1>1, <2>1, WireAppend
  <1>4. \A i \in 1..Len(resizes) : resizes[i] # Short => resizes[i] <= sent
    BY DEF IInv, InOrder, ChannelOrdered
  <1>5. ChannelOrdered(resizes', ptySize', sent')
    BY <1>1, <1>2, <1>4 DEF IInv, InOrder, ChannelOrdered
  <1>6. \A i \in 1..Len(resizes') :
            resizes'[i] # Short => WireOrdered(wire', resizes'[i], sent')
    <2>. SUFFICES ASSUME NEW i \in 1..Len(resizes), resizes[i] # Short
                  PROVE  WireOrdered(Append(wire, m), resizes[i], max)
      OBVIOUS
    <2>1. WireOrdered(wire, resizes[i], sent)
      BY DEF IInv, InOrder
    <2>. QED
      BY <1>1, <1>2, <1>4, <2>1, WireAppend
  <1>7. ASSUME handler = "resize", size # Short
        PROVE  size <= sent' /\ WireOrdered(wire', size, sent')
    <2>1. WireOrdered(wire, size, sent)
      BY <1>7 DEF IInv, InOrder
    <2>2. size <= sent
      BY <1>7 DEF IInv, InOrder
    <2>. QED
      BY <1>1, <2>1, <2>2, WireAppend
  <1>8. wire' \in Seq(Request)
    BY <1>1
  <1>. QED
    BY <1>3, <1>5, <1>6, <1>7, <1>8 DEF IInv, InOrder

\* The client's requests: sizes in the order in which it sends them.
LEMMA ClientInv ==
    ASSUME IInv, ClientAsks \/ Stall \/ ReadOn \/ Leave
    PROVE  IInv' /\ ptySize' = ptySize
  <1>1. CASE SendSize
    <2>1. PICK m : m = [type |-> IF sent = 0 THEN "pty-req" ELSE "window-change",
                        size |-> sent + 1]
      OBVIOUS
    <2>2. sent + 1 \in Sizes /\ sent + 1 \in 0..MaxSizes /\ sent + 1 \in Nat
      BY <1>1, BoundsAssumption DEF SendSize, IInv, TypeOK, Sizes
    <2>3. m \in Request /\ IsSize(m) /\ m.size = sent + 1
      BY <2>1, <2>2 DEF Request, IsSize
    <2>4. /\ wire' = Append(wire, m) /\ sent' = sent + 1
          /\ UNCHANGED <<asked, client, handler, size, resizes, shell, ptySize, copyIn,
                         copyOut, held, full, closed, ticking>>
      BY <1>1, <2>1 DEF SendSize, ServerPart
    <2>5. wire' \in Seq(Request) /\ InOrder'
      BY <2>2, <2>3, <2>4, OrderedAppend
    <2>. QED
      BY <2>2, <2>4, <2>5 DEF IInv, TypeOK, InHand
  <1>2. ASSUME NEW type \in Asks, Ask(type)
        PROVE  IInv' /\ ptySize' = ptySize
    <2>1. PICK m : m = [type |-> type]
      OBVIOUS
    <2>2. m \in Request /\ ~IsSize(m)
      BY <2>1 DEF Request, IsSize, Asks
    <2>3. /\ wire' = Append(wire, m) /\ sent' = sent /\ asked' = asked \cup {type}
          /\ UNCHANGED <<client, handler, size, resizes, shell, ptySize, copyIn, copyOut,
                         held, full, closed, ticking>>
      BY <1>2, <2>1 DEF Ask, ServerPart
    <2>4. sent \in 0..MaxSizes
      BY DEF IInv, TypeOK
    <2>5. wire' \in Seq(Request) /\ InOrder'
      BY <2>2, <2>3, <2>4, OrderedAppend
    <2>. QED
      BY <2>3, <2>5 DEF IInv, TypeOK, InHand
  <1>3. CASE Stall \/ ReadOn \/ Leave
    <2>1. /\ UNCHANGED <<wire, sent, asked, handler, size, resizes, shell, ptySize, copyIn,
                         copyOut, held, closed, ticking>>
          /\ client' \in {"open", "gone"}
      BY <1>3 DEF Stall, ReadOn, Leave, ServerPart, IInv, TypeOK
    <2>2. full' \in BOOLEAN
      BY <1>3 DEF Stall, ReadOn, Leave, IInv, TypeOK
    <2>3. TypeOK' /\ InHand'
      BY <2>1, <2>2 DEF IInv, TypeOK, InHand
    <2>4. InOrder'
      BY <2>1 DEF IInv, InOrder
    <2>. QED
      BY <2>1, <2>3, <2>4 DEF IInv
  <1>. QED
    BY <1>1, <1>2, <1>3 DEF ClientAsks

-----------------------------------------------------------------------------
(***************************************************************************)
(* handleRequests.                                                          *)
(***************************************************************************)

\* Taking the first request leaves the others in order, behind it if it was a size.
LEMMA TakeOrdered ==
    ASSUME IInv, NEW type, Take(type)
    PROVE  /\ wire' \in Seq(Request) /\ Head(wire) \in Request
           /\ WireOrdered(wire', ptySize, sent)
           /\ \A i \in 1..Len(resizes) :
                 resizes[i] # Short => WireOrdered(wire', resizes[i], sent)
           /\ IsSize(Head(wire)) =>
                 /\ ptySize < Head(wire).size /\ Head(wire).size <= sent
                 /\ \A i \in 1..Len(resizes) :
                       resizes[i] # Short => resizes[i] < Head(wire).size
                 /\ WireOrdered(wire', Head(wire).size, sent)
  <1>1. wire \in Seq(Request) /\ wire # <<>> /\ wire' = Tail(wire)
    BY DEF IInv, TypeOK, Take
  <1>2. /\ WireOrdered(wire, ptySize, sent)
        /\ \A i \in 1..Len(resizes) :
              resizes[i] # Short => WireOrdered(wire, resizes[i], sent)
    BY DEF IInv, InOrder
  <1>. QED
    BY <1>1, <1>2, WireTail

\* Reading a size: it is above everything in the channel.
LEMMA TakeSizeInv ==
    ASSUME IInv, NEW type \in {"pty-req", "window-change"}, TakeSize(type)
    PROVE  IInv' /\ ptySize' = ptySize
  <1>1. Take(type) /\ Head(wire).type = type
    BY DEF TakeSize, Take
  <1>2. PICK n : n = Head(wire).size
    OBVIOUS
  <1>3. /\ handler' = "resize" /\ size' = n
        /\ UNCHANGED <<sent, asked, client, resizes, shell, ptySize, copyIn, copyOut, held,
                       full, closed, ticking>>
    BY <1>1, <1>2 DEF TakeSize, Take
  <1>4. IsSize(Head(wire))
    BY <1>1 DEF IsSize
  <1>5. /\ wire' \in Seq(Request) /\ n \in Sizes
        /\ WireOrdered(wire', ptySize, sent)
        /\ \A i \in 1..Len(resizes) :
              resizes[i] # Short => WireOrdered(wire', resizes[i], sent)
        /\ ptySize < n /\ n <= sent
        /\ \A i \in 1..Len(resizes) : resizes[i] # Short => resizes[i] < n
        /\ WireOrdered(wire', n, sent)
    BY <1>1, <1>2, <1>4, TakeOrdered, SizeOf
  <1>6. \A i \in 1..Len(resizes) : resizes[i] \in Nat
    BY ChannelNat DEF IInv
  <1>7. n \in Nat /\ n \in 0..MaxSizes
    BY <1>5, BoundsAssumption DEF Sizes
  <1>8. ChannelOrdered(resizes, ptySize, n - 1)
    BY <1>5, <1>6, <1>7 DEF IInv, InOrder, ChannelOrdered
  <1>9. TypeOK' /\ InHand'
    BY <1>3, <1>5, <1>7 DEF IInv, TypeOK, InHand, Payloads
  <1>10. InOrder'
    BY <1>3, <1>5, <1>8 DEF IInv, InOrder
  <1>. QED
    BY <1>3, <1>9, <1>10 DEF IInv

\* A short payload in hand promises nothing about sizes; a malformed request ends the
\* handler.
LEMMA TakeShortInv ==
    ASSUME IInv, TakeShortSize \/ TakeShortAsk
    PROVE  IInv' /\ ptySize' = ptySize
  <1>1. PICK type \in Asks : Take(type)
    BY DEF TakeShortSize, TakeShortAsk, Asks
  <1>2. /\ wire' \in Seq(Request)
        /\ WireOrdered(wire', ptySize, sent)
        /\ \A i \in 1..Len(resizes) :
              resizes[i] # Short => WireOrdered(wire', resizes[i], sent)
    BY <1>1, TakeOrdered
  <1>3. /\ UNCHANGED <<sent, asked, client, resizes, shell, ptySize, copyIn, copyOut, held,
                       full, closed>>
        /\ handler' \in {"resize", "panicked"}
        /\ handler' = "resize" => size' = Short
        /\ size' \in {size, Short}
    BY DEF TakeShortSize, TakeShortAsk, Take, EndHandler
  <1>4. ticking' \in BOOLEAN
    BY DEF TakeShortSize, TakeShortAsk, EndHandler, IInv, TypeOK
  <1>5. Short \in 0..MaxSizes /\ Short \in Payloads
    BY BoundsAssumption DEF Short, Payloads
  <1>6. TypeOK' /\ InHand'
    BY <1>2, <1>3, <1>4, <1>5 DEF IInv, TypeOK, InHand
  <1>7. InOrder'
    BY <1>2, <1>3 DEF IInv, InOrder
  <1>. QED
    BY <1>3, <1>6, <1>7 DEF IInv

\* Passing the size on through the channel.
LEMMA PutSizeInv ==
    ASSUME IInv, PutSize
    PROVE  IInv' /\ ptySize' = ptySize
  <1>1. /\ handler = "resize" /\ Len(resizes) < Cap
        /\ resizes' = Append(resizes, size) /\ handler' = "loop" /\ size' = 0
        /\ UNCHANGED <<wire, sent, asked, client, shell, ptySize, copyIn, copyOut, held,
                       full, closed, ticking>>
    BY DEF PutSize
  <1>2. /\ size \in Payloads /\ ptySize \in Nat /\ sent \in Nat
        /\ resizes \in Seq(Payloads) /\ ChannelOrdered(resizes, ptySize, sent)
    BY <1>1 DEF IInv, InOrder, InHand, TypeOK
  <1>3. size # Short => /\ ptySize < size /\ size <= sent
                        /\ ChannelOrdered(resizes, ptySize, size - 1)
                        /\ WireOrdered(wire, size, sent)
    BY <1>1 DEF IInv, InOrder
  <1>4. /\ resizes' \in Seq(Payloads) /\ Len(resizes') = Len(resizes) + 1
        /\ \A i \in 1..Len(resizes') : \/ i \in 1..Len(resizes) /\ resizes'[i] = resizes[i]
                                       \/ resizes'[i] = size
        /\ ChannelOrdered(resizes', ptySize, sent)
    BY <1>1, <1>2, <1>3, ChannelAppend
  <1>5. \A i \in 1..Len(resizes') :
            resizes'[i] # Short => WireOrdered(wire, resizes'[i], sent)
    BY <1>3, <1>4 DEF IInv, InOrder
  <1>6. Len(resizes') <= Cap
    BY <1>1, <1>2, <1>4, BoundsAssumption
  <1>7. TypeOK' /\ InHand'
    BY <1>1, <1>4, <1>6, BoundsAssumption DEF IInv, TypeOK, InHand
  <1>8. InOrder'
    BY <1>1, <1>4, <1>5 DEF IInv, InOrder
  <1>. QED
    BY <1>1, <1>7, <1>8 DEF IInv

\* The first size leaves the channel for the pty, or with a shell that cannot start,
\* while the requests that are left stay behind everything.
LEMMA ChannelShrinks ==
    ASSUME IInv, NEW w \in Seq(Request), handler # "resize",
           WireOrdered(w, ptySize, sent),
           \A i \in 1..Len(resizes) : resizes[i] # Short => WireOrdered(w, resizes[i], sent),
           resizes # <<>>
    PROVE  /\ Tail(resizes) \in Seq(Payloads) /\ Len(Tail(resizes)) <= Cap
           /\ Head(resizes) \in 0..MaxSizes
           /\ ChannelOrdered(Tail(resizes), ptySize, sent)
           /\ Head(resizes) # Short =>
                 /\ ptySize < Head(resizes) /\ Head(resizes) <= sent
                 /\ ChannelOrdered(Tail(resizes), Head(resizes), sent)
                 /\ WireOrdered(w, Head(resizes), sent)
           /\ \A i \in 1..Len(Tail(resizes)) :
                 Tail(resizes)[i] # Short => WireOrdered(w, Tail(resizes)[i], sent)
  <1>1. /\ resizes \in Seq(Payloads) /\ Len(resizes) <= Cap
        /\ ChannelOrdered(resizes, ptySize, sent)
    BY DEF IInv, TypeOK, InOrder
  <1>2. /\ Tail(resizes) \in Seq(Payloads)
        /\ Len(Tail(resizes)) = Len(resizes) - 1
        /\ Head(resizes) \in Payloads
        /\ ChannelOrdered(Tail(resizes), ptySize, sent)
        /\ Head(resizes) # Short => /\ ptySize < Head(resizes) /\ Head(resizes) <= sent
                                    /\ ChannelOrdered(Tail(resizes), Head(resizes), sent)
    BY <1>1, ChannelTail
  <1>3. /\ Len(resizes) \in Nat /\ Len(resizes) > 0 /\ Head(resizes) = resizes[1]
        /\ \A i \in 1..Len(Tail(resizes)) : /\ Tail(resizes)[i] = resizes[i + 1]
                                            /\ i + 1 \in 1..Len(resizes)
    BY <1>1
  <1>4. 1 \in 1..Len(resizes) /\ Len(Tail(resizes)) <= Cap
    BY <1>1, <1>2, <1>3, BoundsAssumption
  <1>5. Head(resizes) \in 0..MaxSizes
    BY <1>2, BoundsAssumption DEF Payloads, Sizes, Short
  <1>. QED
    BY <1>2, <1>3, <1>4, <1>5

\* The request for a shell: the pty gets the first size that was queued before it.
LEMMA AttachInv ==
    ASSUME IInv, AttachShell \/ AttachShellFails
    PROVE  IInv' /\ ptySize' >= ptySize
  <1>1. /\ Take("shell") /\ handler = "loop" /\ handler' = handler
        /\ UNCHANGED <<sent, asked, client, size, held, full, ticking>>
    BY DEF AttachShell, AttachShellFails, Take
  <1>2. /\ wire' \in Seq(Request)
        /\ WireOrdered(wire', ptySize, sent)
        /\ \A i \in 1..Len(resizes) :
              resizes[i] # Short => WireOrdered(wire', resizes[i], sent)
    BY <1>1, TakeOrdered
  <1>3. /\ shell' \in {"running", "failed"}
        /\ copyIn' \in BOOLEAN /\ copyOut' \in BOOLEAN /\ closed' \in BOOLEAN
    BY DEF AttachShell, AttachShellFails, IInv, TypeOK
  <1>4. ptySize \in Nat /\ resizes \in Seq(Payloads)
    BY DEF IInv, TypeOK
  <1>5. CASE resizes = <<>>
    <2>1. UNCHANGED <<resizes, ptySize>>
      BY <1>5 DEF AttachShell, AttachShellFails, InitialSize
    <2>2. TypeOK' /\ InHand'
      BY <1>1, <1>2, <1>3, <2>1 DEF IInv, TypeOK, InHand
    <2>3. InOrder'
      BY <1>1, <1>2, <2>1 DEF IInv, InOrder
    <2>. QED
      BY <1>4, <2>1, <2>2, <2>3 DEF IInv
  <1>6. CASE resizes # <<>>
    <2>1. /\ resizes' = Tail(resizes)
          /\ ptySize' = ptySize \/ (ptySize' = Head(resizes) /\ Head(resizes) # Short)
      BY <1>6 DEF AttachShell, AttachShellFails, InitialSize
    <2>2. /\ resizes' \in Seq(Payloads) /\ Len(resizes') <= Cap
          /\ Head(resizes) \in 0..MaxSizes
          /\ ChannelOrdered(resizes', ptySize, sent)
          /\ Head(resizes) # Short => /\ ptySize < Head(resizes) /\ Head(resizes) <= sent
                                      /\ ChannelOrdered(resizes', Head(resizes), sent)
                                      /\ WireOrdered(wire', Head(resizes), sent)
          /\ \A i \in 1..Len(resizes') :
                resizes'[i] # Short => WireOrdered(wire', resizes'[i], sent)
      BY <1>1, <1>2, <1>6, <2>1, ChannelShrinks
    <2>3. TypeOK' /\ InHand'
      BY <1>1, <1>2, <1>3, <2>1, <2>2 DEF IInv, TypeOK, InHand
    <2>4. InOrder'
      BY <1>1, <1>2, <2>1, <2>2 DEF IInv, InOrder
    <2>5. ptySize' >= ptySize
      BY <1>4, <2>1, <2>2
    <2>. QED
      BY <2>3, <2>4, <2>5 DEF IInv
  <1>. QED
    BY <1>5, <1>6

\* The other requests, and the ends of handleRequests.
LEMMA ServeInv ==
    ASSUME IInv, Serve("exec") \/ Serve("sftp") \/ ServeEnds \/ RequestsEnd
    PROVE  IInv' /\ ptySize' = ptySize
  <1>1. ASSUME NEW type \in {"exec", "sftp"}, Serve(type)
        PROVE  IInv' /\ ptySize' = ptySize
    <2>1. /\ Take(type) /\ handler' = type
          /\ UNCHANGED <<sent, asked, client, size, resizes, shell, ptySize, copyIn, copyOut,
                         held, full, closed, ticking>>
      BY <1>1 DEF Serve, Take
    <2>2. /\ wire' \in Seq(Request)
          /\ WireOrdered(wire', ptySize, sent)
          /\ \A i \in 1..Len(resizes) :
                resizes[i] # Short => WireOrdered(wire', resizes[i], sent)
      BY <2>1, TakeOrdered
    <2>3. TypeOK' /\ InHand'
      BY <2>1, <2>2 DEF IInv, TypeOK, InHand
    <2>4. InOrder'
      BY <2>1, <2>2 DEF IInv, InOrder
    <2>. QED
      BY <2>1, <2>3, <2>4 DEF IInv
  <1>2. CASE ServeEnds \/ RequestsEnd
    <2>1. /\ handler' = "ended" /\ ticking' = FALSE /\ closed' \in {closed, TRUE}
          /\ UNCHANGED <<wire, sent, asked, client, size, resizes, shell, ptySize, copyIn,
                         copyOut, held, full>>
      BY <1>2 DEF ServeEnds, RequestsEnd, EndHandler
    <2>. QED
      BY <2>1 DEF IInv, TypeOK, InHand, InOrder
  <1>. QED
    BY <1>1, <1>2

-----------------------------------------------------------------------------
(***************************************************************************)
(* The goroutines of attachShell.                                           *)
(***************************************************************************)

\* The next size reaches the pty while handleRequests may have a later one in hand.
LEMMA DrainInv ==
    ASSUME IInv, DrainSize
    PROVE  IInv' /\ ptySize' >= ptySize
  <1>1. /\ resizes # <<>> /\ Head(resizes) # Short
        /\ ptySize' = Head(resizes) /\ resizes' = Tail(resizes)
        /\ UNCHANGED <<wire, sent, asked, client, handler, size, shell, copyIn, copyOut,
                       held, full, closed, ticking>>
    BY DEF DrainSize
  <1>2. /\ wire \in Seq(Request) /\ resizes \in Seq(Payloads) /\ ptySize \in Nat
        /\ Len(resizes) <= Cap /\ size \in Nat /\ sent \in Nat
        /\ WireOrdered(wire, ptySize, sent)
        /\ \A i \in 1..Len(resizes) :
              resizes[i] # Short => WireOrdered(wire, resizes[i], sent)
        /\ ChannelOrdered(resizes, ptySize, sent)
    BY DEF IInv, TypeOK, InOrder
  <1>3. /\ resizes' \in Seq(Payloads) /\ Len(resizes') = Len(resizes) - 1
        /\ ptySize' \in Payloads /\ ptySize < ptySize' /\ ptySize' <= sent
        /\ ChannelOrdered(resizes', ptySize', sent)
    BY <1>1, <1>2, ChannelTail
  <1>4. /\ Len(resizes) \in Nat /\ Len(resizes) > 0 /\ ptySize' = resizes[1]
        /\ \A i \in 1..Len(resizes') : /\ resizes'[i] = resizes[i + 1]
                                       /\ i + 1 \in 1..Len(resizes)
    BY <1>1, <1>2
  <1>5. 1 \in 1..Len(resizes) /\ Len(resizes') <= Cap
    BY <1>2, <1>3, <1>4, BoundsAssumption
  <1>6. ptySize' \in 0..MaxSizes /\ ptySize' >= ptySize
    BY <1>2, <1>3, BoundsAssumption DEF Payloads, Sizes, Short
  <1>7. TypeOK' /\ InHand'
    BY <1>1, <1>3, <1>5, <1>6 DEF IInv, TypeOK, InHand
  <1>8. /\ WireOrdered(wire, ptySize', sent)
        /\ \A i \in 1..Len(resizes') :
              resizes'[i] # Short => WireOrdered(wire, resizes'[i], sent)
    BY <1>1, <1>2, <1>4, <1>5
  <1>9. ASSUME handler = "resize", size # Short
        PROVE  /\ ptySize' < size
               /\ ChannelOrdered(resizes', ptySize', size - 1)
    <2>1. ChannelOrdered(resizes, ptySize, size - 1)
      BY <1>9 DEF IInv, InOrder
    <2>2. ptySize' <= size - 1 /\ ChannelOrdered(resizes', ptySize', size - 1)
      BY <1>1, <1>2, <2>1, ChannelTail
    <2>3. ptySize' \in Nat
      BY <1>6, BoundsAssumption
    <2>. QED
      BY <1>2, <2>2, <2>3
  <1>10. InOrder'
    BY <1>1, <1>3, <1>8, <1>9 DEF IInv, InOrder
  <1>. QED
    BY <1>6, <1>7, <1>10 DEF IInv

\* The panic of parseDims ends the process; what it had queued is gone.
LEMMA CrashInv ==
    ASSUME IInv, DrainShort
    PROVE  IInv' /\ ptySize' = ptySize
  <1>1. /\ handler' = "crashed" /\ ticking' = FALSE /\ wire' = <<>> /\ resizes' = <<>>
        /\ size' = 0 /\ client' = "gone" /\ shell' = "exited" /\ closed' = TRUE
        /\ copyIn' = FALSE /\ copyOut' = FALSE /\ held' = FALSE /\ full' = FALSE
        /\ UNCHANGED <<sent, asked, ptySize>>
    BY DEF DrainShort, EndHandler
  <1>2. /\ <<>> \in Seq(Request) /\ <<>> \in Seq(Payloads) /\ Len(<<>>) = 0
        /\ 0 \in 0..MaxSizes /\ 0 <= Cap
    BY BoundsAssumption
  <1>3. TypeOK' /\ InHand'
    BY <1>1, <1>2 DEF IInv, TypeOK, InHand
  <1>4. InOrder'
    BY <1>1, <1>2 DEF IInv, InOrder, WireOrdered, ChannelOrdered
  <1>. QED
    BY <1>1, <1>3, <1>4 DEF IInv

\* The end of the shell and of the two copies has no effect on the sizes.
LEMMA EndInv ==
    ASSUME IInv, ShellExits \/ ChildExits \/ CopyOutEnds \/ ShellWritesInVain \/ CopyInEnds
    PROVE  IInv' /\ ptySize' = ptySize
  <1>1. /\ UNCHANGED <<wire, sent, asked, client, handler, size, resizes, ptySize, ticking>>
        /\ shell' \in {"none", "running", "exited", "failed"}
        /\ copyIn' \in BOOLEAN /\ copyOut' \in BOOLEAN /\ closed' \in BOOLEAN
        /\ held' \in BOOLEAN /\ full' \in BOOLEAN
    <2>1. /\ shell \in {"none", "running", "exited", "failed"}
          /\ copyIn \in BOOLEAN /\ copyOut \in BOOLEAN /\ closed \in BOOLEAN
          /\ held \in BOOLEAN /\ full \in BOOLEAN
      BY DEF IInv, TypeOK
    <2>2. CASE ShellExits
      BY <2>1, <2>2 DEF ShellExits
    <2>3. CASE CopyOutEnds
      BY <2>1, <2>3 DEF CopyOutEnds
    <2>4. CASE ShellWritesInVain
      BY <2>1, <2>4 DEF ShellWritesInVain
    <2>5. CASE CopyInEnds
      BY <2>1, <2>5 DEF CopyInEnds
    <2>6. CASE ChildExits
      BY <2>1, <2>6 DEF ChildExits
    <2>. QED
      BY <2>2, <2>3, <2>4, <2>5, <2>6
  <1>2. TypeOK' /\ InHand'
    BY <1>1 DEF IInv, TypeOK, InHand
  <1>. QED
    BY <1>1, <1>2 DEF IInv, InOrder

-----------------------------------------------------------------------------
\* Every step keeps the order, and none takes the pty back to an earlier size.
LEMMA Inductive == IInv /\ [Next]_vars => IInv' /\ ptySize' >= ptySize
  <1>. SUFFICES ASSUME IInv, [Next]_vars
                PROVE  IInv' /\ ptySize' >= ptySize
    OBVIOUS
  <1>1. ptySize \in Nat /\ (ptySize' = ptySize => ptySize' >= ptySize)
    BY DEF IInv, TypeOK
  <1>2. CASE ClientAsks \/ Stall \/ ReadOn \/ Leave
    BY <1>1, <1>2, ClientInv
  <1>3. CASE HandlerStep
    BY <1>1, <1>3, TakeSizeInv, TakeShortInv, PutSizeInv, AttachInv, ServeInv DEF HandlerStep
  <1>4. CASE ServeEnds \/ DrainSize \/ DrainShort
    BY <1>1, <1>4, ServeInv, DrainInv, CrashInv
  <1>5. CASE ShellExits \/ ChildExits \/ CopyOutEnds \/ ShellWritesInVain \/ CopyInEnds
    BY <1>1, <1>5, EndInv
  <1>6. CASE UNCHANGED vars
    <2>1. TypeOK' /\ InHand'
      BY <1>6 DEF vars, IInv, TypeOK, InHand
    <2>2. InOrder'
      BY <1>6 DEF vars, IInv, InOrder
    <2>. QED
      BY <1>1, <1>6, <2>1, <2>2 DEF vars, IInv
  <1>. QED
    BY <1>2, <1>3, <1>4, <1>5, <1>6 DEF Next

\* There is no size at first.
LEMMA InitInv == Init => IInv
  <1>. SUFFICES ASSUME Init
                PROVE  IInv
    OBVIOUS
  <1>1. TypeOK /\ InHand
    <2>1. <<>> \in Seq(Request) /\ <<>> \in Seq(Payloads)
      OBVIOUS
    <2>2. 0 \in 0..MaxSizes /\ Len(<<>>) <= Cap
      BY BoundsAssumption
    <2>. QED
      BY <2>1, <2>2 DEF Init, TypeOK, InHand
  <1>2. InOrder
    BY DEF Init, InOrder, WireOrdered, ChannelOrdered
  <1>. QED
    BY <1>1, <1>2 DEF IInv

\* Every variable has its type: the channel resizes never holds more sizes than its
\* capacity, whatever the client sends and whenever the shell starts or ends.
THEOREM TypeCorrect == Spec => []TypeOK
  <1>1. IInv => TypeOK
    BY DEF IInv
  <1>2. IInv /\ [Next]_vars => IInv'
    BY Inductive
  <1>. QED
    BY <1>1, <1>2, InitInv, PTL DEF Spec

\* The terminal never goes back to an earlier window size, for any capacity of the
\* channel and any number of sizes.
THEOREM SizesInOrderAlways == Spec => SizesInOrder
  <1>1. IInv /\ [Next]_vars => [ptySize' >= ptySize]_vars
    BY Inductive
  <1>2. IInv /\ [Next]_vars => IInv'
    BY Inductive
  <1>. QED
    BY <1>1, <1>2, InitInv, PTL DEF Spec, SizesInOrder
=============================================================================
