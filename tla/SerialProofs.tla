---------------------------- MODULE SerialProofs ----------------------------
(***************************************************************************)
(* Proofs about the serial port, for every ring and pool size.             *)
(***************************************************************************)
EXTENDS Serial, TLAPS

(* sd_rbusy and the number of pending serial_pushinput events.  Busy means *)
(* that a chain is running; the converse holds only until the kernel has   *)
(* first held the input up.                                                *)
ChainInv ==
    On => /\ sd_rbusy => readers > 0
          /\ ~suspended /\ ~sd_rbusy => readers = 0

SerialInv ==
    /\ TypeOK
    /\ ChainInv /\ NoStrandedInput /\ OneChain
    /\ WriterPending /\ IrqIsOr

(* Stepping an index of the ring stays in the ring.                        *)
LEMMA WrapType == \A i \in Index : Wrap(i) \in Index
BY SerialAssumption DEF Index, Wrap

LEMMA InitSerialInv == Init => SerialInv
<1> SUFFICES ASSUME Init PROVE SerialInv
  OBVIOUS
<1>1. TypeOK
  <2>1. /\ sd_rirq \in SerIrq /\ sd_wirq \in SerIrq
        /\ sd_wbusy \in BOOLEAN /\ sd_rbusy \in BOOLEAN /\ sd_didread \in BOOLEAN
        /\ irq \in BOOLEAN /\ suspended \in BOOLEAN /\ power \in {"on", "smoke"}
    BY Zenon DEF Init, SerIrq
  <2>2. 0 \in Index /\ 0 \in Char /\ 1 \in Char /\ 0 \in 0 .. Pool
    BY SerialAssumption DEF Index, Char
  <2>3. sd_inbuf \in [Index -> Char]
    BY <2>2 DEF Init
  <2> QED
    BY <2>1, <2>2, <2>3 DEF Init, TypeOK
<1>2. ChainInv /\ NoStrandedInput /\ OneChain /\ WriterPending /\ IrqIsOr
  BY DEF Init, ChainInv, NoStrandedInput, OneChain, WriterPending, IrqIsOr,
         On, Asserts
<1> QED
  BY <1>1, <1>2 DEF SerialInv

(* One push keeps the chain accounted for.  n is the number of other       *)
(* serial_pushinput events: all of them when a key starts the push, all    *)
(* but the current one when an event does.                                 *)
LEMMA PushKeepsInv ==
    ASSUME SerialInv, On,
           NEW buf \in [Index -> Char], NEW tail \in Index,
           NEW n \in Nat, NEW inuse \in {0, 1},
           n <= readers, n <= Pool,
           ~suspended => n = 0,
           pushinput(buf, tail, n, inuse),
           sd_inbuftail' = tail,
           UNCHANGED <<sd_wbusy, sd_wirq>>
    PROVE  /\ ChainInv' /\ NoStrandedInput' /\ OneChain' /\ WriterPending' /\ IrqIsOr'
           /\ sd_readch' \in Char /\ sd_inbufhead' \in Index
           /\ sd_didread' \in BOOLEAN /\ sd_rirq' \in SerIrq /\ sd_rbusy' \in BOOLEAN
           /\ readers' \in 0 .. Pool /\ writers' \in 0 .. 1
           /\ irq' \in BOOLEAN /\ suspended' \in BOOLEAN
           /\ power' \in {"on", "smoke"}
<1> USE DEF SerialInv, TypeOK, On
<1>1. CASE sd_inbufhead = tail /\ EndChain(n)
  <2>1. /\ sd_rbusy' = FALSE /\ readers' = n
        /\ UNCHANGED <<sd_readch, sd_inbufhead, sd_didread, sd_rirq, irq,
                       writers, suspended, power>>
    BY <1>1 DEF EndChain
  <2>2. IrqIsOr' /\ WriterPending'
    BY <2>1 DEF IrqIsOr, Asserts, WriterPending
  <2>3. readers' \in 0 .. Pool
    BY <2>1, SerialAssumption
  <2>4. ChainInv' /\ NoStrandedInput' /\ OneChain'
    BY <1>1, <2>1 DEF ChainInv, NoStrandedInput, OneChain
  <2> QED
    BY <2>1, <2>2, <2>3, <2>4
<1>2. CASE sd_inbufhead # tail /\ HeldUp /\ Hold(n, inuse)
  BY <1>2, SerialAssumption DEF Hold, Exhausted, ChainInv, NoStrandedInput, OneChain,
                   WriterPending, IrqIsOr, Asserts
<1>3. CASE sd_inbufhead # tail /\ ~HeldUp /\ Deliver(buf, n, inuse)
  <2>1. sd_inbufhead' \in Index /\ sd_readch' \in Char
    BY <1>3, WrapType DEF Deliver
  <2>2. sd_rirq' \in SerIrq /\ irq' \in BOOLEAN /\ IrqIsOr'
    <3>1. sd_rirq' = [sd_rirq EXCEPT !.ready = TRUE] /\ sd_wirq' = sd_wirq
      BY <1>3 DEF Deliver
    <3>2. irq' = (Asserts(sd_rirq') \/ Asserts(sd_wirq'))
      BY <1>3, <3>1 DEF Deliver, setirq
    <3>3. sd_rirq' \in SerIrq
      BY <3>1 DEF SerIrq
    <3> QED
      BY <3>2, <3>3, Zenon DEF IrqIsOr, Asserts
  <2>3. /\ sd_didread' \in BOOLEAN /\ sd_rbusy' = TRUE /\ suspended' = suspended
        /\ readers' \in 0 .. Pool /\ writers' \in 0 .. 1
        /\ power' \in {"on", "smoke"}
    <3>1. sd_didread' = FALSE /\ sd_rbusy' = TRUE /\ suspended' = suspended
      BY <1>3 DEF Deliver
    <3>2. \/ power' = "smoke" /\ readers' = readers /\ writers' = writers
          \/ /\ n + writers + inuse < Pool
             /\ readers' = n + 1 /\ writers' = writers /\ power' = power
      BY <1>3, SerialAssumption DEF Deliver, Exhausted
    <3>3. readers' \in 0 .. Pool /\ writers' \in 0 .. 1
      BY <3>2, SerialAssumption
    <3>4. power' \in {"on", "smoke"}
      BY <3>2
    <3> QED
      BY <3>1, <3>3, <3>4
  <2>4. ChainInv' /\ NoStrandedInput' /\ OneChain' /\ WriterPending'
    BY <1>3, <2>3, SerialAssumption DEF Deliver, Exhausted, ChainInv,
         NoStrandedInput, OneChain, WriterPending
  <2> QED
    BY <2>1, <2>2, <2>3, <2>4
<1> QED
  BY <1>1, <1>2, <1>3 DEF pushinput

LEMMA NextSerialInv == SerialInv /\ [Next]_vars => SerialInv'
<1> SUFFICES ASSUME SerialInv, [Next]_vars PROVE SerialInv'
  OBVIOUS
<1> USE DEF SerialInv
<1>1. CASE serial_input
  <2>1. CASE sd_rbusy
    <3>1. TypeOK'
      BY <1>1, <2>1, WrapType, SerialAssumption DEF serial_input, TypeOK, Char
    <3>2. ChainInv' /\ NoStrandedInput' /\ OneChain' /\ WriterPending' /\ IrqIsOr'
      BY <1>1, <2>1 DEF serial_input, ChainInv, NoStrandedInput, OneChain,
           WriterPending, IrqIsOr, Asserts, On, TypeOK
    <3> QED
      BY <3>1, <3>2
  <2>2. CASE ~sd_rbusy
    <3> DEFINE buf == [sd_inbuf EXCEPT ![sd_inbuftail] = accepted]
               tail == Wrap(sd_inbuftail)
    <3>1. buf \in [Index -> Char] /\ tail \in Index
      BY WrapType DEF TypeOK
    <3>2. /\ On /\ pushinput(buf, tail, readers, 0)
          /\ sd_inbuftail' = tail /\ sd_inbuf' = buf
          /\ UNCHANGED <<sd_wbusy, sd_wirq>>
      BY <1>1, <2>2 DEF serial_input
    <3>3. /\ readers \in Nat /\ readers <= Pool
          /\ (~suspended => readers = 0)
      BY <2>2, <3>2, SerialAssumption DEF TypeOK, ChainInv
    <3>4. accepted' \in Char
      BY <1>1, SerialAssumption DEF serial_input, TypeOK, Char
    <3> HIDE DEF buf, tail
    <3> QED
      BY <3>1, <3>2, <3>3, <3>4, PushKeepsInv DEF TypeOK
  <2> QED
    BY <2>1, <2>2
<1>2. CASE serial_pushinput
  <2>1. /\ On /\ pushinput(sd_inbuf, sd_inbuftail, readers - 1, 1)
        /\ UNCHANGED <<sd_inbuf, sd_inbuftail, accepted, sd_wbusy, sd_wirq>>
    BY <1>2 DEF serial_pushinput
  <2>2. /\ readers - 1 \in Nat /\ readers - 1 <= readers /\ readers - 1 <= Pool
        /\ (~suspended => readers - 1 = 0)
    BY <1>2, SerialAssumption DEF serial_pushinput, TypeOK, OneChain
  <2>3. sd_inbuf \in [Index -> Char] /\ sd_inbuftail \in Index
    BY DEF TypeOK
  <2> QED
    BY <2>1, <2>2, <2>3, PushKeepsInv DEF TypeOK
<1>3. CASE serial_writedone
  <2>1. sd_wirq' \in SerIrq /\ writers' = 0 /\ sd_wbusy' = FALSE
    <3>1. sd_wirq' = [sd_wirq EXCEPT !.ready = TRUE] /\ sd_wirq \in SerIrq
      BY <1>3 DEF serial_writedone, TypeOK
    <3>2. writers' = 0 /\ sd_wbusy' = FALSE
      BY <1>3 DEF serial_writedone, TypeOK
    <3> QED
      BY <3>1, <3>2 DEF SerIrq
  <2>2. irq' = (Asserts(sd_rirq') \/ Asserts(sd_wirq'))
    BY <1>3 DEF serial_writedone, setirq
  <2>3. irq' \in BOOLEAN /\ IrqIsOr'
    BY <2>2, Zenon DEF IrqIsOr, Asserts
  <2>4. TypeOK'
    <3>1. UNCHANGED <<sd_rbusy, sd_rirq, sd_readch, sd_didread, sd_inbuf,
                      sd_inbufhead, sd_inbuftail, accepted, readers, suspended, power>>
      BY <1>3 DEF serial_writedone, invars
    <3>2. sd_wbusy' \in BOOLEAN
      BY <2>1, Zenon
    <3>3. writers' \in 0 .. 1
      BY <2>1
    <3> QED
      BY <2>1, <2>3, <3>1, <3>2, <3>3 DEF TypeOK
  <2> QED
    BY <1>3, <2>1, <2>3, <2>4 DEF serial_writedone, ChainInv, NoStrandedInput,
       OneChain, WriterPending, On, invars
<1>4. CASE FetchChar
  BY <1>4 DEF FetchChar, TypeOK, ChainInv, NoStrandedInput, OneChain,
       WriterPending, IrqIsOr, Asserts, On, invars, outvars
<1>5. CASE StoreChar
  BY <1>5, SerialAssumption DEF StoreChar, Exhausted, TypeOK, ChainInv,
       NoStrandedInput, OneChain, WriterPending, IrqIsOr, Asserts, On, invars
<1>6. CASE StoreRirq
  BY <1>6 DEF StoreRirq, setirq, TypeOK, ChainInv, NoStrandedInput, OneChain,
       WriterPending, IrqIsOr, Asserts, On, invars, outvars, SerIrq
<1>7. CASE StoreWirq
  BY <1>7 DEF StoreWirq, setirq, TypeOK, ChainInv, NoStrandedInput, OneChain,
       WriterPending, IrqIsOr, Asserts, On, invars, SerIrq
<1>8. CASE UNCHANGED vars
  BY <1>8 DEF vars, invars, outvars, TypeOK, ChainInv, NoStrandedInput,
       OneChain, WriterPending, IrqIsOr, Asserts, On
<1> QED
  BY <1>1, <1>2, <1>3, <1>4, <1>5, <1>6, <1>7, <1>8 DEF Next

(* The inductive invariant holds in every reachable state.                 *)
THEOREM SerialInvariant == Spec => []SerialInv
BY InitSerialInv, NextSerialInv, PTL DEF Spec

(* Buffered console input always has an event under way that will move it, *)
(* for every ring size and every behaviour of user and kernel.             *)
THEOREM InputNeverStranded == Spec => []NoStrandedInput
<1>1. SerialInv => NoStrandedInput
  BY DEF SerialInv
<1> QED
  BY <1>1, SerialInvariant, PTL

(* While the kernel keeps up there is never more than one chain of         *)
(* serial_pushinput events, and sd_wbusy is exact: a busy port has its     *)
(* completion under way, and one that is not busy has none that could      *)
(* clear the flag of a later character.                                    *)
THEOREM EventsAreCounted == Spec => []EventsCounted
<1>1. SerialInv => EventsCounted
  BY DEF SerialInv, EventsCounted
<1> QED
  BY <1>1, SerialInvariant, PTL

(* The port's interrupt is the OR of its two halves, in every reachable    *)
(* state.                                                                  *)
THEOREM HalvesAgree == Spec => []IrqIsOr
<1>1. SerialInv => IrqIsOr
  BY DEF SerialInv
<1> QED
  BY <1>1, SerialInvariant, PTL

(* Every variable of the port keeps its type; in particular the indices    *)
(* never leave the ring and at most one completion is pending.             *)
THEOREM SerialTypeCorrect == Spec => []TypeOK
<1>1. SerialInv => TypeOK
  BY DEF SerialInv
<1> QED
  BY <1>1, SerialInvariant, PTL

-----------------------------------------------------------------------------
(***************************************************************************)
(* The order of the input.  The ring holds the numbers that follow the one *)
(* in the read register, without a gap, up to the one before "accepted".   *)
(***************************************************************************)
Place(head, k) == IF head + k >= INBUF_SIZE THEN head + k - INBUF_SIZE ELSE head + k
Ahead(ch, k)   == IF ch + k >= NumChars THEN ch + k - NumChars ELSE ch + k
Count(head, tail) == IF tail >= head THEN tail - head ELSE tail - head + INBUF_SIZE

Ring(buf, head, tail, acc, ch) ==
    /\ acc = Ahead(ch, Count(head, tail) + 1)
    /\ \A k \in 0 .. Count(head, tail) - 1 : buf[Place(head, k)] = Ahead(ch, k + 1)

RingInv == Ring(sd_inbuf, sd_inbufhead, sd_inbuftail, accepted, sd_readch)

(* The code's modulo steps.                                                *)
LEMMA WrapIsPlace == \A i \in Index : Wrap(i) = Place(i, 1) /\ Place(i, 1) \in Index
<1> SUFFICES ASSUME NEW i \in Index
             PROVE  Wrap(i) = Place(i, 1) /\ Place(i, 1) \in Index
  OBVIOUS
<1>1. CASE i + 1 = INBUF_SIZE
  BY <1>1, SerialAssumption DEF Index, Wrap, Place
<1>2. CASE i + 1 # INBUF_SIZE
  BY <1>2, SerialAssumption DEF Index, Wrap, Place
<1> QED
  BY <1>1, <1>2

LEMMA NextIsAhead ==
    \A c \in Char : (c + 1) % NumChars = Ahead(c, 1) /\ Ahead(c, 1) \in Char
<1> SUFFICES ASSUME NEW c \in Char
             PROVE  (c + 1) % NumChars = Ahead(c, 1) /\ Ahead(c, 1) \in Char
  OBVIOUS
<1>1. CASE c + 1 = NumChars
  BY <1>1, SerialAssumption DEF Char, Ahead
<1>2. CASE c + 1 # NumChars
  BY <1>2, SerialAssumption DEF Char, Ahead
<1> QED
  BY <1>1, <1>2

(* A key is put behind the last one.                                       *)
LEMMA RingPut ==
    ASSUME NEW buf \in [Index -> Char], NEW head \in Index, NEW tail \in Index,
           NEW acc \in Char, NEW ch \in Char, Ring(buf, head, tail, acc, ch),
           Place(tail, 1) # head
    PROVE  Ring([buf EXCEPT ![tail] = acc], head, Place(tail, 1), Ahead(acc, 1), ch)
<1> DEFINE n == Count(head, tail)
           new == [buf EXCEPT ![tail] = acc]
<1>1. n \in 0 .. INBUF_SIZE - 2 /\ Count(head, Place(tail, 1)) = n + 1
  BY SerialAssumption DEF Index, Place, Count
<1>2. Place(head, n) = tail
  BY SerialAssumption DEF Index, Place, Count
<1>3. \A k \in 0 .. n - 1 : Place(head, k) \in Index /\ Place(head, k) # tail
  BY SerialAssumption DEF Index, Place, Count
<1>4. acc = Ahead(ch, n + 1)
  BY DEF Ring
<1>5. Ahead(acc, 1) = Ahead(ch, n + 2)
  BY <1>1, <1>4, SerialAssumption DEF Char, Ahead
<1> HIDE DEF n
<1>6. ASSUME NEW k \in 0 .. n PROVE new[Place(head, k)] = Ahead(ch, k + 1)
  <2>1. CASE k = n
    BY <1>2, <1>4, <2>1
  <2>2. CASE k # n
    <3>1. k \in 0 .. n - 1
      BY <1>1, <2>2
    <3>2. buf[Place(head, k)] = Ahead(ch, k + 1)
      BY <3>1 DEF Ring, n
    <3> QED
      BY <1>3, <3>1, <3>2
  <2> QED
    BY <2>1, <2>2
<1>7. n + 1 + 1 = n + 2 /\ n + 1 - 1 = n
  BY <1>1
<1> QED
  BY <1>1, <1>5, <1>6, <1>7 DEF Ring

(* The character taken is the next one.                                    *)
LEMMA RingTake ==
    ASSUME NEW buf \in [Index -> Char], NEW head \in Index, NEW tail \in Index,
           NEW acc \in Char, NEW ch \in Char, Ring(buf, head, tail, acc, ch),
           head # tail
    PROVE  /\ buf[head] = Ahead(ch, 1)
           /\ Ring(buf, Place(head, 1), tail, acc, buf[head])
<1> DEFINE n == Count(head, tail)
<1>1. n \in 1 .. INBUF_SIZE - 1 /\ Count(Place(head, 1), tail) = n - 1
  BY SerialAssumption DEF Index, Place, Count
<1>2. Place(head, 0) = head
  BY SerialAssumption DEF Index, Place
<1>3. acc = Ahead(ch, n + 1) /\ \A k \in 0 .. n - 1 : buf[Place(head, k)] = Ahead(ch, k + 1)
  BY DEF Ring
<1>4. \A k \in 0 .. n - 2 : Place(Place(head, 1), k) = Place(head, k + 1)
  BY <1>1, SerialAssumption DEF Index, Place
<1>5. \A k \in 1 .. n : Ahead(Ahead(ch, 1), k) = Ahead(ch, k + 1)
  BY <1>1, SerialAssumption DEF Char, Ahead
<1> HIDE DEF n
<1>6. buf[head] = Ahead(ch, 1)
  <2>1. 0 \in 0 .. n - 1 /\ 0 + 1 = 1
    BY <1>1
  <2> QED
    BY <1>2, <1>3, <2>1
<1>7. acc = Ahead(buf[head], n - 1 + 1)
  <2>1. n \in 1 .. n /\ n - 1 + 1 = n
    BY <1>1
  <2> QED
    BY <1>3, <1>5, <1>6, <2>1
<1>8. ASSUME NEW k \in 0 .. n - 1 - 1
      PROVE  buf[Place(Place(head, 1), k)] = Ahead(buf[head], k + 1)
  <2>1. k \in 0 .. n - 2 /\ k + 1 \in 0 .. n - 1 /\ k + 1 \in 1 .. n
    BY <1>1
  <2> QED
    BY <1>3, <1>4, <1>5, <1>6, <2>1
<1> QED
  BY <1>1, <1>6, <1>7, <1>8 DEF Ring

(* A push delivers the next character or none.                             *)
LEMMA PushInOrder ==
    ASSUME TypeOK, NEW buf \in [Index -> Char], NEW tail \in Index, NEW acc \in Char,
           Ring(buf, sd_inbufhead, tail, acc, sd_readch),
           NEW n, NEW inuse, pushinput(buf, tail, n, inuse)
    PROVE  /\ Ring(buf, sd_inbufhead', tail, acc, sd_readch')
           /\ sd_readch' # sd_readch => sd_readch' = Ahead(sd_readch, 1)
<1>0. sd_inbufhead \in Index /\ sd_readch \in Char
  BY DEF TypeOK
<1>1. CASE UNCHANGED <<sd_readch, sd_inbufhead>>
  BY <1>1
<1>2. CASE sd_inbufhead # tail /\ Deliver(buf, n, inuse)
  <2>1. sd_readch' = buf[sd_inbufhead] /\ sd_inbufhead' = Place(sd_inbufhead, 1)
    BY <1>0, <1>2, WrapIsPlace DEF Deliver
  <2> QED
    BY <1>0, <1>2, <2>1, RingTake
<1> QED
  BY <1>1, <1>2 DEF pushinput, EndChain, Hold

LEMMA StepInOrder ==
    ASSUME TypeOK, RingInv, [Next]_vars
    PROVE  /\ RingInv'
           /\ sd_readch' # sd_readch => sd_readch' = (sd_readch + 1) % NumChars
<1>0. /\ sd_inbuf \in [Index -> Char] /\ sd_inbufhead \in Index /\ sd_inbuftail \in Index
      /\ accepted \in Char /\ sd_readch \in Char
      /\ Ring(sd_inbuf, sd_inbufhead, sd_inbuftail, accepted, sd_readch)
  BY DEF TypeOK, RingInv
<1>1. CASE serial_input
  <2> DEFINE buf == [sd_inbuf EXCEPT ![sd_inbuftail] = accepted]
             tail == Place(sd_inbuftail, 1)
             acc == Ahead(accepted, 1)
  <2>1. /\ buf \in [Index -> Char] /\ tail \in Index /\ acc \in Char
        /\ tail # sd_inbufhead
        /\ sd_inbuf' = buf /\ sd_inbuftail' = tail /\ accepted' = acc
    BY <1>0, <1>1, WrapIsPlace, NextIsAhead DEF serial_input, Full
  <2>2. Ring(buf, sd_inbufhead, tail, acc, sd_readch)
    BY <1>0, <2>1, RingPut
  <2>3. \/ UNCHANGED <<sd_readch, sd_inbufhead>>
        \/ pushinput(buf, tail, readers, 0)
    BY <1>0, <1>1, WrapIsPlace DEF serial_input
  <2> HIDE DEF buf, tail, acc
  <2>4. CASE UNCHANGED <<sd_readch, sd_inbufhead>>
    BY <2>1, <2>2, <2>4 DEF RingInv
  <2>5. CASE pushinput(buf, tail, readers, 0)
    <3>1. /\ Ring(buf, sd_inbufhead', tail, acc, sd_readch')
          /\ sd_readch' # sd_readch => sd_readch' = Ahead(sd_readch, 1)
      BY <2>1, <2>2, <2>5, PushInOrder
    <3> QED
      BY <1>0, <2>1, <3>1, NextIsAhead DEF RingInv
  <2> QED
    BY <2>3, <2>4, <2>5
<1>2. CASE serial_pushinput
  <2>1. /\ pushinput(sd_inbuf, sd_inbuftail, readers - 1, 1)
        /\ UNCHANGED <<sd_inbuf, sd_inbuftail, accepted>>
    BY <1>2 DEF serial_pushinput
  <2>2. /\ Ring(sd_inbuf, sd_inbufhead', sd_inbuftail, accepted, sd_readch')
        /\ sd_readch' # sd_readch => sd_readch' = Ahead(sd_readch, 1)
    BY <1>0, <2>1, PushInOrder
  <2> QED
    BY <1>0, <2>1, <2>2, NextIsAhead DEF RingInv
<1>3. CASE UNCHANGED <<sd_inbuf, sd_inbufhead, sd_inbuftail, accepted, sd_readch>>
  BY <1>0, <1>3 DEF RingInv
<1> QED
  BY <1>1, <1>2, <1>3
     DEF Next, serial_writedone, FetchChar, StoreChar, StoreRirq, StoreWirq, vars, invars

LEMMA InitRing == Init => RingInv
<1> SUFFICES ASSUME Init PROVE RingInv
  OBVIOUS
<1>1. /\ sd_inbufhead = 0 /\ sd_inbuftail = 0 /\ accepted = 1 /\ sd_readch = 0
  BY DEF Init
<1>2. Count(0, 0) = 0 /\ Ahead(0, 1) = 1
  BY SerialAssumption DEF Count, Ahead
<1> QED
  BY <1>1, <1>2 DEF RingInv, Ring

(* Accepted characters reach the read register in the order they were      *)
(* typed, none skipped and none repeated, whichever of serial_input and    *)
(* serial_pushinput delivers them and however often the chain stops.       *)
THEOREM InputInOrder == Spec => InOrder
<1>1. Spec => []RingInv
  <2>1. SerialInv /\ RingInv /\ [Next]_vars => RingInv'
    BY StepInOrder DEF SerialInv
  <2> QED
    BY <2>1, InitRing, SerialInvariant, PTL DEF Spec
<1>2. SerialInv /\ RingInv /\ [Next]_vars =>
        [sd_readch' # sd_readch => sd_readch' = (sd_readch + 1) % NumChars]_vars
  BY StepInOrder DEF SerialInv
<1> QED
  BY <1>1, <1>2, SerialInvariant, PTL DEF Spec, InOrder
=============================================================================
