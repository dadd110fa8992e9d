----------------------------- MODULE ClockProofs -----------------------------
(***************************************************************************)
(* Theorems about virtual time, for every cycle length, rotor, longest     *)
(* run, pool size and set of delays.                                       *)
(*                                                                         *)
(* The argument: in every phase some lower bound holds for the due times   *)
(* of all events, and a sharper one for those the loop knew of ("prompt"). *)
(* Inserting an event behind those that are due no later, and stopping the *)
(* CPUs when it lands in front of the one they run to, keeps both.  A step *)
(* gdb asks for inside clock_waitirq()'s select() is a run of its own; the *)
(* idle loop's advance stays within the known events because a sleep is    *)
(* seen by the queue check of the step, and what it steps past a jump is   *)
(* counted in "stepped".                                                   *)
(***************************************************************************)
EXTENDS Clock, TLAPS, ProofBasics, SequenceTheorems

-----------------------------------------------------------------------------
(* Every event, or every event the loop knew of, is due at x or later.     *)
AllDue(q, x)    == \A i \in 1 .. Len(q) : q[i].due >= x
PromptDue(q, x) == \A i \in 1 .. Len(q) : q[i].prompt => q[i].due >= x

(* A queue in order, with at most its head being run to.                   *)
Sorted(q) == \A i, j \in 1 .. Len(q) : i <= j => q[i].due <= q[j].due
QueueOK(q) ==
    /\ q \in Seq(Event) /\ Sorted(q)
    /\ \A i \in 2 .. Len(q) : ~q[i].runningto
    /\ \A i \in 1 .. Len(q) : q[i].runningto => q[i].prompt

(* The search of the sorted insert succeeds.                               *)
LEMMA InsertPosDef ==
    ASSUME NEW q \in Seq(Event), NEW due \in Int
    PROVE  LET p == InsertPos(q, due)
           IN  /\ p \in 1 .. Len(q) + 1
               /\ \A i \in 1 .. p - 1 : q[i].due <= due
               /\ p <= Len(q) => due < q[p].due
<1> DEFINE T == {p \in 1 .. Len(q) + 1 : p <= Len(q) => due < q[p].due}
<1>1. T \subseteq Nat /\ Len(q) + 1 \in T
  OBVIOUS
<1>2. PICK p \in T : \A u \in T : p <= u
  <2> HIDE DEF T
  <2> QED BY <1>1, LeastNat
<1>3. ASSUME NEW i \in 1 .. p - 1 PROVE q[i].due <= due
  <2>1. i \in 1 .. Len(q) /\ i \notin T
    BY <1>2
  <2>2. q[i] \in Event
    BY <2>1
  <2> QED
    BY <2>1, <2>2 DEF Event
<1>4. \E u \in 1 .. Len(q) + 1 :
        /\ \A i \in 1 .. u - 1 : q[i].due <= due
        /\ u <= Len(q) => due < q[u].due
  BY <1>2, <1>3
<1> QED
  BY <1>4, Zenon DEF InsertPos

(* The queue schedule_event() leaves, element by element.                  *)
Inserted(q, p, new, told) ==
    LET rest == SubSeq(q, p, Len(q))
    IN  SubSeq(q, 1, p - 1) \o <<new>> \o
           (IF told THEN [rest EXCEPT ![1].runningto = FALSE] ELSE rest)

LEMMA InsertShape ==
    ASSUME NEW q \in Seq(Event), NEW p \in 1 .. Len(q) + 1, NEW new \in Event,
           NEW told \in BOOLEAN, told => p <= Len(q)
    PROVE  LET r == Inserted(q, p, new, told)
           IN  /\ r \in Seq(Event) /\ Len(r) = Len(q) + 1
               /\ \A i \in 1 .. p - 1 : r[i] = q[i]
               /\ r[p] = new
               /\ \A i \in p + 1 .. Len(q) + 1 :
                    /\ r[i].due = q[i - 1].due /\ r[i].prompt = q[i - 1].prompt
                    /\ told /\ i = p + 1 => ~r[i].runningto
                    /\ ~(told /\ i = p + 1) => r[i] = q[i - 1]
<1> DEFINE rest == SubSeq(q, p, Len(q))
           last == IF told THEN [rest EXCEPT ![1].runningto = FALSE] ELSE rest
           front == SubSeq(q, 1, p - 1)
<1>1. /\ front \in Seq(Event) /\ Len(front) = p - 1
      /\ \A i \in 1 .. p - 1 : front[i] = q[i]
  OBVIOUS
<1>2. /\ rest \in Seq(Event) /\ Len(rest) = Len(q) - p + 1
      /\ \A i \in 1 .. Len(q) - p + 1 : rest[i] = q[p + i - 1]
  OBVIOUS
<1>3. /\ last \in Seq(Event) /\ Len(last) = Len(q) - p + 1
      /\ \A i \in 1 .. Len(q) - p + 1 :
            last[i] = IF told /\ i = 1 THEN [q[p] EXCEPT !.runningto = FALSE]
                                       ELSE q[p + i - 1]
  <2>1. CASE told
    <3>1. 1 \in 1 .. Len(rest) /\ rest[1] = q[p] /\ q[p] \in Event
      BY <1>2, <2>1
    <3>2. [q[p] EXCEPT !.runningto = FALSE] \in Event
      BY <3>1 DEF Event
    <3>3. last = [rest EXCEPT ![1] = [q[p] EXCEPT !.runningto = FALSE]]
      BY <2>1, <3>1
    <3> HIDE DEF rest, last
    <3>4. last \in Seq(Event) /\ Len(last) = Len(rest)
      BY <1>2, <3>1, <3>2, <3>3, ExceptSeq
    <3> QED
      BY <1>2, <2>1, <3>1, <3>2, <3>3, <3>4
  <2>2. CASE ~told
    BY <1>2, <2>2
  <2> QED
    BY <2>1, <2>2
<1> HIDE DEF last, front, rest
<1> DEFINE a == front \o <<new>>
           r == a \o last
<1>4. /\ a \in Seq(Event) /\ Len(a) = p
      /\ \A i \in 1 .. p - 1 : a[i] = q[i]
      /\ a[p] = new
  <2>1. <<new>> \in Seq(Event) /\ Len(<<new>>) = 1 /\ <<new>>[1] = new
    OBVIOUS
  <2>2. /\ a \in Seq(Event) /\ Len(a) = Len(front) + 1
        /\ \A i \in 1 .. Len(front) + 1 :
             a[i] = IF i <= Len(front) THEN front[i] ELSE <<new>>[i - Len(front)]
    BY <1>1, <2>1, ConcatProperties
  <2>3. p \in 1 .. Len(front) + 1 /\ ~(p <= Len(front)) /\ p - Len(front) = 1
    BY <1>1
  <2>4. a[p] = new
    BY <2>1, <2>2, <2>3
  <2> QED
    BY <1>1, <2>2, <2>4
<1> HIDE DEF a
<1>5. /\ r \in Seq(Event) /\ Len(r) = Len(q) + 1
      /\ \A i \in 1 .. p : r[i] = a[i]
      /\ \A i \in p + 1 .. Len(q) + 1 : r[i] = last[i - p]
  <2>1. /\ r \in Seq(Event) /\ Len(r) = Len(a) + Len(last)
        /\ \A i \in 1 .. Len(a) + Len(last) :
             r[i] = IF i <= Len(a) THEN a[i] ELSE last[i - Len(a)]
    BY <1>3, <1>4, ConcatProperties
  <2>2. Len(a) + Len(last) = Len(q) + 1 /\ Len(a) = p
    BY <1>3, <1>4
  <2> QED
    BY <2>1, <2>2
<1> HIDE DEF r
<1>6. ASSUME NEW i \in p + 1 .. Len(q) + 1
      PROVE  /\ r[i].due = q[i - 1].due /\ r[i].prompt = q[i - 1].prompt
             /\ told /\ i = p + 1 => ~r[i].runningto
             /\ ~(told /\ i = p + 1) => r[i] = q[i - 1]
  <2>1. i - p \in 1 .. Len(q) - p + 1 /\ p + (i - p) - 1 = i - 1 /\ (i - p = 1 <=> i = p + 1)
    OBVIOUS
  <2>2. r[i] = IF told /\ i = p + 1 THEN [q[p] EXCEPT !.runningto = FALSE]
                                    ELSE q[i - 1]
    BY <1>3, <1>5, <2>1
  <2>3. CASE told /\ i = p + 1
    <3>1. r[i] = [q[p] EXCEPT !.runningto = FALSE]
      BY <2>2, <2>3, Zenon
    <3>2. q[p] \in Event /\ i - 1 = p
      BY <2>1, <2>3
    <3>3. r[i].due = q[p].due /\ r[i].prompt = q[p].prompt /\ ~r[i].runningto
      BY <3>1, <3>2 DEF Event
    <3> QED
      BY <2>3, <3>2, <3>3
  <2>4. CASE ~(told /\ i = p + 1)
    BY <2>2, <2>4, Zenon
  <2> QED
    BY <2>3, <2>4
<1>7. /\ r \in Seq(Event) /\ Len(r) = Len(q) + 1
      /\ \A i \in 1 .. p - 1 : r[i] = q[i]
      /\ r[p] = new
  BY <1>4, <1>5
<1> QED
  BY <1>6, <1>7 DEF Inserted, r, a, last, front, rest

(***************************************************************************)
(* Inserting an event keeps the queue in order, and a bound that the new   *)
(* event respects.  Only the head can be running to, so the CPUs are told  *)
(* only when the new event becomes the head.                               *)
(***************************************************************************)
LEMMA InsertEffect ==
    ASSUME NEW q, QueueOK(q), NEW new \in Event, ~new.runningto,
           NEW p \in 1 .. Len(q) + 1, NEW told \in BOOLEAN,
           \A i \in 1 .. p - 1 : q[i].due <= new.due,
           p <= Len(q) => new.due < q[p].due,
           told <=> p <= Len(q) /\ q[p].runningto,
           NEW r \in Seq(Event), Len(r) = Len(q) + 1,
           \A i \in 1 .. p - 1 : r[i] = q[i],
           r[p] = new,
           \A i \in p + 1 .. Len(q) + 1 :
              /\ r[i].due = q[i - 1].due /\ r[i].prompt = q[i - 1].prompt
              /\ told /\ i = p + 1 => ~r[i].runningto
              /\ ~(told /\ i = p + 1) => r[i] = q[i - 1]
    PROVE  /\ QueueOK(r) /\ Len(r) = Len(q) + 1
           /\ q # <<>> /\ q[1].runningto /\ ~told => new.due >= q[1].due
           /\ \A x \in Int : AllDue(q, x) /\ x <= new.due => AllDue(r, x)
           /\ \A x \in Int : PromptDue(q, x) /\ (new.prompt => x <= new.due)
                                => PromptDue(r, x)
<1>1. q \in Seq(Event) /\ Len(q) \in Nat
  BY DEF QueueOK
<1>2. /\ new.due \in Int /\ new.prompt \in BOOLEAN
  BY DEF Event
<1>3. \A i \in 1 .. Len(q) : /\ q[i] \in Event /\ q[i].due \in Int
                             /\ q[i].runningto \in BOOLEAN /\ q[i].prompt \in BOOLEAN
  <2>1. \A i \in 1 .. Len(q) : q[i] \in Event
    BY <1>1
  <2> QED
    BY <2>1 DEF Event
<1>4. ASSUME NEW i \in p + 1 .. Len(q) + 1
      PROVE  /\ i - 1 \in 1 .. Len(q) /\ i - 1 >= p
             /\ r[i].due = q[i - 1].due /\ r[i].prompt = q[i - 1].prompt
             /\ ~r[i].runningto
  <2>1. i - 1 \in 1 .. Len(q) /\ i - 1 >= p /\ q[i - 1] \in Event
    BY <1>1, <1>3
  <2>2. ~r[i].runningto
    <3>1. CASE told /\ i = p + 1
      BY <3>1
    <3>2. CASE ~(told /\ i = p + 1) /\ i - 1 >= 2
      BY <1>1, <2>1, <3>2 DEF QueueOK
    <3>3. CASE ~(told /\ i = p + 1) /\ i - 1 = 1
      BY <2>1, <3>3
    <3> QED
      BY <2>1, <3>1, <3>2, <3>3
  <2> QED
    BY <2>1, <2>2
<1>5. \A i \in 1 .. p - 1 : i \in 1 .. Len(q) /\ r[i] = q[i] /\ q[i].due <= new.due
  BY <1>1
<1>6. \A i \in 1 .. Len(r) : i \in 1 .. p - 1 \/ i = p \/ i \in p + 1 .. Len(q) + 1
  BY <1>1
<1>7. \A i, j \in 1 .. Len(q) : i <= j => q[i].due <= q[j].due
  BY DEF QueueOK, Sorted
<1>8. \A i \in p + 1 .. Len(q) + 1 : r[i].due > new.due
  <2> SUFFICES ASSUME NEW i \in p + 1 .. Len(q) + 1 PROVE r[i].due > new.due
    OBVIOUS
  <2>1. p \in 1 .. Len(q) /\ p <= Len(q) /\ i - 1 \in 1 .. Len(q) /\ p <= i - 1
    BY <1>1, <1>4
  <2>2. q[p].due <= q[i - 1].due /\ new.due < q[p].due
    BY <1>7, <2>1
  <2> QED
    BY <1>2, <1>3, <1>4, <2>1, <2>2
<1>9. Sorted(r)
  <2> SUFFICES ASSUME NEW i \in 1 .. Len(r), NEW j \in 1 .. Len(r), i <= j
               PROVE  r[i].due <= r[j].due
    BY DEF Sorted
  <2>1. r[i] \in Event /\ r[i].due \in Int /\ r[j].due \in Int
    <3>1. r[i] \in Event /\ r[j] \in Event
      OBVIOUS
    <3> QED
      BY <3>1 DEF Event
  <2>2. CASE i \in 1 .. p - 1
    <3>1. CASE j \in 1 .. p - 1
      BY <2>2, <3>1, <1>5, <1>7
    <3>2. CASE j = p
      BY <2>2, <3>2, <1>5
    <3>3. CASE j \in p + 1 .. Len(q) + 1
      <4>1. r[i].due <= new.due /\ new.due < r[j].due
        BY <2>2, <3>3, <1>5, <1>8
      <4> QED
        BY <2>1, <1>2, <4>1
    <3> QED
      BY <1>6, <3>1, <3>2, <3>3
  <2>3. CASE i = p
    <3>1. j = p \/ j \in p + 1 .. Len(q) + 1
      BY <1>1, <1>6, <2>3
    <3> QED
      BY <2>1, <2>3, <3>1, <1>2, <1>8
  <2>4. CASE i \in p + 1 .. Len(q) + 1
    <3>1. j \in p + 1 .. Len(q) + 1
      BY <1>1, <1>6, <2>4
    <3>2. i - 1 <= j - 1
      BY <2>4, <3>1
    <3> QED
      BY <2>4, <3>1, <3>2, <1>4, <1>7
  <2> QED
    BY <1>6, <2>2, <2>3, <2>4
<1>10. QueueOK(r)
  <2>1. ASSUME NEW i \in 2 .. Len(r) PROVE ~r[i].runningto
    BY <1>1, <1>4, <1>5, <1>6 DEF QueueOK
  <2>2. ASSUME NEW i \in 1 .. Len(r), r[i].runningto PROVE r[i].prompt
    BY <2>2, <1>1, <1>4, <1>5, <1>6 DEF QueueOK
  <2> QED
    BY <1>9, <2>1, <2>2 DEF QueueOK
<1>11. ASSUME NEW x \in Int, AllDue(q, x), x <= new.due PROVE AllDue(r, x)
  BY <1>1, <1>2, <1>4, <1>5, <1>6, <1>11 DEF AllDue
<1>12. ASSUME NEW x \in Int, PromptDue(q, x), new.prompt => x <= new.due
       PROVE  PromptDue(r, x)
  BY <1>1, <1>2, <1>4, <1>5, <1>6, <1>12 DEF PromptDue
<1>13. ASSUME q # <<>>, q[1].runningto, ~told PROVE new.due >= q[1].due
  <2>1. Len(q) >= 1
    BY <1>1, <1>13
  <2>2. p # 1
    BY <1>13, <2>1
  <2> QED
    BY <1>1, <1>2, <1>3, <2>1, <2>2
<1> QED
  BY <1>10, <1>11, <1>12, <1>13

LEMMA InsertedAt ==
    ASSUME NEW q, QueueOK(q), NEW new \in Event, ~new.runningto,
           NEW p \in 1 .. Len(q) + 1, NEW told \in BOOLEAN,
           \A i \in 1 .. p - 1 : q[i].due <= new.due,
           p <= Len(q) => new.due < q[p].due,
           told <=> p <= Len(q) /\ q[p].runningto
    PROVE  LET r == Inserted(q, p, new, told)
           IN  /\ QueueOK(r) /\ Len(r) = Len(q) + 1
               /\ q # <<>> /\ q[1].runningto /\ ~told => new.due >= q[1].due
               /\ \A x \in Int : AllDue(q, x) /\ x <= new.due => AllDue(r, x)
               /\ \A x \in Int : PromptDue(q, x) /\ (new.prompt => x <= new.due)
                                    => PromptDue(r, x)
<1> DEFINE r == Inserted(q, p, new, told)
<1>1. q \in Seq(Event) /\ (told => p <= Len(q))
  BY DEF QueueOK
<1>2. r \in Seq(Event) /\ Len(r) = Len(q) + 1 /\ r[p] = new
  BY <1>1, InsertShape
<1>3. \A i \in 1 .. p - 1 : r[i] = q[i]
  BY <1>1, InsertShape
<1>4. \A i \in p + 1 .. Len(q) + 1 :
        /\ r[i].due = q[i - 1].due /\ r[i].prompt = q[i - 1].prompt
        /\ told /\ i = p + 1 => ~r[i].runningto
        /\ ~(told /\ i = p + 1) => r[i] = q[i - 1]
  BY <1>1, InsertShape
<1> HIDE DEF r
<1>5. /\ QueueOK(r) /\ Len(r) = Len(q) + 1
      /\ q # <<>> /\ q[1].runningto /\ ~told => new.due >= q[1].due
      /\ \A x \in Int : AllDue(q, x) /\ x <= new.due => AllDue(r, x)
      /\ \A x \in Int : PromptDue(q, x) /\ (new.prompt => x <= new.due)
                           => PromptDue(r, x)
  BY <1>2, <1>3, <1>4, InsertEffect, Zenon
<1> QED
  BY <1>5 DEF r

LEMMA InsertedOK ==
    ASSUME NEW q, QueueOK(q), NEW new \in Event, ~new.runningto
    PROVE  LET p == InsertPos(q, new.due)
               told == Told(q, p)
               r == Inserted(q, p, new, told)
           IN  /\ QueueOK(r) /\ Len(r) = Len(q) + 1 /\ told \in BOOLEAN
               /\ q # <<>> /\ q[1].runningto /\ ~told => new.due >= q[1].due
               /\ \A x \in Int : AllDue(q, x) /\ x <= new.due => AllDue(r, x)
               /\ \A x \in Int : PromptDue(q, x) /\ (new.prompt => x <= new.due)
                                    => PromptDue(r, x)
<1> DEFINE p == InsertPos(q, new.due)
           told == Told(q, p)
<1>1. q \in Seq(Event) /\ new.due \in Int
  BY DEF QueueOK, Event
<1>2. /\ p \in 1 .. Len(q) + 1
      /\ \A i \in 1 .. p - 1 : q[i].due <= new.due
      /\ p <= Len(q) => new.due < q[p].due
  BY <1>1, InsertPosDef, Zenon
<1> HIDE DEF p
<1>3. told \in BOOLEAN /\ (told <=> p <= Len(q) /\ q[p].runningto)
  <2>1. p <= Len(q) => q[p] \in Event
    BY <1>1, <1>2
  <2>2. p <= Len(q) => q[p].runningto \in BOOLEAN
    BY <2>1 DEF Event
  <2> QED
    BY <1>1, <1>2, <2>2 DEF Told
<1> HIDE DEF told
<1>4. LET r == Inserted(q, p, new, told)
      IN  /\ QueueOK(r) /\ Len(r) = Len(q) + 1
          /\ q # <<>> /\ q[1].runningto /\ ~told => new.due >= q[1].due
          /\ \A x \in Int : AllDue(q, x) /\ x <= new.due => AllDue(r, x)
          /\ \A x \in Int : PromptDue(q, x) /\ (new.prompt => x <= new.due)
                               => PromptDue(r, x)
  BY <1>2, <1>3, InsertedAt
<1> QED
  BY <1>3, <1>4 DEF p, told

-----------------------------------------------------------------------------
(***************************************************************************)
(* schedule_event() on the queue q.  Unless the pool is exhausted the new  *)
(* queue is in order, the bounds below the current time are kept, and so   *)
(* is every bound of the known events if the new one is not among them, or *)
(* if the CPUs run on.                                                     *)
(***************************************************************************)
Scheduled(q) ==
    /\ QueueOK(queue') /\ Len(queue') = Len(q) + 1
    /\ phase' = phase /\ cpu_cycling' \in BOOLEAN /\ (cpu_cycling' => cpu_cycling)
    /\ \A x \in Int : AllDue(q, x) /\ x <= clock_vnow => AllDue(queue', x)
    /\ \A x \in Int : PromptDue(q, x) /\ x <= clock_vnow => PromptDue(queue', x)
    /\ \A x \in Int : PromptDue(q, x) /\ ~Noticed(q) => PromptDue(queue', x)
    /\ \A x \in Int : PromptDue(q, x) /\ phase = "run" /\ cpu_cycling'
                         => PromptDue(queue', x)

LEMMA NoticedType ==
    ASSUME NEW q \in Seq(Event), jump \in BOOLEAN
    PROVE  Noticed(q) \in BOOLEAN
<1>1. CASE phase = "run" /\ q # <<>>
  <2>1. q[1] \in Event
    BY <1>1
  <2>2. q[1].runningto \in BOOLEAN
    BY <2>1 DEF Event
  <2> QED
    BY <1>1, <2>2 DEF Noticed
<1>2. CASE ~(phase = "run" /\ q # <<>>)
  BY <1>2 DEF Noticed
<1> QED
  BY <1>1, <1>2

LEMMA ScheduleEffect ==
    ASSUME NEW q, QueueOK(q), NEW inuse \in Nat, clock_vnow \in Int,
           cpu_cycling \in BOOLEAN, jump \in BOOLEAN, schedule_event(q, inuse)
    PROVE  \/ phase' = "smoke" /\ queue' = q /\ cpu_cycling' = cpu_cycling
           \/ Len(q) + inuse < MAXACTIONS /\ Scheduled(q)
<1>1. CASE Len(q) + inuse >= MAXACTIONS
  BY <1>1 DEF schedule_event
<1>2. CASE ~(Len(q) + inuse >= MAXACTIONS)
  <2>1. PICK d \in Delays, t \in Tags :
          LET new  == [due |-> clock_vnow + d, runningto |-> FALSE,
                       prompt |-> Noticed(q), tag |-> t]
              p    == InsertPos(q, new.due)
              told == Told(q, p)
              rest == SubSeq(q, p, Len(q))
          IN  /\ queue' = SubSeq(q, 1, p - 1) \o <<new>> \o
                    (IF told THEN [rest EXCEPT ![1].runningto = FALSE] ELSE rest)
              /\ cpu_cycling' = (cpu_cycling /\ ~told)
              /\ UNCHANGED phase
    BY <1>2, Zenon DEF schedule_event
  <2> DEFINE new  == [due |-> clock_vnow + d, runningto |-> FALSE,
                      prompt |-> Noticed(q), tag |-> t]
             told == Told(q, InsertPos(q, new.due))
  <2>2. q \in Seq(Event) /\ d \in Nat /\ t \in BOOLEAN /\ Len(q) \in Nat
    BY ClockAssumption DEF QueueOK
  <2>3. /\ new \in Event /\ new.due = clock_vnow + d /\ new.due \in Int
        /\ new.due >= clock_vnow /\ new.prompt = Noticed(q) /\ ~new.runningto
    BY <2>2, NoticedType DEF Event
  <2>4. /\ queue' = Inserted(q, InsertPos(q, new.due), new, told)
        /\ cpu_cycling' = (cpu_cycling /\ ~told)
        /\ phase' = phase
    BY <2>1 DEF Inserted
  <2> HIDE DEF new
  <2>5. /\ QueueOK(queue') /\ Len(queue') = Len(q) + 1 /\ told \in BOOLEAN
        /\ q # <<>> /\ q[1].runningto /\ ~told => new.due >= q[1].due
        /\ \A x \in Int : AllDue(q, x) /\ x <= new.due => AllDue(queue', x)
        /\ \A x \in Int : PromptDue(q, x) /\ (new.prompt => x <= new.due)
                             => PromptDue(queue', x)
    BY <2>3, <2>4, InsertedOK
  <2> HIDE DEF told
  <2>6. cpu_cycling' \in BOOLEAN /\ (cpu_cycling' => cpu_cycling /\ ~told)
    BY <2>4, <2>5
  <2>7. \A x \in Int : AllDue(q, x) /\ x <= clock_vnow => AllDue(queue', x)
    BY <2>3, <2>5
  <2>8. \A x \in Int : PromptDue(q, x) /\ x <= clock_vnow => PromptDue(queue', x)
    BY <2>3, <2>5
  <2>9. \A x \in Int : PromptDue(q, x) /\ ~Noticed(q) => PromptDue(queue', x)
    BY <2>3, <2>5
  <2>10. ASSUME NEW x \in Int, PromptDue(q, x), phase = "run", cpu_cycling'
         PROVE  PromptDue(queue', x)
    <3>1. CASE Noticed(q)
      <4>1. q # <<>> /\ q[1].runningto
        BY <2>10, <3>1 DEF Noticed
      <4>2. 1 \in 1 .. Len(q) /\ q[1] \in Event
        BY <2>2, <4>1
      <4>3. q[1].prompt /\ q[1].due \in Int
        BY <4>1, <4>2 DEF QueueOK, Event
      <4>4. q[1].due >= x
        BY <2>10, <4>2, <4>3 DEF PromptDue
      <4>5. x <= new.due
        BY <2>3, <2>5, <2>6, <2>10, <4>1, <4>3, <4>4
      <4> QED
        BY <2>5, <2>10, <4>5
    <3>2. CASE ~Noticed(q)
      BY <2>9, <2>10, <3>2
    <3> QED
      BY <3>1, <3>2
  <2>11. Len(q) + inuse < MAXACTIONS
    BY <1>2, <2>2, ClockAssumption
  <2> QED
    BY <2>4, <2>5, <2>6, <2>7, <2>8, <2>9, <2>10, <2>11, Zenon DEF Scheduled
<1> QED
  BY <1>1, <1>2

-----------------------------------------------------------------------------
(***************************************************************************)
(* The inductive invariant.                                                *)
(***************************************************************************)

(* Scalars.  A run is never longer than what is left before the next poll, *)
(* so the rotor is positive except when the run that used it up has just   *)
(* ended.                                                                  *)
ScalarInv ==
    /\ cpu_cycles_count \in 0 .. goticks /\ goticks \in 0 .. MAXRUN
    /\ rotor \in 0 .. ROTOR
    /\ rotor = 0 => phase = "smoke" \/ (phase = "queue" /\ caller = "runloop")
    /\ extra_selecttime \in 0 .. MaxSleep /\ sleptnsecs \in Nat
    /\ stepped \in 0 .. MaxSteps
    /\ idleslop \in 0 .. NSECS_PER_CLOCK - 1 /\ vnow \in Nat
    /\ phase \in {"top", "run", "queue", "handlers", "break", "stop",
                 "idle", "off", "smoke"}
    /\ caller \in {"runloop", "waitirq", "onecycle"}
    /\ selector \in {"runloop", "waitirq", "stoploop"}
    /\ cpu_cycling \in BOOLEAN /\ running \in BOOLEAN /\ jump \in BOOLEAN
    /\ stopped_in_debugger \in BOOLEAN /\ shutoff_flag \in BOOLEAN
    /\ phase \notin {"run", "smoke"} => cpu_cycles_count = 0
    /\ selector = "waitirq" =>
           \/ phase \in {"handlers", "smoke"}
           \/ phase \in {"run", "queue"} /\ caller = "onecycle"
    /\ jump => selector = "waitirq"
    /\ stepped # 0 => \/ jump \/ phase = "smoke"
                      \/ phase = "queue" /\ caller = "waitirq"
    /\ phase = "queue" /\ caller = "onecycle" => vnow = extra_selecttime

(* A run in progress is short of its budget.                               *)
RunInv ==
    phase = "run" =>
        /\ cpu_cycles_count < goticks
        /\ \/ caller = "onecycle" /\ goticks = 1
           \/ caller = "runloop" /\ goticks <= rotor

(* No event is overdue, except while the queue is being checked.           *)
OverdueInv ==
    /\ phase \notin {"queue", "smoke"} => AllDue(queue, 0)
    /\ phase = "queue" /\ caller # "waitirq" =>
           AllDue(queue, -(NSECS_PER_CLOCK * ROTOR))

(* The time gdb stepped the machine inside the current idle jump.          *)
StepTime == NSECS_PER_CLOCK * stepped

(* The events the loop knew of: none is more than a cycle late, plus what  *)
(* was stepped inside a jump; and while the CPUs may run on, none is due   *)
(* before the last cycle granted.                                          *)
PromptInv ==
    /\ PromptDue(queue, NSECS_PER_CLOCK * cpu_cycles_count - NSECS_PER_CLOCK - StepTime)
    /\ phase = "run" =>
         /\ PromptDue(queue, NSECS_PER_CLOCK * cpu_cycles_count)
         /\ cpu_cycling =>
              PromptDue(queue, NSECS_PER_CLOCK * goticks - NSECS_PER_CLOCK)

(* What the idle loop will add to the clock reaches no further than the    *)
(* known events.  For a jump that is so but for the cycles gdb stepped, of *)
(* which the one in progress is not billed yet; for a sleep, because the   *)
(* check_queue() of every step sees the time slept as well.                *)
JumpFloor == sleptnsecs - StepTime + (IF phase = "run" THEN NSECS_PER_CLOCK ELSE 0)
IdleInv ==
    selector = "waitirq" /\ phase # "smoke" =>
        /\ jump => PromptDue(queue, JumpFloor)
        /\ ~jump => extra_selecttime >= sleptnsecs
        /\ ~jump /\ phase = "handlers" => PromptDue(queue, sleptnsecs)

ClockInv ==
    /\ QueueOK(queue) /\ Len(queue) <= MAXACTIONS
    /\ ScalarInv /\ RunInv /\ OverdueInv /\ PromptInv /\ IdleInv

-----------------------------------------------------------------------------
(***************************************************************************)
(* Arithmetic.                                                             *)
(***************************************************************************)
(* Rounding up to cycles stops less than a cycle past the event.           *)
LEMMA TicksBound ==
    ASSUME NEW n \in Nat \ {0}, NEW d \in Nat \ {0}, NEW m \in Nat, d < m * n,
           NEW t, t = (d + n - 1) \div n
    PROVE  t \in Nat /\ t >= 1 /\ t <= m /\ n * t - n < d
<1>1. t \in Int /\ n * t <= d + n - 1 /\ d + n - 1 < n * t + n
  OBVIOUS
<1>2. n * t > 0
  BY <1>1
<1>3. t >= 1
  BY <1>1, <1>2
<1>4. t <= m
  <2> SUFFICES ASSUME t >= m + 1 PROVE FALSE
    BY <1>1
  <2>1. n * (m + 1) <= n * t
    BY <1>1, <1>3, MulMono
  <2>2. n * (m + 1) = m * n + n
    OBVIOUS
  <2>3. n * t \in Int /\ m * n \in Int
    BY <1>1
  <2> QED
    BY <1>1, <2>1, <2>2, <2>3
<1> QED
  BY <1>1, <1>3, <1>4

-----------------------------------------------------------------------------
(***************************************************************************)
(* The other operations on the queue.                                      *)
(***************************************************************************)
LEMMA DueWeaken ==
    ASSUME NEW q, QueueOK(q), NEW x \in Int, NEW y \in Int, y <= x
    PROVE  /\ AllDue(q, x) => AllDue(q, y)
           /\ PromptDue(q, x) => PromptDue(q, y)
           /\ AllDue(q, x) => PromptDue(q, y)
<1>1. \A i \in 1 .. Len(q) : q[i] \in Event
  BY DEF QueueOK
<1>2. \A i \in 1 .. Len(q) : q[i].due \in Int
  BY <1>1 DEF Event
<1> QED
  BY <1>2 DEF AllDue, PromptDue

(* In a sorted queue the head speaks for all.                              *)
LEMMA HeadDue ==
    ASSUME NEW q, QueueOK(q), NEW x \in Int, q # <<>> => q[1].due >= x
    PROVE  AllDue(q, x)
<1> SUFFICES ASSUME NEW i \in 1 .. Len(q) PROVE q[i].due >= x
  BY DEF AllDue
<1>1. q \in Seq(Event) /\ q # <<>> /\ 1 \in 1 .. Len(q) /\ q[1] \in Event /\ q[i] \in Event
  BY DEF QueueOK
<1>2. q[1].due <= q[i].due
  BY <1>1 DEF QueueOK, Sorted
<1>3. q[1].due \in Int /\ q[i].due \in Int
  BY <1>1 DEF Event
<1> QED
  BY <1>1, <1>2, <1>3

LEMMA AdvanceOK ==
    ASSUME NEW q, QueueOK(q), NEW n \in Int
    PROVE  LET r == clock_vadvance(q, n)
           IN  /\ QueueOK(r) /\ Len(r) = Len(q)
               /\ \A x \in Int : AllDue(q, x + n) => AllDue(r, x)
               /\ \A x \in Int : PromptDue(q, x + n) => PromptDue(r, x)
<1> DEFINE r == clock_vadvance(q, n)
<1>1. q \in Seq(Event) /\ Len(q) \in Nat /\ DOMAIN q = 1 .. Len(q)
  BY DEF QueueOK
<1>2. ASSUME NEW i \in 1 .. Len(q)
      PROVE  /\ q[i] \in Event /\ q[i].due \in Int
             /\ [q[i] EXCEPT !.due = @ - n] \in Event
             /\ [q[i] EXCEPT !.due = @ - n].due = q[i].due - n
             /\ [q[i] EXCEPT !.due = @ - n].prompt = q[i].prompt
             /\ [q[i] EXCEPT !.due = @ - n].runningto = q[i].runningto
  <2>1. q[i] \in Event
    BY <1>1
  <2> QED
    BY <2>1 DEF Event
<1>3. r = [i \in 1 .. Len(q) |-> [q[i] EXCEPT !.due = @ - n]]
  BY <1>1, Zenon DEF clock_vadvance
<1>4. r \in Seq(Event) /\ Len(r) = Len(q)
  BY <1>1, <1>2, <1>3
<1>5. \A i \in 1 .. Len(q) : /\ q[i].due \in Int /\ r[i].due = q[i].due - n
                             /\ r[i].prompt = q[i].prompt
                             /\ r[i].runningto = q[i].runningto
  BY <1>2, <1>3
<1> HIDE DEF r
<1>6. QueueOK(r)
  <2>1. Sorted(r)
    BY <1>1, <1>4, <1>5 DEF Sorted, QueueOK
  <2> QED
    BY <1>1, <1>4, <1>5, <2>1 DEF QueueOK
<1>7. \A x \in Int : AllDue(q, x + n) => AllDue(r, x)
  BY <1>1, <1>4, <1>5 DEF AllDue
<1>8. \A x \in Int : PromptDue(q, x + n) => PromptDue(r, x)
  BY <1>1, <1>4, <1>5 DEF PromptDue
<1> QED
  BY <1>4, <1>6, <1>7, <1>8 DEF r

LEMMA SeenOK ==
    ASSUME QueueOK(queue), NEW to \in BOOLEAN
    PROVE  LET r == SeenQueue(to)
           IN  /\ QueueOK(r) /\ Len(r) = Len(queue)
               /\ \A x \in Int : AllDue(queue, x) => AllDue(r, x) /\ PromptDue(r, x)
<1> DEFINE r == SeenQueue(to)
           seen(i) == [queue[i] EXCEPT !.prompt = TRUE,
                                       !.runningto = @ \/ (to /\ i = 1)]
<1>1. queue \in Seq(Event) /\ Len(queue) \in Nat /\ DOMAIN queue = 1 .. Len(queue)
  BY DEF QueueOK
<1>2. ASSUME NEW i \in 1 .. Len(queue)
      PROVE  /\ seen(i) \in Event
             /\ seen(i).due = queue[i].due /\ seen(i).prompt
             /\ seen(i).runningto <=> queue[i].runningto \/ (to /\ i = 1)
  <2>1. queue[i] \in Event
    BY <1>1
  <2> QED
    BY <2>1 DEF Event
<1>3. r = [i \in 1 .. Len(queue) |-> seen(i)]
  BY <1>1, Zenon DEF SeenQueue
<1> HIDE DEF seen
<1>4. r \in Seq(Event) /\ Len(r) = Len(queue)
  BY <1>1, <1>2, <1>3
<1>5. \A i \in 1 .. Len(queue) :
        /\ r[i].due = queue[i].due /\ r[i].prompt
        /\ r[i].runningto <=> queue[i].runningto \/ (to /\ i = 1)
  BY <1>2, <1>3
<1> HIDE DEF r
<1>6. QueueOK(r)
  <2>1. Sorted(r)
    BY <1>1, <1>4, <1>5 DEF Sorted, QueueOK
  <2> QED
    BY <1>1, <1>4, <1>5, <2>1 DEF QueueOK
<1>7. \A x \in Int : AllDue(queue, x) => AllDue(r, x) /\ PromptDue(r, x)
  BY <1>1, <1>4, <1>5 DEF AllDue, PromptDue
<1> QED
  BY <1>4, <1>6, <1>7 DEF r

LEMMA SeenNoneOK ==
    ASSUME QueueOK(queue)
    PROVE  LET r == SeenQueue(FALSE)
           IN  /\ QueueOK(r) /\ Len(r) = Len(queue)
               /\ \A x \in Int : AllDue(queue, x) => AllDue(r, x) /\ PromptDue(r, x)
<1> DEFINE to == FALSE
<1>1. to \in BOOLEAN
  BY Zenon
<1>2. LET r == SeenQueue(to)
      IN  /\ QueueOK(r) /\ Len(r) = Len(queue)
          /\ \A x \in Int : AllDue(queue, x) => AllDue(r, x) /\ PromptDue(r, x)
  <2> HIDE DEF to
  <2> QED
    BY <1>1, SeenOK
<1> QED
  BY <1>2, Zenon

LEMMA TailOK ==
    ASSUME NEW q, QueueOK(q), q # <<>>
    PROVE  /\ QueueOK(Tail(q)) /\ Len(Tail(q)) = Len(q) - 1
           /\ \A x \in Int : AllDue(q, x) => AllDue(Tail(q), x)
           /\ \A x \in Int : PromptDue(q, x) => PromptDue(Tail(q), x)
<1> DEFINE r == Tail(q)
<1>1. q \in Seq(Event) /\ Len(q) \in Nat
  BY DEF QueueOK
<1>2. r \in Seq(Event) /\ Len(r) = Len(q) - 1 /\ Len(q) > 0
  BY <1>1
<1>3. \A i \in 1 .. Len(r) : i + 1 \in 1 .. Len(q) /\ r[i] = q[i + 1]
  BY <1>1
<1> HIDE DEF r
<1>4. QueueOK(r)
  <2>1. Sorted(r)
    BY <1>1, <1>2, <1>3 DEF Sorted, QueueOK
  <2> QED
    BY <1>1, <1>2, <1>3, <2>1 DEF QueueOK
<1>5. \A x \in Int : AllDue(q, x) => AllDue(r, x)
  BY <1>1, <1>2, <1>3 DEF AllDue
<1>6. \A x \in Int : PromptDue(q, x) => PromptDue(r, x)
  BY <1>1, <1>2, <1>3 DEF PromptDue
<1> QED
  BY <1>2, <1>4, <1>5, <1>6 DEF r

(* A handler, whatever it does, keeps the bounds up to the current time.   *)
LEMMA HandlerEffect ==
    ASSUME NEW q, QueueOK(q), NEW inuse \in Nat, Len(q) + inuse <= MAXACTIONS,
           clock_vnow \in Int, ScalarInv, Handler(q, inuse)
    PROVE  /\ QueueOK(queue') /\ Len(queue') <= MAXACTIONS
           /\ phase' \in {phase, "smoke"}
           /\ cpu_cycling' \in BOOLEAN /\ running' \in BOOLEAN
           /\ stopped_in_debugger' \in BOOLEAN /\ shutoff_flag' \in BOOLEAN
           /\ \A x \in Int : AllDue(q, x) /\ x <= clock_vnow => AllDue(queue', x)
           /\ \A x \in Int : PromptDue(q, x) /\ x <= clock_vnow => PromptDue(queue', x)
           /\ \A x \in Int : PromptDue(q, x) /\ ~Noticed(q) => PromptDue(queue', x)
<1>1. Len(q) \in Nat /\ Len(q) <= MAXACTIONS
  <2>1. Len(q) \in Nat
    BY DEF QueueOK
  <2> QED
    BY <2>1, ClockAssumption
<1>2. CASE schedule_event(q, inuse) /\ UNCHANGED <<running, flags>>
  <2>1. \/ phase' = "smoke" /\ queue' = q /\ cpu_cycling' = cpu_cycling
        \/ Len(q) + inuse < MAXACTIONS /\ Scheduled(q)
    BY <1>2, ScheduleEffect DEF ScalarInv
  <2>2. CASE phase' = "smoke" /\ queue' = q /\ cpu_cycling' = cpu_cycling
    BY <1>1, <1>2, <2>2 DEF ScalarInv, flags
  <2>3. CASE Len(q) + inuse < MAXACTIONS /\ Scheduled(q)
    <3>1. Len(queue') <= MAXACTIONS
      BY <1>1, <2>3, ClockAssumption DEF Scheduled
    <3> QED
      BY <1>2, <2>3, <3>1 DEF ScalarInv, flags, Scheduled
  <2> QED
    BY <2>1, <2>2, <2>3
<1>3. CASE queue' = q /\ UNCHANGED <<phase, cpu_cycling>>
           /\ running' \in BOOLEAN /\ stopped_in_debugger' \in BOOLEAN
           /\ shutoff_flag' \in BOOLEAN
  BY <1>1, <1>3 DEF ScalarInv
<1> QED
  BY <1>2, <1>3 DEF Handler, ScalarInv, flags

LEMMA RotorTime ==
    /\ NSECS_PER_CLOCK * ROTOR \in Nat
    /\ -(NSECS_PER_CLOCK * ROTOR) \in Int /\ -(NSECS_PER_CLOCK * ROTOR) <= 0
<1>1. NSECS_PER_CLOCK \in Nat /\ ROTOR \in Nat
  BY ClockAssumption
<1>2. NSECS_PER_CLOCK * ROTOR \in Nat
  BY <1>1, MulMono
<1> QED
  BY <1>2

LEMMA VnowBound ==
    ASSUME ScalarInv
    PROVE  /\ NSECS_PER_CLOCK * cpu_cycles_count \in Nat
           /\ clock_vnow \in Nat
           /\ clock_vnow = NSECS_PER_CLOCK * cpu_cycles_count + extra_selecttime
           /\ cpu_cycles_count = 0 => NSECS_PER_CLOCK * cpu_cycles_count = 0
<1>1. cpu_cycles_count \in Nat /\ NSECS_PER_CLOCK \in Nat /\ extra_selecttime \in Nat
  BY ClockAssumption DEF ScalarInv
<1>2. NSECS_PER_CLOCK * cpu_cycles_count \in Nat
  BY <1>1, MulMono
<1>3. cpu_cycles_count = 0 => NSECS_PER_CLOCK * cpu_cycles_count = 0
  BY <1>1, MulSucc
<1> QED
  BY <1>1, <1>2, <1>3 DEF clock_vnow

LEMMA ClockInit == Init => ClockInv
<1> SUFFICES ASSUME Init PROVE ClockInv
  OBVIOUS
<1>1. QueueOK(queue) /\ Len(queue) = 0
  <2>1. queue = <<>> /\ <<>> \in Seq(Event) /\ Len(<<>>) = 0
    BY DEF Init
  <2> QED
    BY <2>1 DEF QueueOK, Sorted
<1>2. \A x : AllDue(queue, x) /\ PromptDue(queue, x)
  BY <1>1 DEF AllDue, PromptDue
<1>3. ScalarInv
  <2>1. /\ cpu_cycling \in BOOLEAN /\ running \in BOOLEAN /\ jump \in BOOLEAN
        /\ stopped_in_debugger \in BOOLEAN /\ shutoff_flag \in BOOLEAN
    BY Zenon DEF Init
  <2>2. /\ cpu_cycles_count = 0 /\ goticks = 0 /\ rotor = ROTOR
        /\ extra_selecttime = 0 /\ sleptnsecs = 0 /\ idleslop = 0 /\ vnow = 0
        /\ phase = "top" /\ caller = "runloop" /\ selector = "runloop"
        /\ stepped = 0 /\ ~jump
    BY DEF Init
  <2> QED
    BY <2>1, <2>2, ClockAssumption DEF ScalarInv
<1> QED
  BY <1>1, <1>2, <1>3, ClockAssumption 
     DEF ClockInv, Init, RunInv, OverdueInv, PromptInv, IdleInv

LEMMA StepNat ==
    ASSUME NEW t \in 0 .. MaxSteps
    PROVE  NSECS_PER_CLOCK * t \in Nat /\ (t = 0 => NSECS_PER_CLOCK * t = 0)
<1>1. NSECS_PER_CLOCK \in Nat /\ t \in Nat
  BY ClockAssumption
<1> QED
  BY <1>1, MulMono, MulSucc

(* Outside a run, a queue in which nothing is overdue is prompt enough.    *)
LEMMA PromptFloor ==
    ASSUME NEW q, QueueOK(q), NEW x \in Nat, PromptDue(q, x),
           NEW c, c = 0, NEW t \in 0 .. MaxSteps
    PROVE  PromptDue(q, NSECS_PER_CLOCK * c - NSECS_PER_CLOCK - NSECS_PER_CLOCK * t)
<1> DEFINE n == NSECS_PER_CLOCK
           nt == n * t
<1>1. n \in Nat /\ n * c = 0 /\ nt \in Nat
  BY StepNat, ClockAssumption
<1> HIDE DEF nt, n
<1>2. n * c - n - nt \in Int /\ n * c - n - nt <= x
  BY <1>1
<1>3. PromptDue(q, n * c - n - nt)
  BY <1>2, DueWeaken
<1> QED
  BY <1>3 DEF n, nt

(* The steps that leave the queue alone, with nothing overdue, and do not  *)
(* enter a run or a handler of the idle loop.                              *)
LEMMA QuietStep ==
    ASSUME ClockInv, ScalarInv', UNCHANGED queue, cpu_cycles_count' = 0,
           phase' # "run", AllDue(queue, 0), selector' # "waitirq"
    PROVE  ClockInv'
<1>1. QueueOK(queue') /\ Len(queue') <= MAXACTIONS
  BY DEF ClockInv
<1>2. -(NSECS_PER_CLOCK * ROTOR) \in Int /\ -(NSECS_PER_CLOCK * ROTOR) <= 0
  BY RotorTime
<1>3. AllDue(queue, -(NSECS_PER_CLOCK * ROTOR)) /\ PromptDue(queue', 0)
  BY <1>2, DueWeaken DEF ClockInv
<1>4. OverdueInv'
  BY <1>3 DEF OverdueInv
<1>5. PromptInv'
  <2>1. stepped' \in 0 .. MaxSteps
    BY DEF ScalarInv
  <2>2. PromptDue(queue', NSECS_PER_CLOCK * cpu_cycles_count' - NSECS_PER_CLOCK
                             - NSECS_PER_CLOCK * stepped')
    BY <1>1, <1>3, <2>1, PromptFloor
  <2> QED
    BY <2>2 DEF PromptInv, StepTime
<1> QED
  BY <1>1, <1>4, <1>5 DEF ClockInv, RunInv, IdleInv

(* What runloop() grants: at least one cycle, no more than is left before  *)
(* the poll, and the last of them begins before any event is due.          *)
LEMMA BudgetOK ==
    ASSUME ClockInv, phase = "top", Budget # 0
    PROVE  /\ Budget \in 1 .. MAXRUN /\ Budget <= rotor
           /\ AllDue(queue, NSECS_PER_CLOCK * Budget - NSECS_PER_CLOCK)
<1> DEFINE n == NSECS_PER_CLOCK
           k == clock_getrunticks
<1>1. /\ n \in Nat \ {0} /\ MAXRUN \in Nat \ {0} /\ rotor \in Nat /\ rotor # 0
      /\ QueueOK(queue) /\ queue \in Seq(Event)
  BY ClockAssumption DEF ClockInv, ScalarInv, QueueOK
<1>2. queue # <<>> => queue[1] \in Event /\ queue[1].due \in Int
  <2>1. queue # <<>> => queue[1] \in Event
    BY <1>1
  <2> QED
    BY <2>1 DEF Event
<1>3. k # 0 => /\ k \in 1 .. MAXRUN
               /\ AllDue(queue, n * k - n)
  <2>1. CASE RunsToHead
    <3>1. k = (queue[1].due + n - 1) \div n
      BY <2>1 DEF clock_getrunticks, Ticks
    <3>2. /\ queue # <<>> /\ queue[1].due \in Nat \ {0} /\ queue[1].due < MAXRUN * n
      BY <1>2, <2>1 DEF RunsToHead
    <3> HIDE DEF k, n
    <3>3. k \in Nat /\ k >= 1 /\ k <= MAXRUN /\ n * k - n < queue[1].due
      BY <1>1, <3>1, <3>2, TicksBound
    <3>4. n * k - n \in Int
      BY <1>1, <3>3
    <3>5. AllDue(queue, n * k - n)
      BY <1>1, <3>2, <3>3, <3>4, HeadDue
    <3> QED
      BY <3>3, <3>5, <1>1
  <2>2. CASE ~RunsToHead /\ queue # <<>> /\ queue[1].due <= 0
    BY <2>2 DEF clock_getrunticks
  <2>3. CASE ~RunsToHead /\ ~(queue # <<>> /\ queue[1].due <= 0)
    <3>1. k = MAXRUN
      BY <2>3 DEF clock_getrunticks
    <3>2. queue # <<>> => queue[1].due >= MAXRUN * n
      BY <1>1, <1>2, <2>3 DEF RunsToHead
    <3> HIDE DEF k, n
    <3>3. n * k - n \in Int /\ n * k - n <= MAXRUN * n /\ MAXRUN * n \in Int
      BY <1>1, <3>1
    <3>4. queue # <<>> => queue[1].due >= n * k - n
      BY <1>2, <3>2, <3>3
    <3>5. AllDue(queue, n * k - n)
      BY <1>1, <3>3, <3>4, HeadDue
    <3> QED
      BY <1>1, <3>1, <3>5
  <2> QED
    BY <2>1, <2>2, <2>3
<1>4. k \in Int
  <2>1. CASE k = 0
    BY <2>1
  <2>2. CASE k # 0
    BY <1>3, <2>2
  <2> QED
    BY <2>1, <2>2
<1>5. Budget = IF k > rotor THEN rotor ELSE k
  BY DEF Budget
<1> HIDE DEF k, n
<1>6. k # 0
  BY <1>1, <1>4, <1>5
<1>7. Budget \in 1 .. MAXRUN /\ Budget <= rotor /\ Budget <= k
  BY <1>1, <1>3, <1>4, <1>5, <1>6
<1>8. n * Budget - n \in Int /\ n * k - n \in Int /\ n * Budget - n <= n * k - n
  <2>1. n \in Nat /\ Budget \in Nat /\ k \in Nat
    BY <1>1, <1>3, <1>6, <1>7
  <2>2. n * Budget \in Nat /\ n * k \in Nat /\ n * Budget <= n * k
    BY <1>7, <2>1, MulMono
  <2> QED
    BY <2>1, <2>2
<1>9. AllDue(queue, n * Budget - n)
  BY <1>1, <1>3, <1>6, <1>8, DueWeaken
<1> QED
  BY <1>7, <1>9 DEF n

LEMMA StartRunStep == ClockInv /\ StartRun => ClockInv'
<1> SUFFICES ASSUME ClockInv, StartRun PROVE ClockInv'
  OBVIOUS
<1>1. /\ phase = "top" /\ QueueOK(queue) /\ AllDue(queue, 0) /\ Len(queue) <= MAXACTIONS
      /\ caller' = "runloop" /\ cpu_cycles_count = 0 /\ cpu_cycles_count' = 0
      /\ selector # "waitirq" /\ selector' = selector
  BY DEF ClockInv, StartRun, ScalarInv, OverdueInv
<1>2. NSECS_PER_CLOCK \in Nat /\ NSECS_PER_CLOCK * 0 = 0
  BY ClockAssumption, MulSucc
<1>3. -(NSECS_PER_CLOCK * ROTOR) \in Int /\ -(NSECS_PER_CLOCK * ROTOR) <= 0
  BY RotorTime
<1>4. CASE Budget = 0
  <2>1. /\ queue' = SeenQueue(FALSE) /\ vnow' = 0 /\ phase' = "queue"
        /\ goticks' = goticks /\ cpu_cycling' = cpu_cycling
    BY <1>4 DEF StartRun
  <2>2. QueueOK(queue') /\ Len(queue') = Len(queue) /\ AllDue(queue', 0)
    <3>1. /\ QueueOK(queue') /\ Len(queue') = Len(queue)
          /\ \A x \in Int : AllDue(queue, x) => AllDue(queue', x) /\ PromptDue(queue', x)
      BY <1>1, <2>1, SeenNoneOK, Zenon
    <3> QED
      BY <1>1, <3>1
  <2>3. ScalarInv'
    BY <1>1, <2>1 DEF ClockInv, ScalarInv, StartRun, idlevars, flags
  <2>4. AllDue(queue', -(NSECS_PER_CLOCK * ROTOR))
    BY <1>3, <2>2, DueWeaken
  <2>5. PromptDue(queue', NSECS_PER_CLOCK * cpu_cycles_count' - NSECS_PER_CLOCK
                             - NSECS_PER_CLOCK * stepped')
    <3>1. stepped' \in 0 .. MaxSteps /\ PromptDue(queue', 0)
      BY <2>2, <2>3, DueWeaken DEF ScalarInv
    <3> QED
      BY <1>1, <2>2, <3>1, PromptFloor
  <2> QED
    BY <1>1, <2>1, <2>2, <2>3, <2>4, <2>5
       DEF ClockInv, RunInv, OverdueInv, PromptInv, IdleInv, StepTime
<1>5. CASE Budget # 0
  <2>1. /\ cpu_cycling' = TRUE /\ queue' = SeenQueue(RunsToHead) /\ phase' = "run"
        /\ goticks' = Budget /\ vnow' = vnow
    BY <1>5 DEF StartRun
  <2>2. /\ Budget \in 1 .. MAXRUN /\ Budget <= rotor
        /\ AllDue(queue, NSECS_PER_CLOCK * Budget - NSECS_PER_CLOCK)
    BY <1>1, <1>5, BudgetOK
  <2>3. NSECS_PER_CLOCK * Budget - NSECS_PER_CLOCK \in Int
    BY <1>2, <2>2
  <2>4. RunsToHead \in BOOLEAN
    BY DEF RunsToHead
  <2>5. /\ QueueOK(queue') /\ Len(queue') = Len(queue) /\ AllDue(queue', 0)
        /\ PromptDue(queue', 0)
        /\ PromptDue(queue', NSECS_PER_CLOCK * Budget - NSECS_PER_CLOCK)
    BY <1>1, <2>1, <2>2, <2>3, <2>4, SeenOK
  <2>6. ScalarInv'
    <3>1. cpu_cycling' \in BOOLEAN
      BY <2>1, Zenon
    <3> QED
      BY <1>1, <2>1, <2>2, <3>1, ClockAssumption
         DEF ClockInv, ScalarInv, StartRun, idlevars, flags
  <2>7. RunInv'
    BY <1>1, <2>1, <2>2 DEF RunInv, ClockInv, ScalarInv, StartRun
  <2>8. PromptInv'
    <3>1. NSECS_PER_CLOCK * cpu_cycles_count' = 0 /\ stepped' \in 0 .. MaxSteps
      BY <1>1, <1>2, <2>6 DEF ScalarInv
    <3>2. PromptDue(queue', NSECS_PER_CLOCK * cpu_cycles_count' - NSECS_PER_CLOCK
                               - NSECS_PER_CLOCK * stepped')
      BY <1>1, <2>5, <3>1, PromptFloor
    <3> QED
      BY <1>1, <2>1, <2>5, <3>1, <3>2 DEF PromptInv, StepTime
  <2> QED
    BY <1>1, <2>1, <2>5, <2>6, <2>7, <2>8 DEF ClockInv, OverdueInv, IdleInv
<1> QED
  BY <1>4, <1>5

LEMMA InstructionStep == ClockInv /\ Instruction => ClockInv'
<1> SUFFICES ASSUME ClockInv, Instruction PROVE ClockInv'
  OBVIOUS
<1> DEFINE now == NSECS_PER_CLOCK * cpu_cycles_count
           last == NSECS_PER_CLOCK * goticks - NSECS_PER_CLOCK
           floor == sleptnsecs - StepTime + NSECS_PER_CLOCK
<1>1. /\ phase = "run" /\ QueueOK(queue) /\ Len(queue) <= MAXACTIONS /\ ScalarInv
      /\ UNCHANGED <<cpu_cycles_count, goticks, rotor, extra_selecttime, vnow, caller,
                     selector, sleptnsecs, jump, stepped, idleslop>>
      /\ AllDue(queue, 0) /\ PromptDue(queue, now)
      /\ cpu_cycling => PromptDue(queue, last)
      /\ jump => PromptDue(queue, floor)
      /\ selector = "waitirq" /\ ~jump => extra_selecttime >= sleptnsecs
  BY DEF ClockInv, Instruction, ScalarInv, OverdueInv, PromptInv, IdleInv, JumpFloor,
         idlevars
<1>2. /\ now \in Nat /\ clock_vnow \in Nat /\ now <= clock_vnow
      /\ last \in Int /\ floor \in Int /\ StepTime \in Nat /\ NSECS_PER_CLOCK \in Nat
  <2>1. /\ now \in Nat /\ clock_vnow = now + extra_selecttime
        /\ NSECS_PER_CLOCK \in Nat /\ extra_selecttime \in Nat /\ goticks \in Nat
    BY <1>1, VnowBound, ClockAssumption DEF ScalarInv
  <2>2. NSECS_PER_CLOCK * goticks \in Nat
    BY <2>1, MulMono
  <2>3. StepTime \in Nat /\ sleptnsecs \in Nat
    BY <1>1, StepNat DEF ScalarInv, StepTime
  <2> HIDE DEF now
  <2> QED
    BY <2>1, <2>2, <2>3
<1>3. /\ QueueOK(queue') /\ Len(queue') <= MAXACTIONS
      /\ phase' \in {"run", "smoke"}
      /\ cpu_cycling' \in BOOLEAN /\ running' \in BOOLEAN
      /\ stopped_in_debugger' \in BOOLEAN /\ shutoff_flag' \in BOOLEAN
      /\ phase' = "run" => AllDue(queue', 0)
      /\ PromptDue(queue', now)
      /\ phase' = "run" /\ cpu_cycling' => PromptDue(queue', last)
      /\ jump => PromptDue(queue', floor)
  <2> HIDE DEF now, last, floor
  <2>1. CASE schedule_event(queue, 0) /\ UNCHANGED <<running, flags>>
    <3>1. \/ phase' = "smoke" /\ queue' = queue /\ cpu_cycling' = cpu_cycling
          \/ Len(queue) + 0 < MAXACTIONS /\ Scheduled(queue)
      BY <1>1, <1>2, <2>1, ScheduleEffect DEF ScalarInv
    <3>2. CASE phase' = "smoke" /\ queue' = queue /\ cpu_cycling' = cpu_cycling
      BY <1>1, <2>1, <3>2 DEF ScalarInv, flags
    <3>3. CASE Len(queue) + 0 < MAXACTIONS /\ Scheduled(queue)
      <4>1. Len(queue) \in Nat
        BY <1>1 DEF QueueOK
      <4>2. Len(queue') <= MAXACTIONS
        BY <3>3, <4>1, ClockAssumption DEF Scheduled
      <4>3. AllDue(queue', 0) /\ PromptDue(queue', now)
        BY <1>1, <1>2, <3>3 DEF Scheduled
      <4>4. cpu_cycling' => PromptDue(queue', last)
        BY <1>1, <1>2, <3>3 DEF Scheduled
      <4>5. jump => PromptDue(queue', floor)
        <5>1. jump => ~Noticed(queue)
          BY DEF Noticed
        <5> QED
          BY <1>1, <1>2, <3>3, <5>1 DEF Scheduled
      <4> QED
        BY <1>1, <2>1, <3>3, <4>2, <4>3, <4>4, <4>5 DEF Scheduled, ScalarInv, flags
    <3> QED
      BY <3>1, <3>2, <3>3
  <2>2. CASE running' = FALSE /\ UNCHANGED <<queue, phase, cpu_cycling, flags>>
    <3>1. running' \in BOOLEAN
      BY <2>2, Zenon
    <3> QED
      BY <1>1, <2>2, <3>1 DEF ScalarInv, flags
  <2>3. CASE /\ stopped_in_debugger' = TRUE /\ cpu_cycling' = FALSE
             /\ UNCHANGED <<queue, phase, running, shutoff_flag>>
    <3>1. /\ stopped_in_debugger' \in BOOLEAN /\ cpu_cycling' \in BOOLEAN
          /\ ~cpu_cycling'
      BY <2>3, Zenon
    <3> QED
      BY <1>1, <2>3, <3>1 DEF ScalarInv
  <2> QED
    BY <2>1, <2>2, <2>3 DEF Instruction
<1>4. ScalarInv'
  BY <1>1, <1>3 DEF ScalarInv
<1>5. RunInv'
  BY <1>1, <1>3 DEF ClockInv, RunInv
<1>6. OverdueInv'
  BY <1>1, <1>3 DEF OverdueInv
<1>7. PromptInv'
  <2>1. PromptDue(queue', now - NSECS_PER_CLOCK - StepTime)
    <3> HIDE DEF now
    <3>1. /\ now - NSECS_PER_CLOCK - StepTime \in Int
          /\ now - NSECS_PER_CLOCK - StepTime <= now
      BY <1>2
    <3> QED
      BY <1>2, <1>3, <3>1, DueWeaken
  <2>2. StepTime' = StepTime
    BY <1>1 DEF StepTime
  <2> QED
    BY <1>1, <1>3, <2>1, <2>2 DEF PromptInv
<1>8. IdleInv'
  <2>1. phase' = "run" => JumpFloor' = floor
    BY <1>1 DEF JumpFloor, StepTime
  <2> QED
    BY <1>1, <1>3, <2>1 DEF IdleInv
<1> QED
  BY <1>3, <1>4, <1>5, <1>6, <1>7, <1>8 DEF ClockInv

(* The end of a cycle, when the run goes on.                               *)
LEMMA CycleOnStep ==
    ASSUME ClockInv, CycleEnd, UNCHANGED <<queue, goticks, cpu_cycling, vnow, rotor, phase>>,
           cpu_cycles_count' = cpu_cycles_count + 1, cpu_cycles_count + 1 < goticks,
           cpu_cycling
    PROVE  ClockInv'
<1> DEFINE n == NSECS_PER_CLOCK
           c == cpu_cycles_count
<1>1. /\ phase = "run" /\ QueueOK(queue) /\ Len(queue) <= MAXACTIONS /\ ScalarInv
      /\ UNCHANGED <<running, extra_selecttime, sleptnsecs, jump, stepped, idleslop, caller,
                     selector, stopped_in_debugger, shutoff_flag>>
      /\ AllDue(queue, 0) /\ PromptDue(queue, n * goticks - n)
  BY DEF ClockInv, CycleEnd, ScalarInv, OverdueInv, PromptInv, idlevars, flags
<1>2. /\ n \in Nat /\ c \in Nat /\ goticks \in Nat /\ StepTime \in Nat
      /\ selector # "waitirq"
  <2>1. n \in Nat /\ c \in Nat /\ goticks \in Nat /\ StepTime \in Nat
    BY <1>1, StepNat, ClockAssumption DEF ScalarInv, StepTime
  <2>2. caller # "onecycle"
    BY <1>1, <2>1 DEF ClockInv, RunInv
  <2> QED
    BY <1>1, <2>1, <2>2 DEF ScalarInv
<1>3. /\ n * (c + 1) \in Int /\ n * (c + 1) - n - StepTime \in Int
      /\ n * goticks - n \in Int /\ n * (c + 1) <= n * goticks - n
      /\ n * (c + 1) - n - StepTime <= n * goticks - n
  <2>1. c + 1 \in Nat /\ goticks - 1 \in Nat /\ c + 1 <= goticks - 1
    BY <1>2
  <2>2. n * (c + 1) \in Nat /\ n * (c + 1) <= n * (goticks - 1)
    BY <1>2, <2>1, MulMono
  <2>3. n * (goticks - 1) = n * goticks - n /\ n * goticks \in Int
    BY <1>2
  <2> QED
    BY <1>2, <2>2, <2>3
<1>4. PromptDue(queue, n * (c + 1)) /\ PromptDue(queue, n * (c + 1) - n - StepTime)
  BY <1>1, <1>3, DueWeaken
<1>5. ScalarInv'
  BY <1>1, <1>2 DEF ScalarInv
<1>6. RunInv'
  BY <1>1, <1>2 DEF ClockInv, RunInv
<1>7. OverdueInv'
  BY <1>1 DEF OverdueInv
<1>8. PromptInv'
  <2>1. StepTime' = StepTime
    BY <1>1 DEF StepTime
  <2> QED
    BY <1>1, <1>4, <2>1 DEF PromptInv
<1> QED
  BY <1>1, <1>2, <1>5, <1>6, <1>7, <1>8 DEF ClockInv, IdleInv

(* The end of the run: i cycles are billed.                                *)
LEMMA RunEndStep ==
    ASSUME ClockInv, CycleEnd, NEW i \in Nat, clock_ticks(queue, i),
           \/ i \in {cpu_cycles_count, cpu_cycles_count + 1}
           \/ i = goticks /\ cpu_cycling
    PROVE  ClockInv'
<1> DEFINE n == NSECS_PER_CLOCK
           c == cpu_cycles_count
           floor == sleptnsecs - StepTime
<1>1. /\ phase = "run" /\ QueueOK(queue) /\ Len(queue) <= MAXACTIONS /\ ScalarInv
      /\ UNCHANGED <<running, extra_selecttime, sleptnsecs, jump, stepped, idleslop, caller,
                     selector, stopped_in_debugger, shutoff_flag>>
      /\ AllDue(queue, 0) /\ PromptDue(queue, n * c)
      /\ cpu_cycling => PromptDue(queue, n * goticks - n)
      /\ rotor # 0 /\ stepped \in 0 .. MaxSteps
      /\ jump => PromptDue(queue, floor + n)
      /\ selector = "waitirq" /\ ~jump => extra_selecttime >= sleptnsecs
      /\ selector = "waitirq" => caller = "onecycle"
      /\ jump => selector = "waitirq"
      /\ c < goticks
      /\ \/ caller = "onecycle" /\ goticks = 1
         \/ caller = "runloop" /\ goticks <= rotor
  BY DEF ClockInv, CycleEnd, ScalarInv, RunInv, OverdueInv, PromptInv, IdleInv, JumpFloor,
         idlevars, flags
<1>2. /\ queue' = clock_vadvance(queue, i * n) /\ cpu_cycles_count' = 0 /\ goticks' = 0
      /\ cpu_cycling' \in BOOLEAN /\ vnow' = extra_selecttime /\ phase' = "queue"
      /\ rotor' = IF caller = "onecycle" THEN rotor ELSE rotor - i
  BY DEF clock_ticks
<1>3. /\ n \in Nat \ {0} /\ c \in Nat /\ goticks \in Nat /\ rotor \in 0 .. ROTOR
      /\ ROTOR \in Nat \ {0} /\ MAXRUN \in Nat
  BY <1>1, ClockAssumption DEF ScalarInv
<1>4. i <= goticks /\ i <= ROTOR
  BY <1>1, <1>3
<1>5. /\ n * i \in Nat /\ i * n = n * i /\ n * i <= n * ROTOR /\ n * ROTOR \in Nat
      /\ n * goticks \in Nat /\ n * c \in Nat
  BY <1>3, <1>4, MulMono
<1>6. PromptDue(queue, n * i - n)
  <2>1. CASE i \in {c, c + 1}
    <3>1. n * i - n <= n * c
      BY <1>3, <1>5, <2>1
    <3> QED
      BY <1>1, <1>3, <1>5, <3>1, DueWeaken
  <2>2. CASE i = goticks /\ cpu_cycling
    BY <1>1, <2>2
  <2> QED
    BY <2>1, <2>2
<1>7. /\ QueueOK(queue') /\ Len(queue') = Len(queue)
      /\ \A x \in Int : AllDue(queue, x + n * i) => AllDue(queue', x)
      /\ \A x \in Int : PromptDue(queue, x + n * i) => PromptDue(queue', x)
  <2>1. queue' = clock_vadvance(queue, n * i) /\ n * i \in Int
    BY <1>2, <1>5
  <2> HIDE DEF n
  <2> QED
    BY <1>1, <2>1, AdvanceOK
<1>8. AllDue(queue', -(n * ROTOR))
  <2>1. -(n * ROTOR) \in Int /\ -(n * ROTOR) + n * i \in Int /\ -(n * ROTOR) + n * i <= 0
    BY <1>5
  <2>2. AllDue(queue, -(n * ROTOR) + n * i)
    BY <1>1, <2>1, DueWeaken
  <2> QED
    BY <1>7, <2>1, <2>2
<1>9. PromptDue(queue', n * cpu_cycles_count' - n - StepTime')
  <2>1. /\ n * cpu_cycles_count' = 0 /\ -n \in Int /\ -n + n * i = n * i - n
        /\ StepTime' \in Nat /\ n * cpu_cycles_count' - n - StepTime' \in Int
        /\ n * cpu_cycles_count' - n - StepTime' <= -n
    <3>1. n * cpu_cycles_count' = 0 /\ StepTime' \in Nat
      BY <1>1, <1>2, <1>3, StepNat DEF StepTime
    <3> QED
      BY <1>3, <1>5, <3>1
  <2> HIDE DEF n
  <2>2. PromptDue(queue', -n)
    BY <1>6, <1>7, <2>1
  <2> QED
    BY <1>7, <2>1, <2>2, <1>3, DueWeaken
<1>10. ScalarInv'
  <2>1. rotor' \in 0 .. ROTOR /\ (rotor' = 0 => caller' = "runloop")
    BY <1>1, <1>2, <1>3, <1>4
  <2> QED
    BY <1>1, <1>2, <1>3, <2>1 DEF ScalarInv
<1>11. IdleInv'
  <2>1. ASSUME jump PROVE PromptDue(queue', floor)
    <3>1. n * i <= n
      BY <1>1, <1>3, <1>4, <1>5, <2>1
    <3>2. floor \in Int /\ floor + n * i \in Int /\ floor + n * i <= floor + n
      BY <1>1, <1>3, <1>5, <3>1, StepNat DEF ScalarInv, StepTime
    <3> HIDE DEF floor, n
    <3>3. PromptDue(queue, floor + n * i)
      BY <1>1, <1>3, <2>1, <3>2, DueWeaken
    <3> QED
      BY <1>7, <3>2, <3>3
  <2>2. JumpFloor' = floor
    <3>1. floor \in Int
      BY <1>1, StepNat DEF ScalarInv, StepTime
    <3> QED
      BY <1>1, <1>2, <3>1 DEF JumpFloor, StepTime
  <2> QED
    BY <1>1, <1>2, <2>1, <2>2 DEF IdleInv
<1> QED
  BY <1>1, <1>2, <1>7, <1>8, <1>9, <1>10, <1>11 DEF ClockInv, RunInv, OverdueInv, PromptInv

LEMMA CycleEndStep == ClockInv /\ CycleEnd => ClockInv'
<1> SUFFICES ASSUME ClockInv, CycleEnd PROVE ClockInv'
  OBVIOUS
<1>1. /\ cpu_cycles_count \in Nat /\ goticks \in Nat /\ cpu_cycling \in BOOLEAN
      /\ running \in BOOLEAN
  BY ClockAssumption DEF ClockInv, ScalarInv
<1>2. PICK billed \in {0, 1} :
        LET i == IF ~running /\ cpu_cycling THEN goticks ELSE cpu_cycles_count + billed
        IN  /\ billed = 0 => stopped_in_debugger /\ ~cpu_cycling
            /\ IF i < goticks /\ cpu_cycling
                 THEN /\ cpu_cycles_count' = i
                      /\ UNCHANGED <<queue, goticks, cpu_cycling, vnow, rotor, phase>>
                 ELSE clock_ticks(queue, i)
  BY Zenon DEF CycleEnd
<1> DEFINE i == IF ~running /\ cpu_cycling THEN goticks ELSE cpu_cycles_count + billed
<1>3. /\ i \in Nat
      /\ \/ i \in {cpu_cycles_count, cpu_cycles_count + 1}
         \/ i = goticks /\ cpu_cycling
      /\ i < goticks /\ cpu_cycling => i = cpu_cycles_count + 1
  BY <1>1, <1>2
<1>4. IF i < goticks /\ cpu_cycling
        THEN /\ cpu_cycles_count' = i
             /\ UNCHANGED <<queue, goticks, cpu_cycling, vnow, rotor, phase>>
        ELSE clock_ticks(queue, i)
  BY <1>2
<1> HIDE DEF i
<1>5. CASE i < goticks /\ cpu_cycling
  <2>1. /\ cpu_cycles_count' = cpu_cycles_count + 1 /\ cpu_cycles_count + 1 < goticks
        /\ UNCHANGED <<queue, goticks, cpu_cycling, vnow, rotor, phase>>
    BY <1>3, <1>4, <1>5
  <2> QED
    BY <1>5, <2>1, CycleOnStep
<1>6. CASE ~(i < goticks /\ cpu_cycling)
  <2>1. clock_ticks(queue, i)
    BY <1>4, <1>6
  <2> QED
    BY <1>3, <2>1, RunEndStep
<1> QED
  BY <1>5, <1>6

LEMMA DispatchStep == ClockInv /\ Dispatch => ClockInv'
<1> SUFFICES ASSUME ClockInv, Dispatch PROVE ClockInv'
  OBVIOUS
<1> DEFINE n == NSECS_PER_CLOCK
           q == Tail(queue)
           late == n * cpu_cycles_count - n - StepTime
<1>1. /\ phase = "queue" /\ QueueOK(queue) /\ Len(queue) <= MAXACTIONS /\ ScalarInv
      /\ queue # <<>> /\ Handler(q, 1)
      /\ cpu_cycles_count = 0
      /\ UNCHANGED <<cpu_cycles_count, goticks, rotor, extra_selecttime, vnow, caller,
                     selector, sleptnsecs, jump, stepped, idleslop>>
      /\ caller # "waitirq" => AllDue(queue, -(n * ROTOR))
      /\ PromptDue(queue, late)
      /\ jump => PromptDue(queue, JumpFloor)
      /\ selector = "waitirq" /\ ~jump => extra_selecttime >= sleptnsecs
  BY DEF ClockInv, Dispatch, Due, ScalarInv, OverdueInv, PromptInv, IdleInv, idlevars
<1>2. /\ QueueOK(q) /\ Len(q) = Len(queue) - 1
      /\ \A x \in Int : AllDue(queue, x) => AllDue(q, x)
      /\ \A x \in Int : PromptDue(queue, x) => PromptDue(q, x)
  BY <1>1, TailOK
<1> HIDE DEF q
<1>3. Len(q) + 1 <= MAXACTIONS
  <2>1. Len(queue) \in Nat
    BY <1>1 DEF QueueOK
  <2> QED
    BY <1>1, <1>2, <2>1, ClockAssumption
<1>4. /\ clock_vnow \in Nat /\ late \in Int /\ late <= clock_vnow
      /\ -(n * ROTOR) \in Int /\ -(n * ROTOR) <= clock_vnow
      /\ JumpFloor \in Int
  <2>1. /\ n \in Nat /\ n * cpu_cycles_count = 0 /\ clock_vnow \in Nat
        /\ StepTime \in Nat /\ sleptnsecs \in Nat
    BY <1>1, VnowBound, StepNat, ClockAssumption DEF ScalarInv, StepTime
  <2>2. -(n * ROTOR) \in Int /\ -(n * ROTOR) <= 0
    BY RotorTime
  <2>3. JumpFloor \in Int
    BY <2>1 DEF JumpFloor
  <2> HIDE DEF n
  <2> QED
    BY <2>1, <2>2, <2>3
<1>5. /\ QueueOK(queue') /\ Len(queue') <= MAXACTIONS
      /\ phase' \in {phase, "smoke"}
      /\ cpu_cycling' \in BOOLEAN /\ running' \in BOOLEAN
      /\ stopped_in_debugger' \in BOOLEAN /\ shutoff_flag' \in BOOLEAN
      /\ \A x \in Int : AllDue(q, x) /\ x <= clock_vnow => AllDue(queue', x)
      /\ \A x \in Int : PromptDue(q, x) /\ x <= clock_vnow
                           => PromptDue(queue', x)
      /\ \A x \in Int : PromptDue(q, x) /\ ~Noticed(q) => PromptDue(queue', x)
  BY <1>1, <1>2, <1>3, <1>4, HandlerEffect
<1> HIDE DEF n, late
<1>6. /\ caller # "waitirq" => AllDue(queue', -(n * ROTOR))
      /\ PromptDue(queue', late)
      /\ jump => PromptDue(queue', JumpFloor)
  <2>1. jump => ~Noticed(q)
    BY DEF Noticed
  <2> QED
    BY <1>1, <1>2, <1>4, <1>5, <2>1
<1>7. ScalarInv'
  BY <1>1, <1>5 DEF ScalarInv
<1>8. PromptInv' /\ IdleInv'
  <2>1. StepTime' = StepTime /\ (phase' = "queue" => JumpFloor' = JumpFloor)
    BY <1>1 DEF StepTime, JumpFloor
  <2>2. phase' \in {"queue", "smoke"}
    BY <1>1, <1>5
  <2> QED
    BY <1>1, <1>6, <2>1, <2>2 DEF PromptInv, IdleInv, late, n
<1> QED
  BY <1>1, <1>5, <1>6, <1>7, <1>8 DEF ClockInv, RunInv, OverdueInv, n

LEMMA InputHandlerStep == ClockInv /\ InputHandler => ClockInv'
<1> SUFFICES ASSUME ClockInv, InputHandler PROVE ClockInv'
  OBVIOUS
<1> DEFINE n == NSECS_PER_CLOCK
           late == n * cpu_cycles_count - n - StepTime
<1>1. /\ phase = "handlers" /\ QueueOK(queue) /\ Len(queue) <= MAXACTIONS /\ ScalarInv
      /\ Handler(queue, 0) /\ cpu_cycles_count = 0
      /\ UNCHANGED <<cpu_cycles_count, goticks, rotor, extra_selecttime, vnow, caller,
                     selector, sleptnsecs, jump, stepped, idleslop>>
      /\ AllDue(queue, 0)
      /\ PromptDue(queue, late)
      /\ jump => PromptDue(queue, JumpFloor)
      /\ selector = "waitirq" /\ ~jump => /\ PromptDue(queue, sleptnsecs)
                                          /\ extra_selecttime >= sleptnsecs
  BY DEF ClockInv, InputHandler, ScalarInv, OverdueInv, PromptInv, IdleInv, idlevars
<1>2. Len(queue) + 0 <= MAXACTIONS
  <2>1. Len(queue) \in Nat
    BY <1>1 DEF QueueOK
  <2> QED
    BY <1>1, <2>1
<1>3. /\ clock_vnow \in Nat /\ late \in Int /\ late <= clock_vnow
      /\ clock_vnow = extra_selecttime /\ JumpFloor \in Int /\ sleptnsecs \in Int
  <2>1. /\ n \in Nat /\ n * cpu_cycles_count = 0 /\ clock_vnow \in Nat
        /\ clock_vnow = n * cpu_cycles_count + extra_selecttime
        /\ extra_selecttime \in Nat /\ StepTime \in Nat /\ sleptnsecs \in Nat
    BY <1>1, VnowBound, StepNat, ClockAssumption DEF ScalarInv, StepTime
  <2>2. JumpFloor \in Int
    BY <2>1 DEF JumpFloor
  <2> HIDE DEF n
  <2> QED
    BY <2>1, <2>2
<1>4. /\ QueueOK(queue') /\ Len(queue') <= MAXACTIONS
      /\ phase' \in {phase, "smoke"}
      /\ cpu_cycling' \in BOOLEAN /\ running' \in BOOLEAN
      /\ stopped_in_debugger' \in BOOLEAN /\ shutoff_flag' \in BOOLEAN
      /\ \A x \in Int : AllDue(queue, x) /\ x <= clock_vnow => AllDue(queue', x)
      /\ \A x \in Int : PromptDue(queue, x) /\ x <= clock_vnow => PromptDue(queue', x)
      /\ \A x \in Int : PromptDue(queue, x) /\ ~Noticed(queue) => PromptDue(queue', x)
  BY <1>1, <1>2, <1>3, HandlerEffect
<1> HIDE DEF n, late
<1>5. AllDue(queue', 0) /\ PromptDue(queue', late)
  BY <1>1, <1>3, <1>4
<1>6. /\ jump => PromptDue(queue', JumpFloor)
      /\ selector = "waitirq" /\ ~jump => PromptDue(queue', sleptnsecs)
  <2>1. jump => ~Noticed(queue)
    BY DEF Noticed
  <2> QED
    BY <1>1, <1>3, <1>4, <2>1
<1>7. ScalarInv'
  BY <1>1, <1>4 DEF ScalarInv
<1>8. PromptInv' /\ IdleInv'
  <2>1. StepTime' = StepTime /\ (phase' = "handlers" => JumpFloor' = JumpFloor)
    BY <1>1 DEF StepTime, JumpFloor
  <2>2. phase' \in {"handlers", "smoke"}
    BY <1>1, <1>4
  <2> QED
    BY <1>1, <1>5, <1>6, <2>1, <2>2 DEF PromptInv, IdleInv, late, n
<1> QED
  BY <1>1, <1>4, <1>5, <1>7, <1>8 DEF ClockInv, RunInv, OverdueInv

LEMMA QueueDoneStep == ClockInv /\ QueueDone => ClockInv'
<1> SUFFICES ASSUME ClockInv, QueueDone PROVE ClockInv'
  OBVIOUS
<1>1. /\ phase = "queue" /\ QueueOK(queue) /\ ScalarInv /\ ~Due /\ vnow \in Nat
      /\ vnow' = 0 /\ caller' = "runloop" /\ Len(queue) <= MAXACTIONS
      /\ UNCHANGED <<queue, cpu_cycles_count, goticks, cpu_cycling, running,
                     extra_selecttime, sleptnsecs, jump, idleslop, shutoff_flag>>
      /\ cpu_cycles_count = 0
  BY DEF ClockInv, ScalarInv, QueueDone, cyclevars, idlevars
<1>2. AllDue(queue, 0) /\ AllDue(queue, vnow)
  <2>1. queue # <<>> => queue[1].due >= 0 /\ queue[1].due >= vnow
    <3>1. queue # <<>> => queue[1] \in Event
      BY <1>1 DEF QueueOK
    <3>2. queue # <<>> => queue[1].due \in Int
      BY <3>1 DEF Event
    <3> QED
      BY <1>1, <3>2 DEF Due
  <2> QED
    BY <1>1, <2>1, HeadDue
<1>3. /\ rotor' \in {rotor, ROTOR} /\ (rotor = 0 => rotor' = ROTOR)
      /\ phase' \in {"idle", "handlers", "break", "top"}
      /\ selector' \in {selector, "runloop"}
      /\ stopped_in_debugger' \in BOOLEAN /\ stepped' \in {0, stepped}
      /\ caller = "waitirq" => stepped' = 0
      /\ caller = "onecycle" => UNCHANGED <<selector, stepped>> /\ phase' = "handlers"
  <2>1. AfterStop \in {"top", "idle"}
    BY DEF AfterStop
  <2>2. stopped_in_debugger \in BOOLEAN /\ Debugger \in BOOLEAN
    BY <1>1, ClockAssumption DEF ScalarInv
  <2>3. CASE caller = "waitirq"
    BY <1>1, <2>2, <2>3 DEF QueueDone, ScalarInv
  <2>4. CASE caller = "onecycle"
    BY <1>1, <2>2, <2>4 DEF QueueDone, ScalarInv
  <2>5. CASE caller = "runloop" /\ rotor = 0
    BY <1>1, <2>2, <2>5 DEF QueueDone, ScalarInv
  <2>6. CASE caller = "runloop" /\ rotor # 0
    BY <1>1, <2>1, <2>2, <2>6 DEF QueueDone, ScalarInv
  <2> QED
    BY <1>1, <2>3, <2>4, <2>5, <2>6 DEF ScalarInv
<1>4. ScalarInv'
  BY <1>1, <1>3, ClockAssumption DEF ScalarInv
<1>5. CASE selector' # "waitirq"
  BY <1>1, <1>2, <1>3, <1>4, <1>5, QuietStep
<1>6. CASE selector' = "waitirq"
  <2>1. /\ selector = "waitirq" /\ caller = "onecycle" /\ vnow = extra_selecttime
        /\ UNCHANGED <<selector, stepped>> /\ phase' = "handlers"
    BY <1>1, <1>3, <1>6 DEF ScalarInv
  <2>2. PromptInv'
    <3>1. stepped' \in 0 .. MaxSteps /\ PromptDue(queue', 0)
      BY <1>1, <1>2, <1>4, DueWeaken DEF ScalarInv
    <3>2. PromptDue(queue', NSECS_PER_CLOCK * cpu_cycles_count' - NSECS_PER_CLOCK
                               - NSECS_PER_CLOCK * stepped')
      BY <1>1, <3>1, PromptFloor
    <3> QED
      BY <2>1, <3>2 DEF PromptInv, StepTime
  <2>3. IdleInv'
    <3>1. JumpFloor' = JumpFloor
      BY <1>1, <2>1 DEF JumpFloor, StepTime
    <3>2. jump => PromptDue(queue', JumpFloor)
      BY <1>1, <2>1 DEF ClockInv, IdleInv
    <3>3. ~jump => extra_selecttime >= sleptnsecs
      BY <1>1, <2>1 DEF ClockInv, IdleInv
    <3>4. ~jump => PromptDue(queue', sleptnsecs)
      BY <1>1, <1>2, <2>1, <3>3, DueWeaken DEF ScalarInv
    <3> QED
      BY <1>1, <2>1, <3>1, <3>2, <3>3, <3>4 DEF IdleInv
  <2> QED
    BY <1>1, <1>2, <1>4, <2>1, <2>2, <2>3 DEF ClockInv, RunInv, OverdueInv
<1> QED
  BY <1>5, <1>6

LEMMA QuietActions ==
    ASSUME ClockInv,
           PowerOff \/ gdb_startbreak \/ StopLoop \/ WaitIrqDone
    PROVE  ClockInv'
<1>1. /\ UNCHANGED <<queue, cpu_cycles_count, goticks, cpu_cycling, running, rotor,
                     sleptnsecs, jump, stepped, idleslop, vnow, caller, shutoff_flag>>
      /\ phase \in {"top", "break", "stop", "idle"}
  BY DEF PowerOff, gdb_startbreak, StopLoop, WaitIrqDone,
         cyclevars, idlevars, flags
<1>2. AllDue(queue, 0) /\ cpu_cycles_count = 0 /\ ScalarInv
  BY <1>1 DEF ClockInv, ScalarInv, OverdueInv
<1>3. CASE PowerOff \/ WaitIrqDone
  <2>1. /\ phase' \in {"off", "top"} /\ phase \in {"top", "idle"}
        /\ UNCHANGED <<extra_selecttime, selector, stopped_in_debugger>>
    BY <1>3 DEF PowerOff, WaitIrqDone, flags
  <2>2. ScalarInv' /\ selector' # "waitirq"
    BY <1>1, <1>2, <2>1 DEF ScalarInv
  <2> QED
    BY <1>1, <1>2, <2>1, <2>2, QuietStep
<1>4. CASE gdb_startbreak
  <2>1. /\ phase = "break" /\ phase' \in {"stop", "off"}
        /\ UNCHANGED <<extra_selecttime, selector>> /\ stopped_in_debugger' \in BOOLEAN
    BY <1>2, <1>4 DEF gdb_startbreak, ScalarInv
  <2>2. ScalarInv' /\ selector' # "waitirq"
    BY <1>1, <1>2, <2>1 DEF ScalarInv
  <2> QED
    BY <1>1, <1>2, <2>1, <2>2, QuietStep
<1>5. CASE StopLoop
  <2>1. /\ phase = "stop" /\ phase' \in {"handlers", "top", "idle"}
        /\ \/ selector' = "stoploop"
           \/ selector' = selector /\ phase' # "handlers"
        /\ extra_selecttime' \in 0 .. MaxSleep
        /\ stopped_in_debugger' = stopped_in_debugger
    BY <1>2, <1>5 DEF StopLoop, tryselect, AfterStop, ScalarInv, flags
  <2>2. ScalarInv' /\ selector' # "waitirq"
    BY <1>1, <1>2, <2>1 DEF ScalarInv
  <2> QED
    BY <1>1, <1>2, <2>1, <2>2, QuietStep
<1> QED
  BY <1>3, <1>4, <1>5

LEMMA LeaveDebuggerStep == ClockInv /\ main_leave_debugger => ClockInv'
<1> SUFFICES ASSUME ClockInv, main_leave_debugger PROVE ClockInv'
  OBVIOUS
<1>1. /\ UNCHANGED <<queue, cpu_cycles_count, goticks, cpu_cycling, running, rotor,
                     extra_selecttime, sleptnsecs, jump, stepped, idleslop, vnow, phase,
                     caller, selector, shutoff_flag>>
      /\ stopped_in_debugger' \in BOOLEAN
  BY DEF main_leave_debugger, cyclevars, idlevars
<1> QED
  BY <1>1 DEF ClockInv, ScalarInv, RunInv, OverdueInv, PromptInv, IdleInv, StepTime,
              JumpFloor

LEMMA onecycleStep == ClockInv /\ onecycle => ClockInv'
<1> SUFFICES ASSUME ClockInv, onecycle PROVE ClockInv'
  OBVIOUS
<1> DEFINE n == NSECS_PER_CLOCK
<1>1. /\ phase = "handlers" /\ phase' = "run" /\ caller' = "onecycle"
      /\ goticks' = 1 /\ cpu_cycles_count' = 0 /\ cpu_cycling' \in BOOLEAN
      /\ UNCHANGED <<queue, running, rotor, extra_selecttime, sleptnsecs, jump, idleslop,
                     vnow, selector, stopped_in_debugger, shutoff_flag>>
      /\ QueueOK(queue) /\ Len(queue) <= MAXACTIONS /\ ScalarInv /\ AllDue(queue, 0)
      /\ jump => stepped < MaxSteps /\ stepped' = stepped + 1
      /\ ~jump => stepped' = stepped
  BY DEF ClockInv, OverdueInv, onecycle, flags
<1>2. /\ n * cpu_cycles_count' = 0 /\ n * goticks' - n = 0
      /\ stepped \in 0 .. MaxSteps /\ stepped' \in 0 .. MaxSteps
  BY <1>1, ClockAssumption DEF ScalarInv
<1>3. /\ PromptDue(queue', 0)
      /\ PromptDue(queue', n * cpu_cycles_count' - n - n * stepped')
  <2>1. PromptDue(queue', 0)
    BY <1>1, DueWeaken
  <2> QED
    BY <1>1, <1>2, <2>1, PromptFloor
<1>4. PromptInv'
  <2> HIDE DEF n
  <2> QED
    BY <1>1, <1>2, <1>3 DEF PromptInv, StepTime, n
<1>5. ScalarInv'
  BY <1>1, ClockAssumption DEF ScalarInv
<1>6. IdleInv'
  <2>1. jump => JumpFloor' = JumpFloor
    <3> SUFFICES ASSUME jump PROVE JumpFloor' = JumpFloor
      OBVIOUS
    <3>1. n \in Nat /\ stepped \in Nat /\ sleptnsecs \in Nat /\ n * stepped \in Nat
      BY <1>1, <1>2, StepNat, ClockAssumption DEF ScalarInv
    <3>2. n * (stepped + 1) = n * stepped + n
      BY <3>1, MulSucc
    <3>3. JumpFloor' = sleptnsecs - n * (stepped + 1) + n
      BY <1>1 DEF JumpFloor, StepTime
    <3>4. JumpFloor = sleptnsecs - n * stepped + 0
      BY <1>1 DEF JumpFloor, StepTime
    <3> HIDE DEF n
    <3> QED
      BY <3>1, <3>2, <3>3, <3>4
  <2>2. selector = "waitirq" => /\ jump => PromptDue(queue, JumpFloor)
                                /\ ~jump => extra_selecttime >= sleptnsecs
    BY <1>1 DEF ClockInv, IdleInv
  <2> QED
    BY <1>1, <2>1, <2>2 DEF IdleInv
<1> QED
  BY <1>1, <1>4, <1>5, <1>6 DEF ClockInv, RunInv, OverdueInv

LEMMA WaitIrqStep == ClockInv /\ WaitIrq => ClockInv'
<1> SUFFICES ASSUME ClockInv, WaitIrq PROVE ClockInv'
  OBVIOUS
<1> DEFINE n == NSECS_PER_CLOCK
<1>1. /\ phase = "idle" /\ queue' = SeenQueue(FALSE) /\ cpu_cycles_count = 0
      /\ UNCHANGED <<cpu_cycles_count, goticks, cpu_cycling, running, rotor, stepped,
                     idleslop, vnow, caller, stopped_in_debugger, shutoff_flag>>
      /\ stepped = 0
      /\ QueueOK(queue) /\ Len(queue) <= MAXACTIONS /\ ScalarInv /\ AllDue(queue, 0)
  BY DEF ClockInv, ScalarInv, OverdueInv, WaitIrq, cyclevars, flags
<1>2. queue # <<>> => queue[1].due \in Nat
  <2> SUFFICES ASSUME queue # <<>> PROVE queue[1].due \in Nat
    OBVIOUS
  <2>1. 1 \in 1 .. Len(queue) /\ queue[1] \in Event
    BY <1>1 DEF QueueOK
  <2>2. queue[1].due \in Int /\ queue[1].due >= 0
    BY <1>1, <2>1 DEF Event, AllDue
  <2> QED
    BY <2>2
<1>3. /\ phase' = "handlers" /\ selector' = "waitirq" /\ extra_selecttime' \in 0 .. MaxSleep
      /\ sleptnsecs' \in Nat /\ jump' \in BOOLEAN
      /\ jump' \/ extra_selecttime' >= sleptnsecs'
      /\ queue # <<>> => queue[1].due >= sleptnsecs'
  <2>1. CASE queue = <<>>
    <3>1. PICK s \in 0 .. MaxSleep :
            tryselect("waitirq", s) /\ sleptnsecs' = s /\ jump' = FALSE
      BY <2>1 DEF WaitIrq
    <3>2. jump' \in BOOLEAN
      BY <3>1, Zenon
    <3> QED
      BY <2>1, <3>1, <3>2, ClockAssumption DEF tryselect
  <2>2. CASE queue # <<>>
    <3>1. PICK wnsecs \in 0 .. queue[1].due :
                \/ /\ wnsecs > MinSleep /\ jump' = FALSE
                   /\ \E s \in 0 .. MaxSleep :
                        /\ tryselect("waitirq", s)
                        /\ sleptnsecs' = IF s > wnsecs THEN wnsecs ELSE s
                \/ /\ wnsecs <= MinSleep /\ jump' = TRUE
                   /\ tryselect("waitirq", 0) /\ sleptnsecs' = queue[1].due
      BY <2>2, Zenon DEF WaitIrq
    <3>2. CASE /\ jump' = FALSE
               /\ \E s \in 0 .. MaxSleep :
                    /\ tryselect("waitirq", s)
                    /\ sleptnsecs' = IF s > wnsecs THEN wnsecs ELSE s
      <4>1. PICK s \in 0 .. MaxSleep :
                    /\ tryselect("waitirq", s)
                    /\ sleptnsecs' = IF s > wnsecs THEN wnsecs ELSE s
        BY <3>2
      <4>2. jump' \in BOOLEAN
        BY <3>2, Zenon
      <4> QED
        BY <1>2, <2>2, <3>2, <4>1, <4>2, ClockAssumption DEF tryselect
    <3>3. CASE jump' = TRUE /\ tryselect("waitirq", 0) /\ sleptnsecs' = queue[1].due
      <4>1. jump' \in BOOLEAN /\ jump'
        BY <3>3, Zenon
      <4> QED
        BY <1>2, <2>2, <3>3, <4>1, ClockAssumption DEF tryselect
    <3> QED
      BY <3>1, <3>2, <3>3
  <2> QED
    BY <2>1, <2>2
<1>4. AllDue(queue, sleptnsecs')
  BY <1>1, <1>3, HeadDue
<1>5. /\ QueueOK(queue') /\ Len(queue') = Len(queue)
      /\ \A x \in Int : AllDue(queue, x) => AllDue(queue', x) /\ PromptDue(queue', x)
  BY <1>1, SeenNoneOK, Zenon
<1>6. AllDue(queue', 0) /\ PromptDue(queue', sleptnsecs')
  <2>1. sleptnsecs' \in Int /\ 0 \in Int
    BY <1>3
  <2> QED
    BY <1>1, <1>4, <1>5, <2>1, Zenon
<1>7. PromptDue(queue', n * cpu_cycles_count' - n - n * stepped')
  <2>1. cpu_cycles_count' = 0 /\ stepped' \in 0 .. MaxSteps
    BY <1>1 DEF ScalarInv
  <2> QED
    BY <1>3, <1>5, <1>6, <2>1, PromptFloor
<1>8. ScalarInv'
  BY <1>1, <1>3, ClockAssumption DEF ScalarInv
<1>9. IdleInv'
  <2>1. n * stepped' = 0
    BY <1>1, ClockAssumption
  <2>2. JumpFloor' = sleptnsecs'
    BY <1>3, <2>1 DEF JumpFloor, StepTime
  <2> QED
    BY <1>3, <1>6, <2>2 DEF IdleInv
<1> QED
  BY <1>1, <1>3, <1>5, <1>6, <1>7, <1>8, <1>9
     DEF ClockInv, RunInv, OverdueInv, PromptInv, StepTime

LEMMA SelectDoneStep == ClockInv /\ SelectDone => ClockInv'
<1> SUFFICES ASSUME ClockInv, SelectDone PROVE ClockInv'
  OBVIOUS
<1> DEFINE n == NSECS_PER_CLOCK
           tmp == sleptnsecs + idleslop
<1>1. /\ phase = "handlers" /\ cpu_cycles_count = 0 /\ extra_selecttime' = 0
      /\ UNCHANGED <<cpu_cycles_count, goticks, cpu_cycling, running, rotor,
                     vnow, stopped_in_debugger, shutoff_flag>>
      /\ selector' = "runloop"
      /\ QueueOK(queue) /\ Len(queue) <= MAXACTIONS /\ ScalarInv /\ AllDue(queue, 0)
      /\ jump => PromptDue(queue, JumpFloor)
      /\ selector = "waitirq" /\ ~jump => PromptDue(queue, sleptnsecs)
      /\ stepped' = stepped /\ jump \in BOOLEAN
  BY DEF ClockInv, ScalarInv, OverdueInv, IdleInv, SelectDone, cyclevars, idlevars, flags
<1>2. CASE selector = "waitirq"
  <2>1. /\ queue' = clock_vadvance(queue, tmp) /\ idleslop' = tmp % n
        /\ sleptnsecs' = 0 /\ jump' = FALSE /\ phase' = "queue" /\ caller' = "waitirq"
    BY <1>2 DEF SelectDone
  <2>2. n \in Nat \ {0} /\ sleptnsecs \in Nat /\ idleslop \in 0 .. n - 1 /\ tmp \in Nat
        /\ StepTime \in Nat
    BY <1>1, StepNat, ClockAssumption DEF ScalarInv, StepTime
  <2>3. idleslop' \in 0 .. n - 1
    <3> HIDE DEF n, tmp
    <3> QED
      BY <2>1, <2>2
  <2>4. /\ QueueOK(queue') /\ Len(queue') = Len(queue)
        /\ \A x \in Int : PromptDue(queue, x + tmp) => PromptDue(queue', x)
    <3> HIDE DEF tmp
    <3> QED
      BY <1>1, <2>1, <2>2, AdvanceOK
  <2>5. PromptDue(queue', n * cpu_cycles_count' - n - StepTime)
    <3>1. PromptDue(queue, sleptnsecs - StepTime)
      <4>1. sleptnsecs - StepTime \in Int /\ sleptnsecs - StepTime <= sleptnsecs
        BY <2>2
      <4>2. JumpFloor = sleptnsecs - StepTime
        BY <1>1, <4>1 DEF JumpFloor
      <4> QED
        BY <1>1, <1>2, <2>2, <4>1, <4>2, DueWeaken
    <3> DEFINE late == -n - StepTime
    <3>2. /\ n * cpu_cycles_count' - n - StepTime = late /\ late \in Int
          /\ late + tmp \in Int /\ late + tmp <= sleptnsecs - StepTime
          /\ sleptnsecs - StepTime \in Int
      BY <1>1, <2>2
    <3> HIDE DEF late, tmp, n
    <3>3. PromptDue(queue, late + tmp)
      BY <1>1, <3>1, <3>2, DueWeaken
    <3> QED
      BY <2>4, <3>2, <3>3
  <2>6. ScalarInv'
    <3>1. jump' \in BOOLEAN /\ ~jump'
      BY <2>1, Zenon
    <3> QED
      BY <1>1, <2>1, <2>3, <3>1, ClockAssumption DEF ScalarInv
  <2>7. StepTime' = StepTime
    BY <1>1 DEF StepTime
  <2> QED
    BY <1>1, <2>1, <2>4, <2>5, <2>6, <2>7 DEF ClockInv, RunInv, OverdueInv, PromptInv, IdleInv
<1>3. CASE selector # "waitirq"
  <2>1. /\ phase' \in {"stop", "break", "top", "idle"}
        /\ UNCHANGED <<queue, sleptnsecs, jump, stepped, idleslop, caller>>
    BY <1>3 DEF SelectDone, AfterSelect, AfterStop, idlevars
  <2>2. ScalarInv'
    <3>1. ~jump /\ stepped = 0
      BY <1>1, <1>3 DEF ScalarInv
    <3> QED
      BY <1>1, <2>1, <3>1, ClockAssumption DEF ScalarInv
  <2> QED
    BY <1>1, <2>1, <2>2, QuietStep
<1> QED
  BY <1>2, <1>3

LEMMA ClockStutter == ClockInv /\ UNCHANGED vars => ClockInv'
<1> SUFFICES ASSUME ClockInv, UNCHANGED vars PROVE ClockInv'
  OBVIOUS
<1>1. UNCHANGED <<queue, cpu_cycles_count, goticks, cpu_cycling, running, rotor,
                  extra_selecttime, sleptnsecs, jump, stepped, idleslop, vnow, phase, caller,
                  selector, stopped_in_debugger, shutoff_flag>>
  BY DEF vars, cyclevars, idlevars, flags
<1> QED
  BY <1>1 DEF ClockInv, ScalarInv, RunInv, OverdueInv, PromptInv, IdleInv, StepTime,
              JumpFloor

(***************************************************************************)
(* Theorem.  The strengthened invariant holds in every reachable state of  *)
(* the main loop, the event queue and the idle loop, with a debugger that  *)
(* steps the machine from any of their select() calls.                     *)
(***************************************************************************)
THEOREM ClockInvariant == Spec => []ClockInv
<1>1. Init => ClockInv
  BY ClockInit
<1>2. ClockInv /\ [Next]_vars => ClockInv'
  BY StartRunStep, InstructionStep, CycleEndStep, DispatchStep, QueueDoneStep,
     InputHandlerStep, LeaveDebuggerStep, onecycleStep, QuietActions, WaitIrqStep, SelectDoneStep,
     ClockStutter, Zenon DEF Next
<1> QED
  BY <1>1, <1>2, PTL DEF Spec

(***************************************************************************)
(* Theorem.  Type correctness, the size of the pool of timed actions and   *)
(* the rotor's range among it.                                             *)
(***************************************************************************)
THEOREM TypeCorrect == Spec => []TypeOK
<1>1. ClockInv => TypeOK
  <2> SUFFICES ASSUME ClockInv PROVE TypeOK
    OBVIOUS
  <2>1. <<cpu_cycling, running, jump, stopped_in_debugger, shutoff_flag>>
           \in BOOLEAN \X BOOLEAN \X BOOLEAN \X BOOLEAN \X BOOLEAN
    BY DEF ClockInv, ScalarInv
  <2>2. rotor \in 1 .. ROTOR \/ (rotor = 0 /\ phase \in {"queue", "smoke"})
    BY ClockAssumption DEF ClockInv, ScalarInv
  <2>3. queue \in Seq(Event)
    BY DEF ClockInv, QueueOK
  <2> QED
    BY <2>1, <2>2, <2>3 DEF ClockInv, ScalarInv, TypeOK
<1> QED
  BY <1>1, ClockInvariant, PTL

(***************************************************************************)
(* Theorem.  schedule_event(), clock_vadvance() and check_queue() keep the *)
(* event queue sorted, so the loops that look at its head alone miss       *)
(* nothing.                                                                *)
(***************************************************************************)
THEOREM QueueStaysSorted == Spec => []QueueSorted
<1>1. ClockInv => QueueSorted
  <2> SUFFICES ASSUME ClockInv, NEW i \in 1 .. Len(queue) - 1
               PROVE  queue[i].due <= queue[i + 1].due
    BY DEF QueueSorted
  <2>1. Len(queue) \in Nat
    BY DEF ClockInv, QueueOK
  <2>2. i \in 1 .. Len(queue) /\ i + 1 \in 1 .. Len(queue) /\ i <= i + 1
    BY <2>1
  <2> QED
    BY <2>2 DEF ClockInv, QueueOK, Sorted
<1> QED
  BY <1>1, ClockInvariant, PTL

(***************************************************************************)
(* Theorem.  When clock_waitirq() subtracts the time from the head's, the  *)
(* head is not overdue: the unsigned subtraction never wraps.              *)
(***************************************************************************)
THEOREM WaitNeverUnderflows == Spec => []NoUnderflow
<1>1. ClockInv => NoUnderflow
  <2> SUFFICES ASSUME ClockInv, phase = "idle", queue # <<>> PROVE queue[1].due >= 0
    BY DEF NoUnderflow
  <2>1. 1 \in 1 .. Len(queue)
    BY DEF ClockInv, QueueOK
  <2> QED
    BY <2>1 DEF ClockInv, OverdueInv, AllDue
<1> QED
  BY <1>1, ClockInvariant, PTL

(***************************************************************************)
(* Theorem.  An event the loop knew of is at most one cycle late, through  *)
(* runs, interrupted runs, polls, sleeps, jumps and debugger steps from    *)
(* any select(), plus the cycles stepped inside an idle jump already       *)
(* decided.                                                                *)
(***************************************************************************)
THEOREM KnownEventsOnTime == Spec => []OnTime
<1>1. ClockInv => OnTime
  <2> SUFFICES ASSUME ClockInv, NEW i \in 1 .. Len(queue), queue[i].prompt
               PROVE  NSECS_PER_CLOCK * cpu_cycles_count - queue[i].due
                         <= NSECS_PER_CLOCK * (1 + stepped)
    BY DEF OnTime
  <2> DEFINE n == NSECS_PER_CLOCK
  <2>1. queue[i] \in Event
    BY DEF ClockInv, QueueOK
  <2>2. queue[i].due \in Int
    BY <2>1 DEF Event
  <2>3. /\ n \in Nat /\ n * cpu_cycles_count \in Nat /\ stepped \in Nat
        /\ n * stepped \in Nat
    BY VnowBound, StepNat, ClockAssumption DEF ClockInv, ScalarInv
  <2>4. queue[i].due >= n * cpu_cycles_count - n - n * stepped
    BY DEF ClockInv, PromptInv, PromptDue, StepTime
  <2>5. n * (1 + stepped) = n + n * stepped
    <3>1. n * (stepped + 1) = n * stepped + n /\ 1 + stepped = stepped + 1
      BY <2>3, MulSucc
    <3> QED
      BY <2>3, <3>1
  <2> HIDE DEF n
  <2>6. n * cpu_cycles_count - queue[i].due <= n * (1 + stepped)
    BY <2>2, <2>3, <2>4, <2>5
  <2> QED
    BY <2>6 DEF n
<1> QED
  BY <1>1, ClockInvariant, PTL

(***************************************************************************)
(* Theorem.  Any event, also one scheduled in the middle of a run that     *)
(* nothing interrupts, is late by no more than the cycles between polls.   *)
(***************************************************************************)
THEOREM LatenessBounded == Spec => []LateByAtMostARun
<1>1. ClockInv => LateByAtMostARun
  <2> SUFFICES ASSUME ClockInv, NEW i \in 1 .. Len(queue),
                      phase \in {"top", "run"} \/ (phase = "queue" /\ caller # "waitirq")
               PROVE  NSECS_PER_CLOCK * cpu_cycles_count - queue[i].due
                         <= NSECS_PER_CLOCK * ROTOR
    BY DEF LateByAtMostARun
  <2> DEFINE n == NSECS_PER_CLOCK
  <2>1. queue[i] \in Event
    BY DEF ClockInv, QueueOK
  <2>2. queue[i].due \in Int
    BY <2>1 DEF Event
  <2>3. /\ n \in Nat /\ cpu_cycles_count \in Nat /\ ROTOR \in Nat
        /\ cpu_cycles_count <= ROTOR
    BY ClockAssumption DEF ClockInv, ScalarInv, RunInv
  <2>4. n * cpu_cycles_count \in Nat /\ n * cpu_cycles_count <= n * ROTOR /\ n * ROTOR \in Nat
    BY <2>3, MulMono
  <2>5. CASE phase \in {"top", "run"}
    <3>1. queue[i].due >= 0
      BY <2>5 DEF ClockInv, OverdueInv, AllDue
    <3> QED
      BY <2>2, <2>4, <3>1
  <2>6. CASE phase = "queue" /\ caller # "waitirq"
    <3>1. queue[i].due >= -(n * ROTOR)
      BY <2>6 DEF ClockInv, OverdueInv, AllDue
    <3>2. n * cpu_cycles_count = 0
      BY <2>6, VnowBound DEF ClockInv, ScalarInv
    <3> QED
      BY <2>2, <2>4, <3>1, <3>2
  <2> QED
    BY <2>5, <2>6
<1> QED
  BY <1>1, ClockInvariant, PTL
=============================================================================
