--------------------------- MODULE JobEvents_proofs ---------------------------
(***************************************************************************)
(* Proofs about streams and the replay of the table, for any number of     *)
(* streams, lines, faults and sizes of buffers and queries: a live stream  *)
(* loses no line, yields none twice and ends with the job; a stream that   *)
(* replays the table never goes back; a replay of a job that is over tells *)
(* its end.                                                                *)
(*                                                                         *)
(* IInv accounts for every line of a live stream: what it has yielded,     *)
(* what is left of the buffer it copied and what waits in its queue are    *)
(* the lines from the first to the last, with the end mark, if any, right  *)
(* after the job's last one.  Table orders the lines of the stored events  *)
(* and of the tasks behind them, and bounds them by the lines the buffer   *)
(* has dropped once the record is gone; so what a stream without a record  *)
(* reads, from the table first and then from the buffer, rises (Reading).  *)
(* Told says what the stored events and the tasks amount to together as    *)
(* long as nothing has failed: appending only moves the border between     *)
(* them.                                                                   *)
(***************************************************************************)
EXTENDS JobEvents, TLAPS, FiniteSetTheorems, SequenceTheorems

\* Types of what a stream is made of.  What a stream that is not live has
\* yielded is typed in Reads.
Shape ==
  /\ status \in Terminal \union {"pending", "running", "lost"}
  /\ made \in [Kinds -> Nat] /\ atEnd \in [Kinds -> Nat]
  /\ buffer \in [Kinds -> Seq(Nat)]
  /\ at \in [Readers -> {"new", "table", "attach", "replay", "drain", "last",
                         "live", "done", "gone"}]
  /\ left \in [Readers -> Seq(Nat)] /\ queue \in [Readers -> Seq(Nat)]
  /\ from \in [Readers -> Nat]
  /\ got = [r \in Readers |-> got[r]]
  /\ live \subseteq Readers
  /\ \A r \in live : got[r] \in Seq(Nat)

\* s continues the lines after a.
Follows(s, a) == \A i \in 1 .. Len(s) : s[i] = a + i

Buffered ==
  /\ ~kept => status \notin {"pending", "running"}
  /\ \A k \in Kinds :
       /\ atEnd[k] <= made[k]
       /\ Len(buffer[k]) <= made[k]
       /\ Follows(buffer[k], made[k] - Len(buffer[k]))

\* A stream that is not yet attached.
Unattached ==
  \A r \in Readers :
    /\ at[r] \in {"new", "table", "attach"} =>
         left[r] = <<>> /\ queue[r] = <<>> /\ r \notin live
    /\ at[r] = "table" => ~kept
    /\ at[r] \in {"new", "attach"} /\ kept => got[r] = <<>>

\* The last line that a stream has yielded or copied.
Upto(r) == from[r] + Len(got[r]) + Len(left[r])

\* The first p messages of a queue are the lines after u.
Waits(q, u, p) == \A i \in 1 .. p : q[i] = u + i

\* All messages are the lines after u, up to m.
Going(q, u, m) == Waits(q, u, Len(q)) /\ u + Len(q) = m

\* The first ones are the lines after u, up to e, with the end mark behind them.
Closed(q, u, e) ==
  \E p \in 0 .. Len(q) - 1 : Waits(q, u, p) /\ q[p + 1] = EndMark /\ u + p = e

\* The queue of a live stream has the lines up to the last one that was emitted,
\* or those up to the end of the job.
Queued(r) ==
  \/ Going(queue[r], Upto(r), made[KindOf(r)])
  \/ Closed(queue[r], Upto(r), atEnd[KindOf(r)]) /\ status \in Terminal

Stream(r) ==
  /\ at[r] \in {"replay", "drain", "last", "live", "done"}
  /\ Follows(got[r], from[r])
  /\ Follows(left[r], from[r] + Len(got[r]))
  /\ at[r] # "replay" => left[r] = <<>>
  /\ at[r] \in {"last", "done"} => Ended
  /\ at[r] = "done" => from[r] + Len(got[r]) >= atEnd[KindOf(r)]
  /\ at[r] # "done" => Queued(r)

IInv == Shape /\ Buffered /\ Unattached /\ \A r \in live : Stream(r)

-----------------------------------------------------------------------------
(* Sequences of lines.                                                     *)

\* A line that is appended goes to the end.
LEMMA Appended ==
  ASSUME NEW s \in Seq(Nat), NEW x \in Nat
  PROVE  /\ Append(s, x) \in Seq(Nat) /\ Len(Append(s, x)) = Len(s) + 1
         /\ \A i \in 1 .. Len(s) : Append(s, x)[i] = s[i]
         /\ Append(s, x)[Len(s) + 1] = x
  OBVIOUS

\* The first line leaves the others in their order.
LEMMA Shifted ==
  ASSUME NEW s \in Seq(Nat), s # <<>>
  PROVE  /\ Len(s) >= 1 /\ Head(s) = s[1] /\ Head(s) \in Nat
         /\ Tail(s) \in Seq(Nat) /\ Len(Tail(s)) = Len(s) - 1
         /\ \A i \in 1 .. Len(s) - 1 : Tail(s)[i] = s[i + 1]
  OBVIOUS

\* Messages go behind those that wait.
LEMMA Joined ==
  ASSUME NEW s \in Seq(Nat), NEW t \in Seq(Nat)
  PROVE  /\ s \o t \in Seq(Nat) /\ Len(s \o t) = Len(s) + Len(t)
         /\ \A i \in 1 .. Len(s) : (s \o t)[i] = s[i]
         /\ \A i \in 1 .. Len(t) : (s \o t)[Len(s) + i] = t[i]
  OBVIOUS

\* The line after the last of n lines.
LEMMA NextLine ==
  ASSUME NEW u \in Nat, NEW n \in Nat, NEW m, u + n = m
  PROVE  u + (n + 1) = m + 1
  OBVIOUS

\* A queue that is told the next line has it at its end.
LEMMA GoingLine ==
  ASSUME NEW q \in Seq(Nat), NEW u \in Nat, NEW m \in Nat, Going(q, u, m),
         NEW c, c = q \o <<m + 1>>
  PROVE  c \in Seq(Nat) /\ Going(c, u, m + 1)
<1> DEFINE t == <<m + 1>>
<1>1. t \in Seq(Nat) /\ Len(t) = 1 /\ t[1] = m + 1 /\ c = q \o t
  OBVIOUS
<1> HIDE DEF t
<1>2. PICK n \in Nat : n = Len(q) /\ u + n = m /\ \A i \in 1 .. n : q[i] = u + i
  BY DEF Going, Waits
<1>3. /\ c \in Seq(Nat) /\ Len(c) = n + 1
      /\ \A i \in 1 .. n : c[i] = q[i]
      /\ \A i \in 1 .. 1 : c[n + i] = t[i]
  BY <1>1, <1>2, Joined
<1>4. c[n + 1] = m + 1
  BY <1>1, <1>3
<1>5. \A i \in 1 .. n + 1 : c[i] = u + i
  <2> SUFFICES ASSUME NEW i \in 1 .. n + 1 PROVE c[i] = u + i
    OBVIOUS
  <2>1. i \in 1 .. n \/ i = n + 1
    OBVIOUS
  <2>2. u + (n + 1) = m + 1
    BY <1>2, NextLine
  <2> QED
    BY <1>2, <1>3, <1>4, <2>1, <2>2
<1>6. Waits(c, u, Len(c))
  BY <1>3, <1>5 DEF Waits
<1>7. u + Len(c) = m + 1
  BY <1>2, <1>3, NextLine
<1> QED
  BY <1>3, <1>6, <1>7 DEF Going

\* What comes behind the end mark changes nothing before it.
LEMMA ClosedMore ==
  ASSUME NEW q \in Seq(Nat), NEW t \in Seq(Nat), NEW u \in Nat, NEW e \in Nat,
         Closed(q, u, e)
  PROVE  Closed(q \o t, u, e)
<1>1. PICK p \in 0 .. Len(q) - 1 : Waits(q, u, p) /\ q[p + 1] = EndMark /\ u + p = e
  BY DEF Closed
<1>2. /\ Len(q) \in Nat /\ Len(t) \in Nat /\ Len(q \o t) = Len(q) + Len(t)
      /\ \A i \in 1 .. Len(q) : (q \o t)[i] = q[i]
  BY Joined
<1>3. p \in 0 .. Len(q \o t) - 1 /\ p + 1 \in 1 .. Len(q)
  BY <1>1, <1>2
<1>4. Waits(q \o t, u, p) /\ (q \o t)[p + 1] = EndMark
  BY <1>1, <1>2, <1>3 DEF Waits
<1> QED
  BY <1>1, <1>3, <1>4 DEF Closed

\* The end mark closes a queue at the last line.
LEMMA GoingEnd ==
  ASSUME NEW q \in Seq(Nat), NEW u \in Nat, NEW m \in Nat, Going(q, u, m),
         NEW c, c = q \o <<EndMark>>
  PROVE  c \in Seq(Nat) /\ Closed(c, u, m)
<1> DEFINE t == <<EndMark>>
<1>1. t \in Seq(Nat) /\ Len(t) = 1 /\ t[1] = EndMark /\ c = q \o t
  BY DEF EndMark
<1> HIDE DEF t
<1>2. /\ c \in Seq(Nat) /\ Len(c) = Len(q) + 1 /\ Len(q) \in Nat
      /\ \A i \in 1 .. Len(q) : c[i] = q[i]
  BY <1>1, Joined
<1>3. c[Len(q) + 1] = EndMark
  <2>1. 1 \in 1 .. Len(t)
    BY <1>1
  <2> QED
    BY <1>1, <2>1, Joined
<1>4. Len(q) \in 0 .. Len(c) - 1 /\ Waits(c, u, Len(q)) /\ u + Len(q) = m
  BY <1>2 DEF Going, Waits
<1> QED
  BY <1>2, <1>3, <1>4 DEF Closed

\* So do the job's last line and the end mark together.
LEMMA GoingLast ==
  ASSUME NEW q \in Seq(Nat), NEW u \in Nat, NEW m \in Nat, Going(q, u, m),
         NEW c, c = q \o <<m + 1, EndMark>>
  PROVE  c \in Seq(Nat) /\ Closed(c, u, m + 1)
<1> DEFINE t == <<m + 1, EndMark>>
<1>1. t \in Seq(Nat) /\ Len(t) = 2 /\ t[1] = m + 1 /\ t[2] = EndMark /\ c = q \o t
  BY DEF EndMark
<1> HIDE DEF t
<1>2. PICK n \in Nat : n = Len(q) /\ u + n = m /\ \A i \in 1 .. n : q[i] = u + i
  BY DEF Going, Waits
<1>3. /\ c \in Seq(Nat) /\ Len(c) = n + 2
      /\ \A i \in 1 .. n : c[i] = q[i]
      /\ \A i \in 1 .. 2 : c[n + i] = t[i]
  BY <1>1, <1>2, Joined
<1>4. c[n + 1] = m + 1 /\ c[n + 2] = EndMark
  BY <1>1, <1>3
<1>5. \A i \in 1 .. n + 1 : c[i] = u + i
  <2> SUFFICES ASSUME NEW i \in 1 .. n + 1 PROVE c[i] = u + i
    OBVIOUS
  <2>1. i \in 1 .. n \/ i = n + 1
    OBVIOUS
  <2>2. u + (n + 1) = m + 1
    BY <1>2, NextLine
  <2> QED
    BY <1>2, <1>3, <1>4, <2>1, <2>2
<1>6. n + 1 \in 0 .. Len(c) - 1 /\ u + (n + 1) = m + 1 /\ n + 1 + 1 = n + 2
  BY <1>2, <1>3, NextLine
<1>7. Waits(c, u, n + 1)
  BY <1>5 DEF Waits
<1> QED
  BY <1>3, <1>4, <1>6, <1>7 DEF Closed

\* The message received from a queue without an end mark is the next line.
LEMMA GoingReceive ==
  ASSUME NEW q \in Seq(Nat), NEW u \in Nat, NEW m \in Nat, Going(q, u, m), q # <<>>
  PROVE  Head(q) = u + 1 /\ Going(Tail(q), u + 1, m)
<1> DEFINE c == Tail(q)
<1>1. /\ Len(q) \in Nat /\ Len(q) >= 1 /\ Head(q) = q[1] /\ Len(c) = Len(q) - 1
      /\ \A i \in 1 .. Len(q) - 1 : c[i] = q[i + 1]
  BY Shifted
<1> HIDE DEF c
<1>2. \A i \in 1 .. Len(q) : q[i] = u + i
  BY DEF Going, Waits
<1>3. \A i \in 1 .. Len(c) : c[i] = u + 1 + i
  <2> SUFFICES ASSUME NEW i \in 1 .. Len(c) PROVE c[i] = u + 1 + i
    OBVIOUS
  <2>1. i + 1 \in 1 .. Len(q) /\ c[i] = q[i + 1]
    BY <1>1
  <2> QED
    BY <1>2, <2>1
<1>4. Going(c, u + 1, m)
  BY <1>1, <1>3 DEF Going, Waits
<1> QED
  BY <1>1, <1>2, <1>4 DEF c

\* The end mark is received when all lines up to the end have been; before it, the
\* next line is.
LEMMA ClosedReceive ==
  ASSUME NEW q \in Seq(Nat), NEW u \in Nat, NEW e \in Nat, Closed(q, u, e)
  PROVE  /\ q # <<>>
         /\ Head(q) = EndMark => u = e
         /\ Head(q) # EndMark => Head(q) = u + 1 /\ Closed(Tail(q), u + 1, e)
<1>1. PICK p \in 0 .. Len(q) - 1 : Waits(q, u, p) /\ q[p + 1] = EndMark /\ u + p = e
  BY DEF Closed
<1>2. q # <<>>
  BY <1>1
<1> DEFINE c == Tail(q)
<1>3. /\ Len(q) \in Nat /\ Len(q) >= 1 /\ Head(q) = q[1] /\ Len(c) = Len(q) - 1
      /\ \A i \in 1 .. Len(q) - 1 : c[i] = q[i + 1]
  BY <1>2, Shifted
<1> HIDE DEF c
<1>4. CASE p = 0
  <2>1. Head(q) = EndMark /\ u = e
    BY <1>1, <1>3, <1>4
  <2> QED
    BY <1>2, <2>1
<1>5. CASE p > 0
  <2>1. Head(q) = u + 1 /\ Head(q) # EndMark
    BY <1>1, <1>3, <1>5 DEF Waits, EndMark
  <2>2. p - 1 \in 0 .. Len(c) - 1 /\ u + 1 + (p - 1) = e /\ c[p - 1 + 1] = EndMark
    <3>1. p \in 1 .. Len(q) - 1
      BY <1>1, <1>5
    <3>2. c[p] = q[p + 1]
      BY <1>3, <3>1
    <3> QED
      BY <1>1, <1>3, <3>1, <3>2
  <2>3. ASSUME NEW i \in 1 .. p - 1 PROVE c[i] = u + 1 + i
    <3>1. i + 1 \in 1 .. p /\ i \in 1 .. Len(q) - 1
      BY <1>1, <1>3
    <3>2. c[i] = q[i + 1] /\ q[i + 1] = u + (i + 1)
      BY <1>1, <1>3, <3>1 DEF Waits
    <3> QED
      BY <3>2
  <2>4. Closed(c, u + 1, e)
    BY <2>2, <2>3 DEF Closed, Waits
  <2> QED
    BY <1>2, <2>1, <2>4 DEF c
<1> QED
  BY <1>1, <1>4, <1>5

\* The bounded buffer has the last lines.
LEMMA BufferStep ==
  ASSUME NEW s \in Seq(Nat), NEW m \in Nat, Len(s) <= m, Follows(s, m - Len(s)),
         NEW c, c = Cap(Append(s, m + 1))
  PROVE  c \in Seq(Nat) /\ Len(c) <= m + 1 /\ Follows(c, m + 1 - Len(c))
<1> DEFINE a == Append(s, m + 1)
           n == m - Len(s)
<1>1. a \in Seq(Nat) /\ Len(a) = Len(s) + 1 /\ a # <<>> /\ Len(s) \in Nat /\ n \in Nat
  BY Appended
<1>2. ASSUME NEW i \in 1 .. Len(a) PROVE a[i] = n + i
  <2>1. CASE i \in 1 .. Len(s)
    BY <2>1, Appended DEF Follows
  <2>2. CASE i = Len(s) + 1
    BY <2>2, Appended
  <2> QED
    BY <1>1, <2>1, <2>2
<1>3. CASE Len(a) > MaxBuffer
  <2>1. c = Tail(a)
    BY <1>3 DEF Cap
  <2>2. Tail(a) \in Seq(Nat) /\ Len(Tail(a)) = Len(s)
    BY <1>1, Shifted
  <2>3. ASSUME NEW i \in 1 .. Len(s) PROVE c[i] = n + 1 + i
    <3>1. c[i] = a[i + 1] /\ i + 1 \in 1 .. Len(a)
      BY <1>1, <2>1, Shifted
    <3> QED
      BY <1>1, <1>2, <3>1
  <2>4. m + 1 - Len(s) = n + 1
    BY <1>1
  <2>5. c \in Seq(Nat) /\ Len(c) = Len(s)
    BY <2>1, <2>2
  <2>6. Follows(c, m + 1 - Len(c))
    BY <2>3, <2>4, <2>5 DEF Follows
  <2>7. Len(c) <= m + 1
    BY <1>1, <2>5
  <2> QED
    BY <2>5, <2>6, <2>7
<1>4. CASE ~(Len(a) > MaxBuffer)
  <2>1. c = a /\ m + 1 - Len(a) = n
    BY <1>1, <1>4 DEF Cap
  <2>2. Follows(c, m + 1 - Len(c))
    BY <1>2, <2>1 DEF Follows
  <2>3. c \in Seq(Nat) /\ Len(c) = Len(s) + 1
    BY <1>1, <2>1
  <2> QED
    BY <1>1, <2>2, <2>3
<1> QED
  BY <1>3, <1>4

\* A line that the job says becomes the last of its buffer.
LEMMA SayingStep ==
  ASSUME Shape, Buffered, NEW k \in Kinds, made' = [made EXCEPT ![k] = made[k] + 1],
         buffer' = [buffer EXCEPT ![k] = Cap(Append(@, made[k] + 1))]
  PROVE  /\ made' \in [Kinds -> Nat] /\ buffer' \in [Kinds -> Seq(Nat)]
         /\ \A j \in Kinds : /\ made[j] <= made'[j]
                             /\ Len(buffer'[j]) <= made'[j]
                             /\ Follows(buffer'[j], made'[j] - Len(buffer'[j]))
<1> DEFINE c == Cap(Append(buffer[k], made[k] + 1))
<1>1. c \in Seq(Nat) /\ Len(c) <= made[k] + 1 /\ Follows(c, made[k] + 1 - Len(c))
  BY BufferStep DEF Shape, Buffered
<1>2. made'[k] = made[k] + 1 /\ buffer'[k] = c
  BY DEF Shape
<1>3. made' \in [Kinds -> Nat] /\ buffer' \in [Kinds -> Seq(Nat)]
  BY <1>1 DEF Shape
<1>4. ASSUME NEW j \in Kinds, j # k PROVE made'[j] = made[j] /\ buffer'[j] = buffer[j]
  BY <1>4 DEF Shape
<1> QED
  BY <1>1, <1>2, <1>3, <1>4 DEF Shape, Buffered

-----------------------------------------------------------------------------
(* What a step of the job does to its streams.                             *)

\* Nothing is said when the job starts, and nothing has been.
LEMMA InitInv == Init => IInv
<1> SUFFICES ASSUME Init PROVE IInv
  OBVIOUS
<1> QED
  BY ConstantsAssumption DEF Init, IInv, Shape, Buffered, Unattached, Follows, Kinds,
     Terminal, Readers

\* A step that leaves a stream, its lines and the end of the job alone keeps it.
LEMMA StreamKept ==
  ASSUME NEW r \in live, Stream(r),
         UNCHANGED <<at[r], left[r], queue[r], got[r], from[r], made[KindOf(r)],
                     atEnd[KindOf(r)]>>,
         Ended => Ended', status \in Terminal => status' \in Terminal
  PROVE  Stream(r)'
  BY DEF Stream, Queued, Upto, KindOf

\* What a live stream is.
LEMMA LiveReader ==
  ASSUME IInv, NEW r \in live
  PROVE  r \in Readers /\ KindOf(r) \in Kinds
  BY DEF IInv, Shape, KindOf, Kinds

\* The next line comes to the end of the queue, or behind the end mark.
LEMMA ToldLine ==
  ASSUME IInv, NEW r \in live, at[r] # "done",
         queue'[r] = queue[r] \o <<made[KindOf(r)] + 1>>,
         made'[KindOf(r)] = made[KindOf(r)] + 1,
         UNCHANGED <<at[r], left[r], got[r], from[r], atEnd[KindOf(r)], status, kept>>
  PROVE  Stream(r)'
<1>1. r \in Readers /\ KindOf(r) \in Kinds /\ Stream(r)
  BY LiveReader DEF IInv
<1>2. PICK u \in Nat : u = Upto(r) /\ u = Upto(r)'
  BY <1>1 DEF Upto, IInv, Shape
<1>3. PICK k \in Kinds : k = KindOf(r) /\ k = KindOf(r)'
  BY <1>1 DEF KindOf
<1>4. PICK m \in Nat, q \in Seq(Nat), e \in Nat :
        m = made[k] /\ q = queue[r] /\ e = atEnd[k]
  BY <1>1 DEF IInv, Shape
<1>10. PICK c : c = queue'[r]
  OBVIOUS
<1>5. c = q \o <<m + 1>> /\ <<m + 1>> \in Seq(Nat)
  BY <1>3, <1>4, <1>10
<1>6. Going(q, u, m) \/ (Closed(q, u, e) /\ status \in Terminal)
  BY <1>1, <1>2, <1>3, <1>4 DEF Stream, Queued
<1>7. Going(c, u, m + 1) \/ (Closed(c, u, e) /\ status' \in Terminal)
  BY <1>5, <1>6, GoingLine, ClosedMore
<1>8. c = queue[r]' /\ m + 1 = made[k]' /\ e = atEnd[k]'
  BY <1>3, <1>4, <1>10
<1>9. Queued(r)'
  BY <1>2, <1>3, <1>7, <1>8 DEF Queued
<1> QED
  BY <1>1, <1>9 DEF Stream, Follows, Ended, KindOf

\* With the end of the job the mark comes behind its last line.
LEMMA ToldEnd ==
  ASSUME IInv, NEW r \in live, at[r] # "done", status \in {"pending", "running"},
         status' \in Terminal,
         \/ queue'[r] = queue[r] \o <<EndMark>> /\ made'[KindOf(r)] = made[KindOf(r)]
         \/ /\ made'[KindOf(r)] = made[KindOf(r)] + 1
            /\ queue'[r] = queue[r] \o <<made[KindOf(r)] + 1, EndMark>>,
         atEnd'[KindOf(r)] = made'[KindOf(r)],
         UNCHANGED <<at[r], left[r], got[r], from[r]>>
  PROVE  Stream(r)'
<1>1. r \in Readers /\ KindOf(r) \in Kinds /\ Stream(r)
  BY LiveReader DEF IInv
<1>2. PICK u \in Nat : u = Upto(r) /\ u = Upto(r)'
  BY <1>1 DEF Upto, IInv, Shape
<1>3. PICK k \in Kinds : k = KindOf(r) /\ k = KindOf(r)'
  BY <1>1 DEF KindOf
<1>4. PICK m \in Nat, q \in Seq(Nat) : m = made[k] /\ q = queue[r]
  BY <1>1, <1>3 DEF IInv, Shape
<1>5. Going(q, u, m)
  BY <1>1, <1>2, <1>3, <1>4 DEF Stream, Queued, Terminal
<1>6. PICK e : e = atEnd'[k]
  OBVIOUS
<1>10. PICK c : c = queue'[r]
  OBVIOUS
<1>7. Closed(c, u, e)
  <2>1. CASE queue'[r] = queue[r] \o <<EndMark>> /\ made'[KindOf(r)] = made[KindOf(r)]
    BY <1>3, <1>4, <1>5, <1>6, <1>10, <2>1, GoingEnd
  <2>2. CASE /\ made'[KindOf(r)] = made[KindOf(r)] + 1
             /\ queue'[r] = queue[r] \o <<made[KindOf(r)] + 1, EndMark>>
    BY <1>3, <1>4, <1>5, <1>6, <1>10, <2>2, GoingLast
  <2> QED
    BY <2>1, <2>2
<1>8. c = queue[r]' /\ e = atEnd[k]'
  BY <1>6, <1>10
<1>9. Queued(r)'
  BY <1>2, <1>3, <1>7, <1>8 DEF Queued
<1> QED
  BY <1>1, <1>9 DEF Stream, Follows, Ended, KindOf, Terminal

-----------------------------------------------------------------------------
(* The steps of the job.                                                   *)

\* A step that moves no stream keeps the invariant if it keeps the buffers and
\* every live stream, and tells nothing to one that is not attached.
LEMMA JobStep ==
  ASSUME IInv, UNCHANGED <<at, left, got, live, from>>, kept' => kept,
         Shape', Buffered',
         \A r \in Readers : at[r] \in {"new", "table", "attach"} => queue'[r] = queue[r],
         \A r \in live : Stream(r)'
  PROVE  IInv'
<1>1. Unattached'
  BY DEF IInv, Unattached
<1> QED
  BY <1>1 DEF IInv

\* What Tell does to one queue.
LEMMA TellStep ==
  ASSUME IInv, NEW msgs \in [Kinds -> Seq(Nat)], Tell(msgs)
  PROVE  /\ queue' \in [Readers -> Seq(Nat)]
         /\ \A r \in Readers :
              queue'[r] = IF at[r] \in {"replay", "drain", "last", "live"}
                          THEN queue[r] \o msgs[KindOf(r)] ELSE queue[r]
<1>1. \A r \in Readers :
        /\ r \in Subscribers(KindOf(r)) <=> at[r] \in {"replay", "drain", "last", "live"}
        /\ queue[r] \in Seq(Nat) /\ queue[r] \o msgs[KindOf(r)] \in Seq(Nat)
  <2> SUFFICES ASSUME NEW r \in Readers
               PROVE  /\ r \in Subscribers(KindOf(r)) <=>
                           at[r] \in {"replay", "drain", "last", "live"}
                      /\ queue[r] \in Seq(Nat) /\ queue[r] \o msgs[KindOf(r)] \in Seq(Nat)
    OBVIOUS
  <2>1. r \in Subscribers(KindOf(r)) <=> at[r] \in {"replay", "drain", "last", "live"}
    BY DEF Subscribers
  <2>2. KindOf(r) \in Kinds
    BY DEF KindOf, Kinds
  <2>3. queue[r] \in Seq(Nat) /\ msgs[KindOf(r)] \in Seq(Nat)
    BY <2>2 DEF IInv, Shape
  <2> QED
    BY <2>1, <2>3, Joined
<1> QED
  BY <1>1 DEF Tell

\* start(): nothing is said.
LEMMA StartStep == IInv /\ Start => IInv'
<1> SUFFICES ASSUME IInv, Start PROVE IInv'
  OBVIOUS
<1> USE DEF Start, streams
<1>1. Shape'
  BY DEF IInv, Shape, Terminal
<1>2. Buffered'
  BY DEF IInv, Buffered
<1>3. ASSUME NEW r \in live PROVE Stream(r)'
  BY <1>3, StreamKept DEF IInv, Ended, Terminal
<1> QED
  BY <1>1, <1>2, <1>3, JobStep

\* An evicted record has ended, for every stream.
LEMMA EvictStep == IInv /\ Evict => IInv'
<1> SUFFICES ASSUME IInv, Evict PROVE IInv'
  OBVIOUS
<1> USE DEF Evict, streams, durable
<1>1. Shape'
  <2>1. buffer' \in [Kinds -> Seq(Nat)]
    <3>1. <<>> \in Seq(Nat)
      OBVIOUS
    <3> QED
      BY <3>1
  <2> QED
    BY <2>1 DEF IInv, Shape
<1>2. Buffered'
  BY DEF IInv, Shape, Buffered, Follows, Terminal
<1>3. ASSUME NEW r \in live PROVE Stream(r)'
  BY <1>3, StreamKept DEF IInv, Ended
<1> QED
  BY <1>1, <1>2, <1>3, JobStep

\* The table of events is not read by a live stream.
LEMMA AppendStep == IInv /\ (AppendEvent \/ AppendFails) => IInv'
<1> SUFFICES ASSUME IInv, AppendEvent \/ AppendFails PROVE IInv'
  OBVIOUS
<1>1. UNCHANGED <<job, streams>>
  BY DEF AppendEvent, AppendFails
<1> QED
  BY <1>1 DEF IInv, Shape, Buffered, Unattached, Stream, Queued, Upto, Ended, job, streams

\* A line goes to the streams of its kind; the others are told nothing.
LEMMA EmitStep == ASSUME IInv, NEW k \in Kinds, Emit(k) PROVE IInv'
<1> DEFINE msgs == [j \in Kinds |-> IF j = k THEN <<made[k] + 1>> ELSE <<>>]
<1>1. /\ made' = [made EXCEPT ![k] = made[k] + 1]
      /\ buffer' = [buffer EXCEPT ![k] = Cap(Append(@, made[k] + 1))]
      /\ Tell(msgs)
      /\ UNCHANGED <<status, kept, worker, atEnd, faults, at, left, got, live, from>>
  BY DEF Emit
<1>2. made[k] \in Nat /\ msgs \in [Kinds -> Seq(Nat)]
  <2>1. made[k] \in Nat
    BY DEF IInv, Shape
  <2>2. <<made[k] + 1>> \in Seq(Nat) /\ <<>> \in Seq(Nat)
    BY <2>1
  <2> QED
    BY <2>1, <2>2
<1>3. \A j \in Kinds : msgs[j] = IF j = k THEN <<made[k] + 1>> ELSE <<>>
  OBVIOUS
<1> HIDE DEF msgs
<1>4. /\ queue' \in [Readers -> Seq(Nat)]
      /\ \A r \in Readers :
           queue'[r] = IF at[r] \in {"replay", "drain", "last", "live"}
                       THEN queue[r] \o msgs[KindOf(r)] ELSE queue[r]
  BY <1>1, <1>2, TellStep
<1>5. /\ made' \in [Kinds -> Nat] /\ buffer' \in [Kinds -> Seq(Nat)]
      /\ \A j \in Kinds : /\ made[j] <= made'[j]
                          /\ Len(buffer'[j]) <= made'[j]
                          /\ Follows(buffer'[j], made'[j] - Len(buffer'[j]))
  BY <1>1, SayingStep DEF IInv
<1>6. Shape'
  BY <1>1, <1>4, <1>5 DEF IInv, Shape
<1>7. Buffered'
  <2>1. \A j \in Kinds : atEnd[j] \in Nat /\ atEnd[j] <= made[j] /\ made[j] \in Nat
                         /\ made'[j] \in Nat
    BY <1>5 DEF IInv, Shape, Buffered
  <2>2. \A j \in Kinds : atEnd'[j] <= made'[j]
    BY <1>1, <1>5, <2>1
  <2> QED
    BY <1>1, <1>5, <2>2 DEF IInv, Buffered
<1>8. ASSUME NEW r \in live PROVE Stream(r)'
  <2>1. r \in Readers /\ KindOf(r) \in Kinds /\ Stream(r)
    BY LiveReader DEF IInv
  <2>2. queue[r] \in Seq(Nat)
    BY <2>1 DEF IInv, Shape
  <2>3. CASE at[r] = "done"
    <3>1. queue'[r] = queue[r]
      BY <1>4, <2>1, <2>3
    <3> QED
      BY <1>1, <2>1, <2>3, <3>1 DEF Stream, Ended, KindOf
  <2>4. CASE at[r] # "done" /\ KindOf(r) = k
    <3>1. queue'[r] = queue[r] \o <<made[KindOf(r)] + 1>>
      BY <1>3, <1>4, <2>1, <2>4 DEF Stream
    <3>2. made'[KindOf(r)] = made[KindOf(r)] + 1
      BY <1>1, <2>1, <2>4 DEF IInv, Shape
    <3> QED
      BY <1>1, <2>4, <3>1, <3>2, ToldLine
  <2>5. CASE at[r] # "done" /\ KindOf(r) # k
    <3>1. queue'[r] = queue[r]
      <4>1. queue'[r] = queue[r] \o <<>>
        BY <1>3, <1>4, <2>1, <2>5 DEF Stream
      <4> QED
        BY <2>2, <4>1
    <3>2. made'[KindOf(r)] = made[KindOf(r)]
      BY <1>1, <2>1, <2>5 DEF IInv, Shape
    <3> QED
      BY <1>1, <2>1, <3>1, <3>2, StreamKept DEF Ended
  <2> QED
    BY <2>3, <2>4, <2>5
<1>9. \A r \in Readers : at[r] \in {"new", "table", "attach"} => queue'[r] = queue[r]
  BY <1>4
<1> QED
  BY <1>1, <1>6, <1>7, <1>8, <1>9, JobStep

\* The end of the job: its last line to the streams of the log, and the end mark
\* to all.
LEMMA EndStep == ASSUME IInv, NEW s \in Terminal, End(s) PROVE IInv'
<1>1. /\ status \in {"pending", "running"} /\ status' = s /\ atEnd' = made'
      /\ UNCHANGED <<kept, faults, at, left, got, live, from>>
  BY DEF End
<1>0. made["log"] \in Nat
  BY DEF IInv, Shape, Kinds
<1>2. PICK n \in Nat : n = made["log"] + 1
  BY <1>0
<1> DEFINE Good ==
      [j \in Kinds |-> <<EndMark>>]
<1> DEFINE Bad ==
      [j \in Kinds |-> IF j = "log" THEN <<n, EndMark>> ELSE <<EndMark>>]
<1>3. /\ Good \in [Kinds -> Seq(Nat)] /\ Bad \in [Kinds -> Seq(Nat)]
      /\ \A j \in Kinds : Good[j] = <<EndMark>>
      /\ \A j \in Kinds : Bad[j] = IF j = "log" THEN <<n, EndMark>> ELSE <<EndMark>>
  <2>1. <<EndMark>> \in Seq(Nat) /\ <<n, EndMark>> \in Seq(Nat)
    BY DEF EndMark
  <2> QED
    BY <2>1
<1>4. \/ UNCHANGED <<made, buffer>> /\ Tell(Good)
      \/ /\ made' = [made EXCEPT !["log"] = made["log"] + 1]
         /\ buffer' = [buffer EXCEPT !["log"] = Cap(Append(@, made["log"] + 1))]
         /\ Tell(Bad)
  BY <1>2 DEF End
<1> HIDE DEF Good, Bad
<1>5. /\ made' \in [Kinds -> Nat] /\ buffer' \in [Kinds -> Seq(Nat)]
      /\ \A j \in Kinds : /\ made[j] <= made'[j]
                          /\ Len(buffer'[j]) <= made'[j]
                          /\ Follows(buffer'[j], made'[j] - Len(buffer'[j]))
  <2>1. CASE UNCHANGED <<made, buffer>>
    BY <2>1 DEF IInv, Shape, Buffered
  <2>2. CASE /\ made' = [made EXCEPT !["log"] = made["log"] + 1]
             /\ buffer' = [buffer EXCEPT !["log"] = Cap(Append(@, made["log"] + 1))]
    <3>1. "log" \in Kinds
      BY DEF Kinds
    <3> QED
      BY <2>2, <3>1, SayingStep DEF IInv
  <2> QED
    BY <1>4, <2>1, <2>2
<1>6. PICK msgs \in [Kinds -> Seq(Nat)] :
        /\ Tell(msgs)
        /\ \/ msgs = Good /\ made' = made
           \/ msgs = Bad /\ made' = [made EXCEPT !["log"] = made["log"] + 1]
  BY <1>3, <1>4
<1>7. /\ queue' \in [Readers -> Seq(Nat)]
      /\ \A r \in Readers :
           queue'[r] = IF at[r] \in {"replay", "drain", "last", "live"}
                       THEN queue[r] \o msgs[KindOf(r)] ELSE queue[r]
  BY <1>6, TellStep
<1>8. Shape'
  BY <1>1, <1>5, <1>7 DEF IInv, Shape
<1>9. Buffered'
  <2>1. \A j \in Kinds : atEnd'[j] <= made'[j]
    BY <1>1, <1>5
  <2> QED
    BY <1>1, <1>5, <2>1 DEF IInv, Buffered, Terminal
<1>10. ASSUME NEW r \in live PROVE Stream(r)'
  <2>1. r \in Readers /\ KindOf(r) \in Kinds /\ Stream(r)
    BY LiveReader DEF IInv
  <2>2. at[r] # "done" /\ at[r] \in {"replay", "drain", "last", "live"}
    BY <1>1, <2>1 DEF IInv, Buffered, Stream, Ended, Terminal
  <2>3. queue'[r] = queue[r] \o msgs[KindOf(r)]
    BY <1>7, <2>1, <2>2
  <2>4. CASE made' = made /\ msgs[KindOf(r)] = <<EndMark>>
    BY <1>1, <2>2, <2>3, <2>4, ToldEnd
  <2>5. CASE made' = [made EXCEPT !["log"] = made["log"] + 1] /\ KindOf(r) # "log"
             /\ msgs[KindOf(r)] = <<EndMark>>
    <3>1. made'[KindOf(r)] = made[KindOf(r)]
      BY <2>1, <2>5 DEF IInv, Shape
    <3> QED
      BY <1>1, <2>2, <2>3, <2>5, <3>1, ToldEnd
  <2>6. CASE made' = [made EXCEPT !["log"] = made["log"] + 1] /\ KindOf(r) = "log"
             /\ msgs[KindOf(r)] = <<n, EndMark>>
    <3>1. made'[KindOf(r)] = made[KindOf(r)] + 1
      BY <2>1, <2>6 DEF IInv, Shape
    <3>2. queue'[r] = queue[r] \o <<made[KindOf(r)] + 1, EndMark>>
      BY <1>2, <2>3, <2>6
    <3> QED
      BY <1>1, <2>2, <3>1, <3>2, ToldEnd
  <2> QED
    BY <1>3, <1>6, <2>1, <2>4, <2>5, <2>6
<1>11. \A r \in Readers : at[r] \in {"new", "table", "attach"} => queue'[r] = queue[r]
  BY <1>7
<1> QED
  BY <1>1, <1>8, <1>9, <1>10, <1>11, JobStep

\* Only streams that had ended survive the server.
LEMMA RestartStep == IInv /\ Restart => IInv'
<1> SUFFICES ASSUME IInv, Restart PROVE IInv'
  OBVIOUS
<1>1. Shape'
  <2>1. <<>> \in Seq(Nat)
    OBVIOUS
  <2>2. buffer' \in [Kinds -> Seq(Nat)] /\ left' \in [Readers -> Seq(Nat)]
        /\ queue' \in [Readers -> Seq(Nat)]
    BY <2>1 DEF Restart
  <2>3. /\ at' \in [Readers -> {"new", "table", "attach", "replay", "drain", "last",
                                "live", "done", "gone"}]
        /\ from' \in [Readers -> Nat]
        /\ got' = [r \in Readers |-> got'[r]]
    BY DEF IInv, Shape, Restart
  <2>4. live' \subseteq Readers /\ \A r \in live' : got'[r] \in Seq(Nat)
    BY DEF IInv, Shape, Restart
  <2>5. status' \in Terminal \union {"pending", "running", "lost"}
    BY DEF IInv, Shape, Restart
  <2> QED
    BY <2>2, <2>3, <2>4, <2>5 DEF IInv, Shape, Restart
<1>2. Buffered'
  BY DEF IInv, Shape, Restart, Buffered, Follows, Terminal
<1>3. Unattached'
  BY DEF IInv, Shape, Restart, Unattached
<1>4. ASSUME NEW r \in live' PROVE Stream(r)'
  <2>1. r \in live /\ at[r] = "done" /\ at'[r] = "done" /\ Stream(r) /\ r \in Readers
    BY DEF IInv, Shape, Restart, Stream
  <2>2. /\ got'[r] = got[r] /\ from'[r] = from[r] /\ left'[r] = <<>> /\ atEnd' = atEnd
        /\ kept' = FALSE
    BY <2>1 DEF Restart
  <2> QED
    BY <2>1, <2>2 DEF Stream, Follows, Ended, KindOf
<1> QED
  BY <1>1, <1>2, <1>3, <1>4 DEF IInv

-----------------------------------------------------------------------------
(* The steps of a stream.                                                  *)

\* The next line that is yielded continues those before it.
LEMMA Yielded ==
  ASSUME NEW g \in Seq(Nat), NEW f \in Nat, Follows(g, f), NEW c,
         c = Append(g, f + Len(g) + 1)
  PROVE  c \in Seq(Nat) /\ Len(c) = Len(g) + 1 /\ Follows(c, f)
<1>1. PICK n \in Nat : n = Len(g)
  OBVIOUS
<1>2. PICK x \in Nat : x = f + n + 1
  OBVIOUS
<1>3. /\ c \in Seq(Nat) /\ Len(c) = n + 1 /\ c[n + 1] = x
      /\ \A i \in 1 .. n : c[i] = g[i]
  BY <1>1, <1>2, Appended
<1>4. \A i \in 1 .. n : g[i] = f + i
  BY <1>1 DEF Follows
<1>5. \A i \in 1 .. n + 1 : c[i] = f + i
  <2> SUFFICES ASSUME NEW i \in 1 .. n + 1 PROVE c[i] = f + i
    OBVIOUS
  <2>1. i \in 1 .. n \/ i = n + 1
    OBVIOUS
  <2>2. f + (n + 1) = x
    BY <1>2
  <2> QED
    BY <1>3, <1>4, <2>1, <2>2
<1> QED
  BY <1>1, <1>3, <1>5 DEF Follows

\* The lines that are left go on after the one that was taken.
LEMMA Taken ==
  ASSUME NEW s \in Seq(Nat), NEW a \in Nat, s # <<>>, Follows(s, a)
  PROVE  /\ Head(s) = a + 1 /\ Tail(s) \in Seq(Nat) /\ Len(Tail(s)) = Len(s) - 1
         /\ Len(s) \in Nat /\ Follows(Tail(s), a + 1)
<1>1. Going(s, a, a + Len(s))
  BY DEF Going, Waits, Follows
<1>2. Head(s) = a + 1 /\ Going(Tail(s), a + 1, a + Len(s))
  <2>1. a + Len(s) \in Nat
    OBVIOUS
  <2> QED
    BY <1>1, <2>1, GoingReceive
<1>3. Tail(s) \in Seq(Nat) /\ Len(Tail(s)) = Len(s) - 1 /\ Len(s) \in Nat
  BY Shifted
<1> QED
  BY <1>2, <1>3 DEF Going, Waits, Follows

\* A step of one stream keeps the invariant if it keeps what that stream has.
LEMMA ReaderKeeps ==
  ASSUME IInv, NEW r \in Readers, UNCHANGED job, Shape', live' \ {r} = live \ {r},
         \A s \in Readers : s # r =>
            UNCHANGED <<at[s], left[s], queue[s], got[s], from[s]>>,
         /\ at'[r] \in {"new", "table", "attach"} =>
              left'[r] = <<>> /\ queue'[r] = <<>> /\ r \notin live'
         /\ at'[r] = "table" => ~kept
         /\ at'[r] \in {"new", "attach"} /\ kept => got'[r] = <<>>,
         r \in live' => Stream(r)'
  PROVE  IInv'
<1>1. Buffered'
  BY DEF IInv, Buffered, job
<1>2. Unattached'
  <2> SUFFICES ASSUME NEW s \in Readers
               PROVE  (/\ at[s] \in {"new", "table", "attach"} =>
                            left[s] = <<>> /\ queue[s] = <<>> /\ s \notin live
                       /\ at[s] = "table" => ~kept
                       /\ at[s] \in {"new", "attach"} /\ kept => got[s] = <<>>)'
    BY DEF Unattached
  <2>1. CASE s = r
    BY <2>1 DEF job
  <2>2. CASE s # r
    BY <2>2 DEF IInv, Unattached, job
  <2> QED
    BY <2>1, <2>2
<1>3. ASSUME NEW s \in live' PROVE Stream(s)'
  <2>1. CASE s = r
    BY <1>3, <2>1
  <2>2. CASE s # r
    <3>1. s \in live /\ s \in Readers /\ Stream(s)
      BY <1>3, <2>2 DEF IInv, Shape
    <3>2. /\ UNCHANGED <<at[s], left[s], queue[s], got[s], from[s], made[KindOf(s)],
                         atEnd[KindOf(s)]>>
          /\ Ended => Ended'
          /\ status \in Terminal => status' \in Terminal
      BY <2>2, <3>1 DEF job, Ended
    <3> QED
      BY <3>1, <3>2, StreamKept
  <2> QED
    BY <2>1, <2>2
<1> QED
  BY <1>1, <1>2, <1>3 DEF IInv

\* A stream that is opened has nothing yet.
LEMMA OpenStep == ASSUME IInv, NEW r \in Readers, Open(r) PROVE IInv'
<1>1. Shape'
  BY DEF IInv, Shape, Open, job
<1>2. UNCHANGED <<job, live, left, queue, got, from>> /\ at[r] = "new"
  BY DEF Open
<1>3. at'[r] = IF kept THEN "attach" ELSE IF r \in LogReaders THEN "table" ELSE "done"
  BY DEF Open, IInv, Shape
<1>4. \A s \in Readers : s # r => at'[s] = at[s]
  BY DEF Open, IInv, Shape
<1>5. left[r] = <<>> /\ queue[r] = <<>> /\ r \notin live /\ (kept => got[r] = <<>>)
  BY <1>2 DEF IInv, Unattached
<1> QED
  BY <1>1, <1>2, <1>3, <1>4, <1>5, ReaderKeeps

\* A replay from the table is not live.
LEMMA TableStep == ASSUME IInv, NEW r \in Readers, ReplayTable(r) PROVE IInv'
<1>1. UNCHANGED <<job, live, left, queue, from>> /\ at[r] = "table"
  BY DEF ReplayTable
<1>2. left[r] = <<>> /\ queue[r] = <<>> /\ r \notin live /\ ~kept
  BY <1>1 DEF IInv, Unattached
<1>3. PICK x : got' = [got EXCEPT ![r] = x] /\ at' = [at EXCEPT ![r] = "attach"]
  BY DEF ReplayTable
<1>4. got' = [s \in Readers |-> got'[s]] /\ \A s \in Readers : s # r => got'[s] = got[s]
  BY <1>3 DEF IInv, Shape
<1>5. at'[r] = "attach" /\ \A s \in Readers : s # r => at'[s] = at[s]
  BY <1>3 DEF IInv, Shape
<1>6. Shape'
  <2>1. \A s \in live' : got'[s] \in Seq(Nat)
    BY <1>1, <1>2, <1>4 DEF IInv, Shape
  <2> QED
    BY <1>1, <1>3, <1>4, <2>1 DEF IInv, Shape, job
<1> QED
  BY <1>1, <1>2, <1>4, <1>5, <1>6, ReaderKeeps

\* The buffer and the queue together have all lines that a live stream will yield.
LEMMA AttachStep == ASSUME IInv, NEW r \in Readers, Attach(r) PROVE IInv'
<1>1. /\ UNCHANGED <<job, queue>> /\ at[r] = "attach"
      /\ live' = IF kept THEN live \union {r} ELSE live
  BY DEF Attach
<1>2. PICK k \in Kinds : k = KindOf(r) /\ k = KindOf(r)'
  BY DEF KindOf, Kinds
<1>3. PICK b \in Seq(Nat), m \in Nat, f \in Nat :
        b = buffer[k] /\ m = made[k] /\ f = m - Len(b) /\ Follows(b, f) /\ f + Len(b) = m
        /\ atEnd[k] \in Nat /\ atEnd[k] <= m
  <2>1. buffer[k] \in Seq(Nat) /\ made[k] \in Nat /\ Len(buffer[k]) \in Nat
        /\ Len(buffer[k]) <= made[k] /\ Follows(buffer[k], made[k] - Len(buffer[k]))
        /\ atEnd[k] \in Nat /\ atEnd[k] <= made[k]
    BY DEF IInv, Shape, Buffered
  <2>2. made[k] - Len(buffer[k]) \in Nat
        /\ made[k] - Len(buffer[k]) + Len(buffer[k]) = made[k]
    BY <2>1
  <2> QED
    BY <2>1, <2>2
<1>4. /\ left[r] = <<>> /\ queue[r] = <<>> /\ r \notin live /\ (kept => got[r] = <<>>)
  BY <1>1 DEF IInv, Unattached
<1>5. from' = [from EXCEPT ![r] = f] /\ from'[r] = f
  BY <1>2, <1>3 DEF Attach, IInv, Shape
<1>6. /\ live' \ {r} = live \ {r} /\ (r \in live' => kept) /\ live' \subseteq Readers
      /\ \A s \in live' : s # r => s \in live
  BY <1>1, <1>4 DEF IInv, Shape
<1>7. CASE r \in LogReaders
  <2>1. left' = [left EXCEPT ![r] = b] /\ at' = [at EXCEPT ![r] = "replay"] /\ got' = got
    BY <1>2, <1>3, <1>7 DEF Attach, KindOf
  <2>2. left'[r] = b /\ at'[r] = "replay"
        /\ \A s \in Readers : s # r => UNCHANGED <<at[s], left[s], queue[s], got[s], from[s]>>
    BY <1>1, <1>5, <2>1 DEF IInv, Shape
  <2>3. Shape'
    <3>1. \A s \in live' : got'[s] \in Seq(Nat)
      BY <1>4, <1>6, <2>1 DEF IInv, Shape
    <3> QED
      BY <1>1, <1>3, <1>5, <1>6, <2>1, <3>1 DEF IInv, Shape, job
  <2>4. ASSUME r \in live' PROVE Stream(r)'
    <3>1. got'[r] = <<>>
      BY <1>4, <1>6, <2>1, <2>4
    <3>2. Going(<<>>, m, m)
      BY DEF Going, Waits
    <3>3. Upto(r)' = m
      BY <1>3, <1>5, <2>2, <3>1 DEF Upto
    <3>4. made'[k] = m /\ queue'[r] = <<>>
      BY <1>1, <1>3, <1>4 DEF job
    <3>5. Queued(r)'
      BY <1>2, <3>2, <3>3, <3>4 DEF Queued
    <3>6. Follows(got[r], from[r])'
      BY <3>1 DEF Follows
    <3>7. Follows(left[r], from[r] + Len(got[r]))'
      BY <1>3, <1>5, <2>2, <3>1
    <3> QED
      BY <2>2, <3>5, <3>6, <3>7 DEF Stream
  <2> QED
    BY <1>1, <1>6, <2>2, <2>3, <2>4, ReaderKeeps
<1>8. CASE r \notin LogReaders
  <2>1. /\ got' = [got EXCEPT ![r] = b] /\ left' = left
        /\ at' = [at EXCEPT ![r] = IF kept /\ status \in Terminal THEN "done" ELSE "live"]
    BY <1>2, <1>3, <1>8 DEF Attach, KindOf
  <2>2. /\ got'[r] = b /\ at'[r] = IF kept /\ status \in Terminal THEN "done" ELSE "live"
        /\ \A s \in Readers : s # r => UNCHANGED <<at[s], left[s], queue[s], got[s], from[s]>>
    BY <1>1, <1>5, <2>1 DEF IInv, Shape
  <2>3. Shape'
    <3>1. \A s \in live' : got'[s] \in Seq(Nat)
      BY <1>3, <1>6, <2>2 DEF IInv, Shape
    <3> QED
      BY <1>1, <1>3, <1>5, <1>6, <2>1, <3>1 DEF IInv, Shape, job
  <2>4. ASSUME r \in live' PROVE Stream(r)'
    <3>1. left'[r] = <<>>
      BY <1>4, <2>1
    <3>2. Going(<<>>, m, m)
      BY DEF Going, Waits
    <3>3. Upto(r)' = m
      BY <1>3, <1>5, <2>2, <3>1 DEF Upto
    <3>4. made'[k] = m /\ queue'[r] = <<>> /\ atEnd'[k] = atEnd[k]
      BY <1>1, <1>3, <1>4 DEF job
    <3>5. Queued(r)'
      BY <1>2, <3>2, <3>3, <3>4 DEF Queued
    <3>6. Follows(got[r], from[r])'
      BY <1>3, <1>5, <2>2
    <3>7. Follows(left[r], from[r] + Len(got[r]))'
      BY <3>1 DEF Follows
    <3>8. at'[r] = "done" => Ended'
      BY <1>1, <2>2 DEF Ended, job
    <3>9. from'[r] + Len(got'[r]) >= atEnd'[k]
      BY <1>3, <1>5, <2>2, <3>4
    <3> QED
      BY <1>2, <2>2, <3>1, <3>5, <3>6, <3>7, <3>8, <3>9 DEF Stream
  <2> QED
    BY <1>1, <1>6, <2>2, <2>3, <2>4, ReaderKeeps
<1> QED
  BY <1>7, <1>8

\* A line of the copied buffer is yielded, or the job is looked at.
LEMMA ReplayStep == ASSUME IInv, NEW r \in Readers, ReplayLine(r) PROVE IInv'
<1>1. UNCHANGED <<job, queue, live, from>> /\ at[r] = "replay"
  BY DEF ReplayLine
<1>2. CASE left[r] # <<>>
  <2>1. /\ got' = [got EXCEPT ![r] = Append(@, Head(left[r]))]
        /\ left' = [left EXCEPT ![r] = Tail(@)] /\ at' = at
    BY <1>2 DEF ReplayLine
  <2>2. /\ got'[r] = Append(got[r], Head(left[r])) /\ left'[r] = Tail(left[r])
        /\ \A s \in Readers : s # r => UNCHANGED <<at[s], left[s], queue[s], got[s], from[s]>>
    BY <1>1, <2>1 DEF IInv, Shape
  <2>3. left[r] \in Seq(Nat) /\ Head(left[r]) \in Nat /\ Tail(left[r]) \in Seq(Nat)
    <3>1. left[r] \in Seq(Nat)
      BY DEF IInv, Shape
    <3> QED
      BY <1>2, <3>1, Shifted
  <2>4. Shape'
    <3>1. \A s \in live' : got'[s] \in Seq(Nat)
      <4>1. ASSUME r \in live PROVE Append(got[r], Head(left[r])) \in Seq(Nat)
        BY <2>3, <4>1, Appended DEF IInv, Shape
      <4> QED
        BY <1>1, <2>2, <4>1 DEF IInv, Shape
    <3> QED
      BY <1>1, <2>1, <2>3, <3>1 DEF IInv, Shape, job
  <2>5. ASSUME r \in live PROVE Stream(r)'
    <3>1. Stream(r) /\ got[r] \in Seq(Nat) /\ from[r] \in Nat /\ left[r] \in Seq(Nat)
      BY <2>5 DEF IInv, Shape
    <3>2. PICK g \in Seq(Nat), h \in Seq(Nat), f \in Nat :
            /\ g = got[r] /\ h = left[r] /\ f = from[r] /\ h # <<>>
            /\ Follows(g, f) /\ Follows(h, f + Len(g))
      BY <1>2, <3>1 DEF Stream
    <3>3. PICK n \in Nat, j \in Nat : n = Len(g) /\ j = Len(h) /\ f + n \in Nat
      OBVIOUS
    <3>4. /\ Head(h) = f + n + 1 /\ Len(Tail(h)) = j - 1 /\ Follows(Tail(h), f + n + 1)
      BY <3>2, <3>3, Taken
    <3>5. PICK c : c = got'[r]
      OBVIOUS
    <3>6. PICK d : d = left'[r]
      OBVIOUS
    <3>7. c = Append(g, f + Len(g) + 1) /\ d = Tail(h) /\ from'[r] = f
      BY <1>1, <2>2, <3>2, <3>3, <3>4, <3>5, <3>6
    <3>8. Len(c) = n + 1 /\ Follows(c, f)
      BY <3>2, <3>3, <3>7, Yielded
    <3>9. Follows(got[r], from[r])'
      BY <3>5, <3>7, <3>8
    <3>10. Follows(left[r], from[r] + Len(got[r]))'
      <4>1. f + n + 1 = f + (n + 1)
        OBVIOUS
      <4>2. Follows(d, f + (n + 1))
        BY <3>4, <3>7, <4>1
      <4> QED
        BY <3>5, <3>6, <3>7, <3>8, <4>2
    <3>11. Upto(r)' = Upto(r)
      <4>1. Upto(r) = f + n + j
        BY <3>2, <3>3 DEF Upto
      <4>2. Upto(r)' = f + (n + 1) + (j - 1)
        BY <3>4, <3>5, <3>6, <3>7, <3>8 DEF Upto
      <4> QED
        BY <4>1, <4>2
    <3>12. Queued(r)'
      BY <1>1, <3>1, <3>11 DEF Stream, Queued, job, KindOf
    <3> QED
      BY <1>1, <2>1, <3>9, <3>10, <3>12 DEF Stream
  <2> QED
    BY <1>1, <2>1, <2>2, <2>4, <2>5, ReaderKeeps
<1>3. CASE left[r] = <<>>
  <2>1. at' = [at EXCEPT ![r] = IF Ended THEN "last" ELSE "drain"] /\ UNCHANGED <<got, left>>
    BY <1>3 DEF ReplayLine
  <2>2. /\ at'[r] = IF Ended THEN "last" ELSE "drain"
        /\ \A s \in Readers : s # r => UNCHANGED <<at[s], left[s], queue[s], got[s], from[s]>>
    BY <1>1, <2>1 DEF IInv, Shape
  <2>3. Shape'
    BY <1>1, <2>1 DEF IInv, Shape, job
  <2>4. ASSUME r \in live PROVE Stream(r)'
    <3>1. Stream(r)
      BY <2>4 DEF IInv
    <3>2. Queued(r)'
      BY <1>1, <2>1, <3>1 DEF Stream, Queued, Upto, job, KindOf
    <3> QED
      BY <1>1, <1>3, <2>1, <2>2, <3>1, <3>2 DEF Stream, Ended, job
  <2> QED
    BY <1>1, <2>2, <2>3, <2>4, ReaderKeeps
<1> QED
  BY <1>2, <1>3

\* A stream ends with the mark, and otherwise yields what waits in its queue.
LEMMA ReceiveStep == ASSUME IInv, NEW r \in Readers, Receive(r) PROVE IInv'
<1>1. /\ UNCHANGED <<job, live, from>> /\ queue[r] # <<>>
      /\ at[r] \in {"drain", "last", "live"}
  BY DEF Receive
<1>2. queue[r] \in Seq(Nat) /\ Head(queue[r]) \in Nat /\ Tail(queue[r]) \in Seq(Nat)
  <2>1. queue[r] \in Seq(Nat)
    BY DEF IInv, Shape
  <2> QED
    BY <1>1, <2>1, Shifted
<1>3. PICK k \in Kinds : k = KindOf(r) /\ k = KindOf(r)'
  BY DEF KindOf, Kinds
<1>4. ASSUME r \in live
      PROVE  /\ Stream(r) /\ left[r] = <<>> /\ got[r] \in Seq(Nat) /\ from[r] \in Nat
             /\ made[k] \in Nat /\ atEnd[k] \in Nat /\ Len(got[r]) \in Nat
             /\ Upto(r) = from[r] + Len(got[r]) /\ Upto(r) \in Nat
  <2>1. Stream(r) /\ left[r] = <<>> /\ got[r] \in Seq(Nat) /\ from[r] \in Nat
        /\ made[k] \in Nat /\ atEnd[k] \in Nat
    BY <1>1, <1>4 DEF IInv, Shape, Stream
  <2> QED
    BY <2>1 DEF Upto
<1>5. CASE Head(queue[r]) = EndMark
  <2>1. /\ at' = [at EXCEPT ![r] = "done"] /\ queue' = [queue EXCEPT ![r] = <<>>]
        /\ left' = [left EXCEPT ![r] = <<>>] /\ got' = got
    BY <1>5 DEF Receive, Leave
  <2>2. /\ at'[r] = "done" /\ left'[r] = <<>>
        /\ \A s \in Readers : s # r => UNCHANGED <<at[s], left[s], queue[s], got[s], from[s]>>
    BY <1>1, <2>1 DEF IInv, Shape
  <2>3. Shape'
    <3>1. <<>> \in Seq(Nat)
      OBVIOUS
    <3> QED
      BY <1>1, <2>1, <3>1 DEF IInv, Shape, job
  <2>4. ASSUME r \in live PROVE Stream(r)'
    <3>1. ~Going(queue[r], Upto(r), made[k])
      <4> SUFFICES ASSUME Going(queue[r], Upto(r), made[k]) PROVE FALSE
        OBVIOUS
      <4>1. Head(queue[r]) = Upto(r) + 1
        BY <1>1, <1>2, <1>4, <2>4, GoingReceive
      <4> QED
        BY <1>4, <1>5, <2>4, <4>1 DEF EndMark
    <3>2. Closed(queue[r], Upto(r), atEnd[k]) /\ status \in Terminal
      BY <1>1, <1>3, <1>4, <2>4, <3>1 DEF Stream, Queued
    <3>3. Upto(r) = atEnd[k]
      BY <1>2, <1>4, <1>5, <2>4, <3>2, ClosedReceive
    <3>4. from'[r] + Len(got'[r]) >= atEnd'[k]
      BY <1>1, <1>4, <2>1, <2>4, <3>3 DEF job
    <3>5. Ended'
      BY <1>1, <3>2 DEF Ended, job
    <3>6. Follows(got[r], from[r])' /\ Follows(left[r], from[r] + Len(got[r]))'
      BY <1>1, <1>4, <2>1, <2>2, <2>4 DEF Stream, Follows
    <3> QED
      BY <1>3, <2>2, <3>4, <3>5, <3>6 DEF Stream
  <2> QED
    BY <1>1, <2>2, <2>3, <2>4, ReaderKeeps
<1>6. CASE Head(queue[r]) # EndMark
  <2>1. /\ got' = [got EXCEPT ![r] = Append(@, Head(queue[r]))]
        /\ queue' = [queue EXCEPT ![r] = Tail(@)] /\ UNCHANGED <<at, left>>
    BY <1>6 DEF Receive
  <2>2. /\ got'[r] = Append(got[r], Head(queue[r])) /\ queue'[r] = Tail(queue[r])
        /\ \A s \in Readers : s # r => UNCHANGED <<at[s], left[s], queue[s], got[s], from[s]>>
    BY <1>1, <2>1 DEF IInv, Shape
  <2>3. Shape'
    <3>1. \A s \in live' : got'[s] \in Seq(Nat)
      <4>1. ASSUME r \in live PROVE Append(got[r], Head(queue[r])) \in Seq(Nat)
        BY <1>2, <1>4, <4>1, Appended
      <4> QED
        BY <1>1, <2>2, <4>1 DEF IInv, Shape
    <3> QED
      BY <1>1, <1>2, <2>1, <3>1 DEF IInv, Shape, job
  <2>4. ASSUME r \in live PROVE Stream(r)'
    <3>1. PICK u \in Nat, f \in Nat, g \in Seq(Nat), q \in Seq(Nat), m \in Nat, e \in Nat :
            /\ u = Upto(r) /\ f = from[r] /\ g = got[r] /\ q = queue[r] /\ m = made[k]
            /\ e = atEnd[k] /\ u = f + Len(g) /\ Follows(g, f)
      BY <1>2, <1>4, <2>4 DEF Stream
    <3>2. Going(q, u, m) \/ (Closed(q, u, e) /\ status \in Terminal)
      BY <1>1, <1>3, <1>4, <2>4, <3>1 DEF Stream, Queued
    <3>3. /\ Head(q) = u + 1
          /\ Going(Tail(q), u + 1, m) \/ (Closed(Tail(q), u + 1, e) /\ status \in Terminal)
      <4>1. CASE Going(q, u, m)
        BY <1>1, <3>1, <4>1, GoingReceive
      <4>2. CASE Closed(q, u, e) /\ status \in Terminal
        BY <1>6, <3>1, <4>2, ClosedReceive
      <4> QED
        BY <3>2, <4>1, <4>2
    <3>4. PICK c : c = got'[r]
      OBVIOUS
    <3>5. c = Append(g, f + Len(g) + 1) /\ from'[r] = f /\ left'[r] = <<>>
      BY <1>1, <1>4, <2>1, <2>2, <2>4, <3>1, <3>3, <3>4
    <3>6. Len(c) = Len(g) + 1 /\ Follows(c, f)
      BY <3>1, <3>5, Yielded
    <3>7. Upto(r)' = u + 1
      <4>1. PICK n \in Nat : n = Len(g) /\ u = f + n
        BY <3>1
      <4>2. Upto(r)' = f + (n + 1) + 0
        BY <3>4, <3>5, <3>6, <4>1 DEF Upto
      <4> QED
        BY <4>1, <4>2
    <3>8. queue'[r] = Tail(q) /\ made'[k] = m /\ atEnd'[k] = e /\ status' = status
      BY <1>1, <2>2, <3>1 DEF job
    <3>9. Queued(r)'
      BY <1>3, <3>3, <3>7, <3>8 DEF Queued
    <3>10. Follows(got[r], from[r])'
      BY <3>4, <3>5, <3>6
    <3>11. Follows(left[r], from[r] + Len(got[r]))'
      BY <3>5 DEF Follows
    <3>12. at'[r] = at[r] /\ (at[r] = "last" => Ended')
      BY <1>1, <1>4, <2>1, <2>4 DEF Stream, Ended, job
    <3> QED
      BY <1>1, <3>5, <3>9, <3>10, <3>11, <3>12 DEF Stream
  <2> QED
    BY <1>1, <2>1, <2>2, <2>3, <2>4, ReaderKeeps
<1> QED
  BY <1>5, <1>6

\* A stream that saw the end and finds its queue empty has every line.
LEMMA DrainedStep == ASSUME IInv, NEW r \in Readers, Drained(r) PROVE IInv'
<1>1. /\ UNCHANGED <<job, got, live, from>> /\ queue[r] = <<>>
      /\ at[r] \in {"drain", "last"}
  BY DEF Drained
<1>2. PICK k \in Kinds : k = KindOf(r) /\ k = KindOf(r)'
  BY DEF KindOf, Kinds
<1>3. ASSUME r \in live PROVE Stream(r) /\ left[r] = <<>> /\ Queued(r)
  BY <1>1, <1>3 DEF IInv, Stream
<1>4. CASE at[r] = "last"
  <2>1. /\ at' = [at EXCEPT ![r] = "done"] /\ queue' = [queue EXCEPT ![r] = <<>>]
        /\ left' = [left EXCEPT ![r] = <<>>]
    BY <1>4 DEF Drained, Leave
  <2>2. /\ at'[r] = "done" /\ left'[r] = <<>>
        /\ \A s \in Readers : s # r => UNCHANGED <<at[s], left[s], queue[s], got[s], from[s]>>
    BY <1>1, <2>1 DEF IInv, Shape
  <2>3. Shape'
    <3>1. <<>> \in Seq(Nat)
      OBVIOUS
    <3> QED
      BY <1>1, <2>1, <3>1 DEF IInv, Shape, job
  <2>4. ASSUME r \in live PROVE Stream(r)'
    <3>1. /\ got[r] \in Seq(Nat) /\ from[r] \in Nat /\ made[k] \in Nat /\ atEnd[k] \in Nat
          /\ atEnd[k] <= made[k]
      BY <2>4 DEF IInv, Shape, Buffered
    <3>2. Len(got[r]) \in Nat /\ Upto(r) = from[r] + Len(got[r]) /\ Upto(r) \in Nat
      BY <1>3, <2>4, <3>1 DEF Upto
    <3>3. ~Closed(<<>>, Upto(r), atEnd[k])
      BY DEF Closed
    <3>4. Going(<<>>, Upto(r), made[k])
      BY <1>1, <1>2, <1>3, <2>4, <3>3 DEF Queued
    <3>5. Upto(r) = made[k]
      BY <3>1, <3>2, <3>4 DEF Going
    <3>6. from'[r] + Len(got'[r]) >= atEnd'[k]
      BY <1>1, <3>1, <3>2, <3>5 DEF job
    <3>7. Ended'
      BY <1>1, <1>3, <1>4, <2>4 DEF Stream, Ended, job
    <3>8. Follows(got[r], from[r])' /\ Follows(left[r], from[r] + Len(got[r]))'
      BY <1>1, <1>3, <2>2, <2>4 DEF Stream, Follows
    <3> QED
      BY <1>2, <2>2, <3>6, <3>7, <3>8 DEF Stream
  <2> QED
    BY <1>1, <2>2, <2>3, <2>4, ReaderKeeps
<1>5. CASE at[r] # "last"
  <2>1. at' = [at EXCEPT ![r] = "live"] /\ UNCHANGED <<queue, left>>
    BY <1>5 DEF Drained
  <2>2. /\ at'[r] = "live"
        /\ \A s \in Readers : s # r => UNCHANGED <<at[s], left[s], queue[s], got[s], from[s]>>
    BY <1>1, <2>1 DEF IInv, Shape
  <2>3. Shape'
    BY <1>1, <2>1 DEF IInv, Shape, job
  <2>4. ASSUME r \in live PROVE Stream(r)'
    <3>1. Queued(r)'
      BY <1>1, <1>3, <2>1, <2>4 DEF Queued, Upto, job, KindOf
    <3> QED
      BY <1>1, <1>3, <2>1, <2>2, <2>4, <3>1 DEF Stream, Follows
  <2> QED
    BY <1>1, <2>2, <2>3, <2>4, ReaderKeeps
<1> QED
  BY <1>4, <1>5

\* A client that is gone is no live stream.
LEMMA DisconnectStep == ASSUME IInv, NEW r \in Readers, Disconnect(r) PROVE IInv'
<1>1. /\ UNCHANGED job /\ live' = live \ {r}
      /\ at' = [at EXCEPT ![r] = "gone"] /\ queue' = [queue EXCEPT ![r] = <<>>]
      /\ left' = [left EXCEPT ![r] = <<>>] /\ got' = [got EXCEPT ![r] = <<>>]
      /\ from' = [from EXCEPT ![r] = 0]
  BY DEF Disconnect, Leave
<1>2. /\ at'[r] = "gone"
      /\ \A s \in Readers : s # r => UNCHANGED <<at[s], left[s], queue[s], got[s], from[s]>>
  BY <1>1 DEF IInv, Shape
<1>3. Shape'
  <2>1. <<>> \in Seq(Nat)
    OBVIOUS
  <2>2. \A s \in live' : got'[s] \in Seq(Nat)
    BY <1>1, <1>2 DEF IInv, Shape
  <2>3. got' = [s \in Readers |-> got'[s]]
    BY <1>1 DEF IInv, Shape
  <2>4. from' \in [Readers -> Nat]
    BY <1>1 DEF IInv, Shape
  <2> QED
    BY <1>1, <2>1, <2>2, <2>3, <2>4 DEF IInv, Shape, job
<1> QED
  BY <1>1, <1>2, <1>3, ReaderKeeps

-----------------------------------------------------------------------------
(* Theorems.                                                               *)

\* Every step keeps the invariant.
LEMMA NextInv == IInv /\ [Next]_vars => IInv'
<1> SUFFICES ASSUME IInv, [Next]_vars PROVE IInv'
  OBVIOUS
<1>1. CASE UNCHANGED vars
  BY <1>1 DEF IInv, Shape, Buffered, Unattached, Stream, Queued, Upto, Ended, vars, job,
     streams
<1>2. CASE Start
  BY <1>2, StartStep
<1>3. CASE Evict
  BY <1>3, EvictStep
<1>4. ASSUME NEW k \in Kinds, Emit(k) PROVE IInv'
  BY <1>4, EmitStep
<1>5. ASSUME NEW s \in Terminal, End(s) PROVE IInv'
  BY <1>5, EndStep
<1>6. CASE AppendEvent \/ AppendFails
  BY <1>6, AppendStep
<1>7. CASE Restart
  BY <1>7, RestartStep
<1>8. ASSUME NEW r \in Readers, Open(r) \/ ReaderStep(r) \/ Disconnect(r) PROVE IInv'
  BY <1>8, OpenStep, TableStep, AttachStep, ReplayStep, ReceiveStep, DrainedStep,
     DisconnectStep DEF ReaderStep
<1> QED
  BY <1>1, <1>2, <1>3, <1>4, <1>5, <1>6, <1>7, <1>8 DEF Next

\* The invariant holds in every behaviour.
LEMMA Always == Spec => []IInv
  BY InitInv, NextInv, PTL DEF Spec

\* A live stream that is done has every line up to the end of the job, and the job
\* had ended: nothing is lost between the copy of the buffer, the queue and the end
\* mark, however the job's end, its eviction and the stream's steps interleave.
THEOREM StreamsComplete == Spec => []StreamsAreComplete
<1>1. IInv => StreamsAreComplete
  BY DEF IInv, Stream, StreamsAreComplete
<1> QED
  BY <1>1, Always, PTL

-----------------------------------------------------------------------------
(* A stream that waits for more when there is no more has the end mark in  *)
(* its queue.                                                              *)

Marked(q) == \E i \in 1 .. Len(q) : q[i] = EndMark

\* No stream waits for a job that is over without having been told.
NoneForgotten == \A r \in live : at[r] \in {"drain", "live"} /\ Ended => Marked(queue[r])

\* What is kept of a live stream; a restart leaves only those that are done.
Noted(r) ==
  /\ at[r] \in {"drain", "live"} /\ status \in Terminal => Marked(queue[r])
  /\ status = "lost" => at[r] = "done"

NotedInv == IInv /\ (kept => status # "lost") /\ \A r \in live : Noted(r)

\* Joining queues loses no end mark.
LEMMA MarkedJoined ==
  ASSUME NEW s \in Seq(Nat), NEW t \in Seq(Nat), Marked(s) \/ Marked(t)
  PROVE  Marked(s \o t)
<1>1. PICK n \in Nat : n = Len(s)
  OBVIOUS
<1>2. PICK m \in Nat : m = Len(t)
  OBVIOUS
<1>3. /\ Len(s \o t) = n + m
      /\ \A i \in 1 .. n : (s \o t)[i] = s[i]
      /\ \A i \in 1 .. m : (s \o t)[n + i] = t[i]
  BY <1>1, <1>2, Joined
<1>4. CASE Marked(s)
  <2>1. PICK i \in 1 .. n : s[i] = EndMark
    BY <1>1, <1>4 DEF Marked
  <2>2. i \in 1 .. n + m
    OBVIOUS
  <2> QED
    BY <1>3, <2>1, <2>2 DEF Marked
<1>5. CASE Marked(t)
  <2>1. PICK i \in 1 .. m : t[i] = EndMark
    BY <1>2, <1>5 DEF Marked
  <2>2. n + i \in 1 .. n + m
    OBVIOUS
  <2> QED
    BY <1>3, <2>1, <2>2 DEF Marked
<1> QED
  BY <1>4, <1>5

\* Reading a line leaves the end mark in the queue.
LEMMA MarkedTail ==
  ASSUME NEW s \in Seq(Nat), s # <<>>, Marked(s), Head(s) # EndMark
  PROVE  Marked(Tail(s))
<1>1. PICK n \in Nat : n = Len(s)
  OBVIOUS
<1>2. /\ s[1] = Head(s) /\ Len(Tail(s)) = n - 1 /\ n >= 1
      /\ \A i \in 1 .. n - 1 : Tail(s)[i] = s[i + 1]
  BY <1>1, Shifted
<1>3. PICK i \in 1 .. n : s[i] = EndMark
  BY <1>1 DEF Marked
<1>4. PICK k \in Nat : k = i - 1
  <2>1. i >= 1
    OBVIOUS
  <2> QED
    BY <2>1
<1>5. i # 1
  BY <1>2, <1>3
<1>6. k \in 1 .. n - 1 /\ k + 1 = i
  BY <1>4, <1>5
<1> QED
  BY <1>2, <1>3, <1>6 DEF Marked

\* What the job says goes behind what waits.
LEMMA NotedTold ==
  ASSUME NotedInv, NEW msgs \in [Kinds -> Seq(Nat)], Tell(msgs), UNCHANGED <<at, live>>,
         status # "lost", status' # "lost",
         status' \in Terminal => status \in Terminal \/ \A k \in Kinds : Marked(msgs[k]),
         NEW r \in live'
  PROVE  Noted(r)'
<1>1. r \in live /\ r \in Readers /\ Noted(r)
  BY DEF NotedInv, IInv, Shape
<1>2. queue'[r] = IF at[r] \in {"replay", "drain", "last", "live"}
                  THEN queue[r] \o msgs[KindOf(r)] ELSE queue[r]
  BY <1>1, TellStep DEF NotedInv
<1>3. KindOf(r) \in Kinds /\ queue[r] \in Seq(Nat) /\ msgs[KindOf(r)] \in Seq(Nat)
  BY <1>1 DEF KindOf, Kinds, NotedInv, IInv, Shape
<1>4. ASSUME at[r] \in {"drain", "live"}, status' \in Terminal PROVE Marked(queue'[r])
  <2>1. Marked(queue[r]) \/ Marked(msgs[KindOf(r)])
    BY <1>1, <1>3, <1>4 DEF Noted
  <2> QED
    BY <1>2, <1>3, <1>4, <2>1, MarkedJoined
<1> QED
  BY <1>4 DEF Noted, Marked

\* A line goes to the queues of a job that is not over, and hides no end mark.
LEMMA NotedEmit ==
  ASSUME NotedInv, NEW k \in Kinds, Emit(k), NEW r \in live'
  PROVE  Noted(r)'
<1> DEFINE msgs == [j \in Kinds |-> IF j = k THEN <<made[k] + 1>> ELSE <<>>]
<1>2. Tell(msgs) /\ UNCHANGED <<status, at, live>>
  BY DEF Emit
<1>3. msgs \in [Kinds -> Seq(Nat)]
  <2>1. made[k] \in Nat
    BY DEF NotedInv, IInv, Shape
  <2>2. <<made[k] + 1>> \in Seq(Nat) /\ <<>> \in Seq(Nat)
    BY <2>1
  <2> QED
    BY <2>2
<1> HIDE DEF msgs
<1>4. CASE status # "lost"
  BY <1>2, <1>3, <1>4, NotedTold
<1>5. CASE status = "lost"
  <2>1. r \in Readers /\ at[r] = "done" /\ at'[r] = "done"
    BY <1>2, <1>5 DEF NotedInv, IInv, Shape, Noted
  <2> QED
    BY <2>1 DEF Noted
<1> QED
  BY <1>4, <1>5

\* The end puts its mark into the queue of every stream that waits.
LEMMA NotedEnd ==
  ASSUME NotedInv, NEW s \in Terminal, End(s), NEW r \in live'
  PROVE  Noted(r)'
<1> DEFINE good == [j \in Kinds |-> <<EndMark>>]
           bad  == [j \in Kinds |-> IF j = "log" THEN <<made["log"] + 1, EndMark>>
                                    ELSE <<EndMark>>]
<1>1. /\ status \in {"pending", "running"} /\ status' = s /\ UNCHANGED <<at, live>>
      /\ Tell(good) \/ Tell(bad)
  BY DEF End
<1>2. status # "lost" /\ status' # "lost"
  BY <1>1 DEF Terminal
<1>3. made["log"] + 1 \in Nat
  BY DEF NotedInv, IInv, Shape, Kinds
<1>4. <<EndMark>> \in Seq(Nat) /\ Marked(<<EndMark>>)
  BY DEF EndMark, Marked
<1>5. ASSUME NEW n \in Nat PROVE <<n, EndMark>> \in Seq(Nat) /\ Marked(<<n, EndMark>>)
  BY DEF EndMark, Marked
<1>6. good \in [Kinds -> Seq(Nat)] /\ \A k \in Kinds : Marked(good[k])
  BY <1>4
<1>7. bad \in [Kinds -> Seq(Nat)] /\ \A k \in Kinds : Marked(bad[k])
  BY <1>3, <1>4, <1>5
<1> HIDE DEF good, bad
<1> QED
  BY <1>1, <1>2, <1>6, <1>7, NotedTold

\* The other steps of the job say nothing.
LEMMA NotedJob ==
  ASSUME NotedInv, Start \/ Evict \/ AppendEvent \/ AppendFails \/ UNCHANGED vars,
         NEW r \in live'
  PROVE  Noted(r)'
<1>1. /\ UNCHANGED <<at, live, queue>>
      /\ status' = status \/ (status # "lost" /\ status' = "running")
  BY DEF Start, Evict, AppendEvent, AppendFails, vars, job, streams
<1>2. Noted(r)
  BY <1>1 DEF NotedInv
<1> QED
  BY <1>1, <1>2 DEF Noted, Terminal

\* After a restart only streams that are done are left.
LEMMA NotedRestart ==
  ASSUME NotedInv, Restart, NEW r \in live'
  PROVE  Noted(r)'
<1>1. r \in live /\ r \in Readers /\ Stream(r) /\ at'[r] # "gone"
      /\ at'[r] = IF at[r] \in {"new", "done"} THEN at[r] ELSE "gone"
  BY DEF Restart, NotedInv, IInv, Shape
<1>2. at'[r] = "done"
  BY <1>1 DEF Stream
<1> QED
  BY <1>2 DEF Noted

\* A stream looks at the job before it waits.
LEMMA NotedReader ==
  ASSUME NotedInv, NEW s \in Readers, Open(s) \/ ReaderStep(s) \/ Disconnect(s),
         NEW r \in live'
  PROVE  Noted(r)'
<1>1. UNCHANGED <<status, kept>> /\ r \in Readers
  BY DEF Open, ReaderStep, ReplayTable, Attach, ReplayLine, Receive, Drained, Disconnect, job,
         NotedInv, IInv, Shape
<1>2. CASE r # s
  <2>1. r \in live
    BY <1>2 DEF Open, ReaderStep, ReplayTable, Attach, ReplayLine, Receive, Drained, Disconnect
  <2>2. at'[r] = at[r] /\ queue'[r] = queue[r]
    BY <1>1, <1>2 DEF Open, ReaderStep, ReplayTable, Attach, ReplayLine, Receive, Drained,
       Disconnect, Leave, NotedInv, IInv, Shape
  <2>3. Noted(r)
    BY <2>1 DEF NotedInv
  <2> QED
    BY <1>1, <2>2, <2>3 DEF Noted
<1>3. CASE r = s
  <2>1. CASE Open(r) \/ ReplayTable(r) \/ Disconnect(r)
    BY <1>1, <2>1 DEF Open, ReplayTable, Disconnect, NotedInv, IInv, Unattached
  <2>2. CASE Attach(r)
    <3>1. kept
      BY <1>1, <2>2 DEF Attach, NotedInv, IInv, Unattached
    <3>2. at'[r] \in {"drain", "live"} => status \notin Terminal
      BY <1>1, <2>2, <3>1 DEF Attach, NotedInv, IInv, Shape
    <3> QED
      BY <1>1, <3>1, <3>2 DEF Noted, NotedInv
  <2>3. CASE ReplayLine(r)
    <3>1. r \in live /\ at[r] = "replay"
      BY <2>3 DEF ReplayLine
    <3>2. status # "lost"
      BY <3>1 DEF NotedInv, Noted
    <3>3. at'[r] \in {"drain", "live"} => ~Ended
      BY <1>1, <2>3 DEF ReplayLine, NotedInv, IInv, Shape
    <3> QED
      BY <1>1, <3>2, <3>3 DEF Noted, Ended
  <2>4. CASE Receive(r)
    <3>1. r \in live /\ at[r] # "done" /\ queue[r] # <<>> /\ queue[r] \in Seq(Nat)
      BY <1>1, <2>4 DEF Receive, NotedInv, IInv, Shape
    <3>2. status # "lost" /\ Noted(r)
      BY <3>1 DEF NotedInv, Noted
    <3>3. CASE Head(queue[r]) = EndMark
      <4>1. at'[r] = "done"
        BY <1>1, <2>4, <3>3 DEF Receive, Leave, NotedInv, IInv, Shape
      <4> QED
        BY <4>1 DEF Noted
    <3>4. CASE Head(queue[r]) # EndMark
      <4>1. at'[r] = at[r] /\ queue'[r] = Tail(queue[r])
        BY <1>1, <2>4, <3>4 DEF Receive, NotedInv, IInv, Shape
      <4>2. Marked(queue[r]) => Marked(queue'[r])
        BY <3>1, <3>4, <4>1, MarkedTail
      <4> QED
        BY <1>1, <3>2, <4>1, <4>2 DEF Noted, Marked
    <3> QED
      BY <3>3, <3>4
  <2>5. CASE Drained(r)
    <3>1. r \in live /\ at[r] \in {"drain", "last"} /\ queue[r] = <<>>
      BY <2>5 DEF Drained
    <3>2. status # "lost" /\ Noted(r) /\ ~Marked(queue[r])
      BY <3>1 DEF NotedInv, Noted, Marked
    <3>3. at'[r] = "done" \/ at[r] = "drain"
      BY <1>1, <2>5, <3>1 DEF Drained, Leave, NotedInv, IInv, Shape
    <3> QED
      BY <1>1, <3>1, <3>2, <3>3 DEF Noted
  <2> QED
    BY <1>3, <2>1, <2>2, <2>3, <2>4, <2>5 DEF ReaderStep
<1> QED
  BY <1>2, <1>3

\* Every step keeps the invariant about the end marks.
LEMMA NotedOfNext == NotedInv /\ [Next]_vars => NotedInv'
<1> SUFFICES ASSUME NotedInv, [Next]_vars PROVE NotedInv'
  OBVIOUS
<1>1. IInv'
  BY NextInv DEF NotedInv
<1>2. kept' => status' # "lost"
  BY DEF NotedInv, Next, Start, Evict, Emit, End, AppendEvent, AppendFails, Restart, Open,
     ReaderStep, ReplayTable, Attach, ReplayLine, Receive, Drained, Disconnect, job, vars,
     Terminal
<1>3. ASSUME NEW r \in live' PROVE Noted(r)'
  BY <1>3, NotedEmit, NotedEnd, NotedJob, NotedRestart, NotedReader DEF Next
<1> QED
  BY <1>1, <1>2, <1>3 DEF NotedInv

\* No stream is left to wait for ever (StreamsEnd could not hold otherwise): one
\* that drains its queue to wait, or waits, when its job is over or evicted has the
\* end mark in that queue, whichever of its steps the end came between.
THEOREM StreamsAreTold == Spec => []NoneForgotten
<1>1. Init => NotedInv
  BY InitInv DEF Init, NotedInv
<1>2. NotedInv => NoneForgotten
  BY DEF NotedInv, NoneForgotten, Noted, IInv, Buffered, Shape, Ended
<1> QED
  BY <1>1, <1>2, NotedOfNext, PTL DEF Spec

-----------------------------------------------------------------------------
(* How far the counters go.                                                *)

\* s has no line after m.
UpToLine(s, m) == \A i \in 1 .. Len(s) : s[i] <= m

\* The last line before those in the buffer.
Base(k) == made[k] - Len(buffer[k])

\* What bounds the counters: a job's last line is the only one beyond MaxLines.
Counters ==
  /\ kept \in BOOLEAN /\ worker \in {"none", "works", "over"}
  /\ faults \in 0 .. MaxFaults
  /\ \A k \in Kinds : made[k] <= MaxLines[k] + 1 /\ Len(buffer[k]) <= MaxBuffer
  /\ status \in {"pending", "running"} => made["log"] <= MaxLines["log"]

\* A bounded buffer stays so, and never goes back to lines that it has dropped.
LEMMA CapStep ==
  ASSUME NEW s \in Seq(Nat), NEW m \in Nat, Len(s) <= MaxBuffer,
         NEW c, c = Cap(Append(s, m + 1))
  PROVE  Len(c) <= MaxBuffer /\ m - Len(s) <= m + 1 - Len(c)
<1>1. /\ Append(s, m + 1) \in Seq(Nat) /\ Len(Append(s, m + 1)) = Len(s) + 1
      /\ Append(s, m + 1) # <<>>
  BY Appended
<1>2. Len(s) \in Nat /\ MaxBuffer \in Nat
  BY ConstantsAssumption
<1>3. CASE Len(Append(s, m + 1)) > MaxBuffer
  <2>1. c = Tail(Append(s, m + 1))
    BY <1>3 DEF Cap
  <2>2. Len(c) = Len(Append(s, m + 1)) - 1
    BY <1>1, <2>1, Shifted
  <2>3. Len(c) = Len(s)
    BY <1>1, <1>2, <2>2
  <2> QED
    BY <1>2, <2>3
<1>4. CASE ~(Len(Append(s, m + 1)) > MaxBuffer)
  <2>1. c = Append(s, m + 1)
    BY <1>4 DEF Cap
  <2>2. Len(c) = Len(s) + 1
    BY <1>1, <2>1
  <2> QED
    BY <1>1, <1>2, <1>4, <2>2
<1> QED
  BY <1>3, <1>4

\* The numbers of lines in a saying step.
LEMMA Saying ==
  ASSUME IInv, Counters, NEW k \in Kinds, made' = [made EXCEPT ![k] = made[k] + 1],
         buffer' = [buffer EXCEPT ![k] = Cap(Append(@, made[k] + 1))]
  PROVE  \A j \in Kinds :
           /\ made'[j] = IF j = k THEN made[j] + 1 ELSE made[j]
           /\ Len(buffer'[j]) <= MaxBuffer
           /\ made[j] - Len(buffer[j]) <= made'[j] - Len(buffer'[j])
<1> SUFFICES ASSUME NEW j \in Kinds
             PROVE  /\ made'[j] = IF j = k THEN made[j] + 1 ELSE made[j]
                    /\ Len(buffer'[j]) <= MaxBuffer
                    /\ made[j] - Len(buffer[j]) <= made'[j] - Len(buffer'[j])
  OBVIOUS
<1>1. made[j] \in Nat /\ buffer[j] \in Seq(Nat) /\ Len(buffer[j]) <= MaxBuffer
  BY DEF IInv, Shape, Counters
<1>2. CASE j = k
  <2>1. made'[j] = made[j] + 1 /\ buffer'[j] = Cap(Append(buffer[j], made[j] + 1))
    BY <1>2 DEF IInv, Shape
  <2> QED
    BY <1>1, <1>2, <2>1, CapStep
<1>3. CASE j # k
  <2>1. made'[j] = made[j] /\ buffer'[j] = buffer[j]
    BY <1>3 DEF IInv, Shape
  <2> QED
    BY <1>1, <1>3, <2>1
<1> QED
  BY <1>2, <1>3

\* Every step keeps the bounds.
LEMMA CountersStep == ASSUME IInv, Counters, [Next]_vars PROVE Counters'
<1>1. MaxBuffer \in Nat /\ MaxFaults \in Nat
      /\ \A k \in Kinds : MaxLines[k] \in Nat /\ made[k] \in Nat
  BY ConstantsAssumption DEF IInv, Shape, Kinds
<1>2. ASSUME NEW k \in Kinds, Emit(k) PROVE Counters'
  <2>1. /\ made' = [made EXCEPT ![k] = made[k] + 1] /\ made[k] < MaxLines[k]
        /\ buffer' = [buffer EXCEPT ![k] = Cap(Append(@, made[k] + 1))]
        /\ UNCHANGED <<status, kept, worker, faults>>
    BY <1>2 DEF Emit
  <2>2. \A j \in Kinds : /\ made'[j] = IF j = k THEN made[j] + 1 ELSE made[j]
                         /\ Len(buffer'[j]) <= MaxBuffer
    BY <2>1, Saying
  <2>3. \A j \in Kinds : made'[j] <= MaxLines[j] + 1
    BY <1>1, <2>1, <2>2 DEF Counters
  <2>4. status' \in {"pending", "running"} => made'["log"] <= MaxLines["log"]
    BY <1>1, <2>1, <2>2 DEF Counters, Kinds
  <2> QED
    BY <2>1, <2>2, <2>3, <2>4 DEF Counters
<1>3. ASSUME NEW s \in Terminal, End(s) PROVE Counters'
  <2>1. /\ status \in {"pending", "running"} /\ status' \notin {"pending", "running"}
        /\ UNCHANGED <<kept, faults>> /\ worker' \in {"none", "works", "over"}
    BY <1>3 DEF End, Terminal, Counters
  <2>2. CASE UNCHANGED <<made, buffer>>
    BY <2>1, <2>2 DEF Counters
  <2>3. CASE /\ made' = [made EXCEPT !["log"] = made["log"] + 1]
             /\ buffer' = [buffer EXCEPT !["log"] = Cap(Append(@, made["log"] + 1))]
    <3>1. "log" \in Kinds
      BY DEF Kinds
    <3>2. \A j \in Kinds : /\ made'[j] = IF j = "log" THEN made[j] + 1 ELSE made[j]
                           /\ Len(buffer'[j]) <= MaxBuffer
      BY <2>3, <3>1, Saying
    <3>3. \A j \in Kinds : made'[j] <= MaxLines[j] + 1
      BY <1>1, <2>1, <3>2 DEF Counters
    <3> QED
      BY <2>1, <3>2, <3>3 DEF Counters
  <2>4. UNCHANGED <<made, buffer>>
        \/ /\ made' = [made EXCEPT !["log"] = made["log"] + 1]
           /\ buffer' = [buffer EXCEPT !["log"] = Cap(Append(@, made["log"] + 1))]
    BY <1>3 DEF End
  <2> QED
    BY <2>2, <2>3, <2>4
<1>4. CASE Start
  BY <1>4 DEF Start, streams, Counters
<1>5. CASE Evict
  <2>1. \A k \in Kinds : Len(buffer'[k]) <= MaxBuffer
    BY <1>1, <1>5 DEF Evict
  <2> QED
    BY <1>5, <2>1 DEF Evict, streams, durable, Counters, Terminal
<1>6. CASE AppendEvent
  BY <1>6 DEF AppendEvent, job, Counters
<1>7. CASE AppendFails
  BY <1>1, <1>7 DEF AppendFails, job, Counters
<1>8. CASE Restart
  <2>1. \A k \in Kinds : Len(buffer'[k]) <= MaxBuffer
    BY <1>1, <1>8 DEF Restart
  <2>2. faults' \in 0 .. MaxFaults
    BY <1>1, <1>8 DEF Restart, Counters
  <2>3. status' \notin {"pending", "running"}
    BY <1>8 DEF Restart, Terminal
  <2> QED
    BY <1>8, <2>1, <2>2, <2>3 DEF Restart, Counters
<1>9. ASSUME NEW r \in Readers, Open(r) \/ ReaderStep(r) \/ Disconnect(r) PROVE Counters'
  <2>1. UNCHANGED <<job, faults>>
    BY <1>9 DEF Open, ReaderStep, ReplayTable, Attach, ReplayLine, Receive, Drained, Disconnect
  <2> QED
    BY <2>1 DEF job, Counters
<1>10. CASE UNCHANGED vars
  BY <1>10 DEF vars, job, Counters
<1> QED
  BY <1>2, <1>3, <1>4, <1>5, <1>6, <1>7, <1>8, <1>9, <1>10 DEF Next

-----------------------------------------------------------------------------
(* The table of events.                                                    *)

\* An element that is appended goes to the end of a sequence of any kind.
LEMMA AppendedTo ==
  ASSUME NEW S, NEW s \in Seq(S), NEW x \in S
  PROVE  /\ Append(s, x) \in Seq(S) /\ Len(s) \in Nat /\ Len(Append(s, x)) = Len(s) + 1
         /\ \A i \in 1 .. Len(s) : Append(s, x)[i] = s[i]
         /\ Append(s, x)[Len(s) + 1] = x
  OBVIOUS

\* The first one leaves the others in their order.
LEMMA ShiftedIn ==
  ASSUME NEW S, NEW s \in Seq(S), s # <<>>
  PROVE  /\ Len(s) \in Nat /\ Len(s) >= 1 /\ Head(s) = s[1] /\ Head(s) \in S
         /\ Tail(s) \in Seq(S) /\ Len(Tail(s)) = Len(s) - 1
         /\ \A i \in 1 .. Len(s) - 1 : Tail(s)[i] = s[i + 1]
  OBVIOUS

\* The numbers of events.
LEMMA EventNumber == ASSUME NEW e \in Event PROVE e.n \in Nat
  BY DEF Event, Numbers

\* The lines of kind k among the events s go up to m, in their order; those of s
\* come before those of t.
UpTo(s, k, m) == \A i \in 1 .. Len(s) : s[i].type = k => s[i].n <= m
InOrder(s, k) ==
  \A i, j \in 1 .. Len(s) : i < j /\ s[i].type = k /\ s[j].type = k => s[i].n < s[j].n
Before(s, t, k) ==
  \A i \in 1 .. Len(s), j \in 1 .. Len(t) :
     s[i].type = k /\ t[j].type = k => s[i].n < t[j].n

\* The table R and the tasks T that will be appended to it have the lines of kind
\* k in their order, up to m.
Ordered(R, T, k, m) ==
  UpTo(R, k, m) /\ UpTo(T, k, m) /\ InOrder(R, k) /\ InOrder(T, k) /\ Before(R, T, k)

\* A later bound holds as well.
LEMMA OrderedMore ==
  ASSUME NEW R \in Seq(Event), NEW T \in Seq(Event), NEW k, NEW m \in Nat, NEW n \in Nat,
         m <= n, Ordered(R, T, k, m)
  PROVE  Ordered(R, T, k, n)
<1>1. ASSUME NEW s \in Seq(Event), UpTo(s, k, m) PROVE UpTo(s, k, n)
  <2> SUFFICES ASSUME NEW i \in 1 .. Len(s), s[i].type = k PROVE s[i].n <= n
    BY DEF UpTo
  <2>1. s[i].n \in Nat
    BY EventNumber
  <2> QED
    BY <1>1, <2>1 DEF UpTo
<1> QED
  BY <1>1 DEF Ordered

\* An event is no line of kind k, or a later one than all.
LEMMA OrderedSay ==
  ASSUME NEW R \in Seq(Event), NEW T \in Seq(Event), NEW k, NEW m \in Nat, NEW n \in Nat,
         m <= n, Ordered(R, T, k, m), NEW e \in Event, e.type = k => m < e.n /\ e.n <= n,
         NEW c, c = Append(T, e)
  PROVE  c \in Seq(Event) /\ Ordered(R, c, k, n)
<1>1. /\ c \in Seq(Event) /\ Len(T) \in Nat /\ Len(c) = Len(T) + 1
      /\ \A i \in 1 .. Len(T) : c[i] = T[i]
      /\ c[Len(T) + 1] = e
  BY AppendedTo
<1>2. Ordered(R, T, k, n)
  BY OrderedMore
<1>3. \A i \in 1 .. Len(c) : i \in 1 .. Len(T) \/ i = Len(T) + 1
  BY <1>1
<1>4. UpTo(c, k, n)
  BY <1>1, <1>2, <1>3 DEF Ordered, UpTo
<1>5. ASSUME NEW i \in 1 .. Len(T), T[i].type = k, e.type = k PROVE T[i].n < e.n
  <2>1. T[i].n \in Nat /\ e.n \in Nat
    BY EventNumber
  <2> QED
    BY <1>5, <2>1 DEF Ordered, UpTo
<1>6. ASSUME NEW i \in 1 .. Len(R), R[i].type = k, e.type = k PROVE R[i].n < e.n
  <2>1. R[i].n \in Nat /\ e.n \in Nat
    BY EventNumber
  <2> QED
    BY <1>6, <2>1 DEF Ordered, UpTo
<1>7. InOrder(c, k)
  <2> SUFFICES ASSUME NEW i \in 1 .. Len(c), NEW j \in 1 .. Len(c), i < j,
                      c[i].type = k, c[j].type = k
               PROVE  c[i].n < c[j].n
    BY DEF InOrder
  <2>1. i \in 1 .. Len(T)
    BY <1>1, <1>3
  <2>2. CASE j \in 1 .. Len(T)
    BY <1>1, <2>1, <2>2 DEF Ordered, InOrder
  <2>3. CASE j = Len(T) + 1
    BY <1>1, <1>5, <2>1, <2>3
  <2> QED
    BY <1>3, <2>2, <2>3
<1>8. Before(R, c, k)
  <2> SUFFICES ASSUME NEW i \in 1 .. Len(R), NEW j \in 1 .. Len(c),
                      R[i].type = k, c[j].type = k
               PROVE  R[i].n < c[j].n
    BY DEF Before
  <2>1. CASE j \in 1 .. Len(T)
    BY <1>1, <2>1 DEF Ordered, Before
  <2>2. CASE j = Len(T) + 1
    BY <1>1, <1>6, <2>2
  <2> QED
    BY <1>3, <2>1, <2>2
<1> QED
  BY <1>1, <1>2, <1>4, <1>7, <1>8 DEF Ordered

\* The first task is lost.
LEMMA OrderedLose ==
  ASSUME NEW R \in Seq(Event), NEW T \in Seq(Event), NEW k, NEW m, Ordered(R, T, k, m),
         T # <<>>, NEW c, c = Tail(T)
  PROVE  c \in Seq(Event) /\ Ordered(R, c, k, m)
<1>1. /\ c \in Seq(Event) /\ Len(T) \in Nat /\ Len(c) = Len(T) - 1
      /\ \A i \in 1 .. Len(c) : c[i] = T[i + 1]
  BY ShiftedIn
<1>2. \A i \in 1 .. Len(c) : i + 1 \in 1 .. Len(T)
  BY <1>1
<1>3. UpTo(c, k, m)
  BY <1>1, <1>2 DEF Ordered, UpTo
<1>4. InOrder(c, k)
  <2> SUFFICES ASSUME NEW i \in 1 .. Len(c), NEW j \in 1 .. Len(c), i < j,
                      c[i].type = k, c[j].type = k
               PROVE  c[i].n < c[j].n
    BY DEF InOrder
  <2>1. i + 1 < j + 1
    OBVIOUS
  <2> QED
    BY <1>1, <1>2, <2>1 DEF Ordered, InOrder
<1>5. Before(R, c, k)
  BY <1>1, <1>2 DEF Ordered, Before
<1> QED
  BY <1>1, <1>3, <1>4, <1>5 DEF Ordered

\* The first task goes to the end of the table.
LEMMA OrderedStore ==
  ASSUME NEW R \in Seq(Event), NEW T \in Seq(Event), NEW k, NEW m, Ordered(R, T, k, m),
         T # <<>>, NEW d, d = Append(R, Head(T))
  PROVE  d \in Seq(Event) /\ Ordered(d, Tail(T), k, m)
<1> DEFINE e == Head(T)
           c == Tail(T)
<1>1. /\ c \in Seq(Event) /\ Len(T) \in Nat /\ Len(c) = Len(T) - 1 /\ 1 \in 1 .. Len(T)
      /\ e = T[1] /\ e \in Event
      /\ \A i \in 1 .. Len(c) : c[i] = T[i + 1]
  BY ShiftedIn
<1>2. Ordered(R, c, k, m)
  BY OrderedLose
<1> HIDE DEF c
<1>3. PICK x \in Event : x = e
  BY <1>1
<1>4. /\ d \in Seq(Event) /\ Len(R) \in Nat /\ Len(d) = Len(R) + 1
      /\ \A i \in 1 .. Len(R) : d[i] = R[i]
      /\ d[Len(R) + 1] = x
  BY <1>3, AppendedTo
<1>5. \A i \in 1 .. Len(d) : i \in 1 .. Len(R) \/ i = Len(R) + 1
  BY <1>4
<1>6. x = T[1]
  BY <1>1, <1>3
<1>7. UpTo(d, k, m)
  BY <1>1, <1>4, <1>5, <1>6 DEF Ordered, UpTo
<1>8. InOrder(d, k)
  <2> SUFFICES ASSUME NEW i \in 1 .. Len(d), NEW j \in 1 .. Len(d), i < j,
                      d[i].type = k, d[j].type = k
               PROVE  d[i].n < d[j].n
    BY DEF InOrder
  <2>1. i \in 1 .. Len(R)
    BY <1>4, <1>5
  <2>2. CASE j \in 1 .. Len(R)
    BY <1>4, <2>1, <2>2 DEF Ordered, InOrder
  <2>3. CASE j = Len(R) + 1
    BY <1>1, <1>4, <1>6, <2>1, <2>3 DEF Ordered, Before
  <2> QED
    BY <1>5, <2>2, <2>3
<1>9. Before(d, c, k)
  <2> SUFFICES ASSUME NEW i \in 1 .. Len(d), NEW j \in 1 .. Len(c),
                      d[i].type = k, c[j].type = k
               PROVE  d[i].n < c[j].n
    BY DEF Before
  <2>1. j + 1 \in 1 .. Len(T) /\ 1 < j + 1 /\ c[j] = T[j + 1]
    BY <1>1
  <2>2. CASE i \in 1 .. Len(R)
    BY <1>4, <2>1, <2>2 DEF Ordered, Before
  <2>3. CASE i = Len(R) + 1
    BY <1>1, <1>4, <1>6, <2>1, <2>3 DEF Ordered, InOrder
  <2> QED
    BY <1>5, <2>2, <2>3
<1> QED
  BY <1>2, <1>4, <1>7, <1>8, <1>9 DEF Ordered, c

\* What comes behind a sequence comes one by one.
LEMMA OneByOne ==
  ASSUME NEW T \in Seq(Event), NEW a \in Event, NEW b \in Event
  PROVE  T \o <<a>> = Append(T, a) /\ T \o <<a, b>> = Append(Append(T, a), b)
  OBVIOUS

\* The events of the model.
LEMMA Events ==
  /\ \A k \in Kinds, n \in Numbers : Said(k, n) \in Event /\ Said(k, n).type = k
                                     /\ Said(k, n).n = n
  /\ \A s \in Terminal \union {"pending", "running"} :
       StatusIs(s) \in Event /\ StatusIs(s).type = "status" /\ StatusIs(s).status = s
  /\ ResultEvent \in Event /\ ResultEvent.type = "result"
<1>1. 0 \in Numbers
  BY ConstantsAssumption DEF Numbers
<1> QED
  BY <1>1 DEF Event, Said, StatusIs, ResultEvent, Kinds, Terminal

\* The last line that the table and its tasks can have: no event is said without a
\* record, and the buffer was empty when the record went.
Stored(k) == IF kept THEN made[k] ELSE Base(k)

Table ==
  /\ tasks \in Seq(Event) /\ rows \in Seq(Event)
  /\ \A k \in Kinds : Ordered(rows, tasks, k, Stored(k))

\* The number of a line that is said.
LEMMA LineNumbers ==
  ASSUME IInv, Counters, NEW k \in Kinds
  PROVE  /\ made[k] \in Nat /\ Len(buffer[k]) \in Nat /\ Base(k) \in Nat /\ Base(k) <= made[k]
         /\ Stored(k) \in Nat /\ Stored(k) <= made[k] /\ Base(k) <= Stored(k)
         /\ made[k] \in Numbers
         /\ made[k] < MaxLines[k] \/ (k = "log" /\ made[k] <= MaxLines[k]) =>
              made[k] + 1 \in Numbers
<1>1. /\ made[k] \in Nat /\ buffer[k] \in Seq(Nat) /\ Len(buffer[k]) <= made[k]
      /\ made[k] <= MaxLines[k] + 1
  BY DEF IInv, Shape, Buffered, Counters
<1>2. Len(buffer[k]) \in Nat
  BY <1>1
<1>3. /\ MaxLines["log"] \in Nat /\ MaxLines["metric"] \in Nat
      /\ k = "log" \/ k = "metric"
  BY ConstantsAssumption DEF Kinds
<1>4. made[k] \in Numbers
  BY <1>1, <1>3 DEF Numbers
<1>5. ASSUME made[k] <= MaxLines[k] PROVE made[k] + 1 \in Numbers
  BY <1>1, <1>3, <1>5 DEF Numbers
<1>6. made[k] < MaxLines[k] => made[k] <= MaxLines[k]
  BY <1>1, <1>3
<1> QED
  BY <1>1, <1>2, <1>4, <1>5, <1>6 DEF Base, Stored

\* A line in the table of a kept record.
LEMMA TableLine ==
  ASSUME IInv, Counters, Table, IInv', Counters', NEW k \in Kinds,
         made' = [made EXCEPT ![k] = made[k] + 1],
         buffer' = [buffer EXCEPT ![k] = Cap(Append(@, made[k] + 1))],
         made[k] + 1 \in Numbers, kept' = kept,
         NEW c, c = IF kept THEN Append(tasks, Said(k, made[k] + 1)) ELSE tasks
  PROVE  c \in Seq(Event) /\ \A j \in Kinds : Ordered(rows, c, j, Stored(j)')
<1>1. /\ \A j \in Kinds : made'[j] = IF j = k THEN made[j] + 1 ELSE made[j]
      /\ \A j \in Kinds : Base(j) <= Base(j)'
  BY Saying DEF Base
<1>2. \A j \in Kinds : Stored(j) <= Stored(j)'
  BY <1>1, LineNumbers DEF Stored
<1>3. PICK e \in Event : e = Said(k, made[k] + 1) /\ e.type = k /\ e.n = made[k] + 1
  BY Events
<1>4. ASSUME NEW j \in Kinds PROVE c \in Seq(Event) /\ Ordered(rows, c, j, Stored(j)')
  <2>1. PICK m \in Nat, n \in Nat : m = Stored(j) /\ n = Stored(j)' /\ m <= n
    <3>1. Stored(j)' \in Nat
      <4>1. made'[j] \in Nat /\ Len(buffer'[j]) \in Nat /\ Len(buffer'[j]) <= made'[j]
        BY DEF IInv, Shape, Buffered
      <4> QED
        BY <4>1 DEF Stored, Base
    <3> QED
      BY <1>2, <3>1, LineNumbers
  <2>2. Ordered(rows, tasks, j, m)
    BY <2>1 DEF Table
  <2>3. CASE kept
    <3>1. m = made[j] /\ n = made'[j]
      BY <2>1, <2>3 DEF Stored
    <3>2. e.type = j => m < e.n /\ e.n <= n
      BY <1>1, <1>3, <2>1, <3>1
    <3>3. c = Append(tasks, e)
      BY <1>3, <2>3
    <3> QED
      BY <2>1, <2>2, <3>2, <3>3, OrderedSay DEF Table
  <2>4. CASE ~kept
    BY <2>1, <2>2, <2>4, OrderedMore DEF Table
  <2> QED
    BY <2>3, <2>4
<1> QED
  BY <1>4 DEF Kinds

\* An event that is no line.
LEMMA TableEvent ==
  ASSUME IInv, Counters, Table, NEW e \in Event, e.type \notin Kinds
  PROVE  /\ Append(tasks, e) \in Seq(Event)
         /\ \A k \in Kinds : Ordered(rows, Append(tasks, e), k, Stored(k))
<1>1. ASSUME NEW k \in Kinds
      PROVE  /\ Append(tasks, e) \in Seq(Event)
             /\ Ordered(rows, Append(tasks, e), k, Stored(k))
  <2>1. PICK m \in Nat : m = Stored(k) /\ m <= m
    BY LineNumbers
  <2>2. e.type # k /\ Ordered(rows, tasks, k, m)
    BY <2>1 DEF Table
  <2> QED
    BY <2>1, <2>2, OrderedSay DEF Table
<1> QED
  BY <1>1 DEF Kinds

\* Every step keeps the lines of the table in their order.
LEMMA TableKept ==
  ASSUME IInv, Counters, Table, IInv', Counters', [Next]_vars
  PROVE  Table'
<1>1. ASSUME NEW k \in Kinds, Emit(k) PROVE Table'
  <2>1. /\ made' = [made EXCEPT ![k] = made[k] + 1] /\ made[k] < MaxLines[k]
        /\ buffer' = [buffer EXCEPT ![k] = Cap(Append(@, made[k] + 1))]
        /\ kept' = kept /\ rows' = rows
        /\ tasks' = IF kept THEN tasks \o <<Said(k, made[k] + 1)>> ELSE tasks
    BY <1>1 DEF Emit, EmitEvents
  <2>2. made[k] + 1 \in Numbers
    BY <2>1, LineNumbers
  <2>3. PICK e \in Event : e = Said(k, made[k] + 1)
    BY <2>2, Events
  <2>4. tasks' = IF kept THEN Append(tasks, Said(k, made[k] + 1)) ELSE tasks
    <3>1. tasks \o <<e>> = Append(tasks, e)
      BY OneByOne DEF Table
    <3> QED
      BY <2>3, <2>1, <3>1
  <2>5. tasks' \in Seq(Event) /\ \A j \in Kinds : Ordered(rows, tasks', j, Stored(j)')
    BY <2>1, <2>2, <2>4, TableLine
  <2> QED
    BY <2>1, <2>5 DEF Table
<1>2. ASSUME NEW s \in Terminal, End(s) PROVE Table'
  <2>1. kept /\ kept' = kept /\ rows' = rows /\ status \in {"pending", "running"}
    BY <1>2 DEF End, EmitEvents, IInv, Buffered
  <2>2. PICK e \in Event : e = StatusIs(s) /\ e.type = "status"
    BY Events
  <2>3. CASE s = "completed"
    <3>1. /\ UNCHANGED <<made, buffer>>
          /\ tasks' = tasks \o <<StatusIs(s), ResultEvent>>
      BY <1>2, <2>1, <2>3 DEF End, EmitEvents
    <3>2. tasks' = Append(Append(tasks, e), ResultEvent)
      BY <2>2, <3>1, Events, OneByOne DEF Table
    <3>3. /\ Append(tasks, e) \in Seq(Event)
          /\ \A k \in Kinds : Ordered(rows, Append(tasks, e), k, Stored(k))
      BY <2>2, TableEvent DEF Kinds
    <3>4. ASSUME NEW k \in Kinds PROVE tasks' \in Seq(Event) /\ Ordered(rows, tasks', k, Stored(k))
      <4>1. PICK m \in Nat : m = Stored(k) /\ m <= m
        BY LineNumbers
      <4>2. ResultEvent \in Event /\ ResultEvent.type # k
        BY Events DEF Kinds
      <4>3. PICK T \in Seq(Event) : T = Append(tasks, e) /\ Ordered(rows, T, k, m)
        BY <3>3, <4>1
      <4> QED
        BY <3>2, <4>1, <4>2, <4>3, OrderedSay DEF Table
    <3>5. tasks' \in Seq(Event)
      BY <3>4 DEF Kinds
    <3>6. \A k \in Kinds : Stored(k)' = Stored(k)
      BY <2>1, <3>1 DEF Stored, Base
    <3> QED
      BY <2>1, <3>4, <3>5, <3>6 DEF Table
  <2>4. CASE s # "completed"
    <3>1. /\ made' = [made EXCEPT !["log"] = made["log"] + 1]
          /\ buffer' = [buffer EXCEPT !["log"] = Cap(Append(@, made["log"] + 1))]
          /\ tasks' = tasks \o <<Said("log", made["log"] + 1), StatusIs(s)>>
      BY <1>2, <2>1, <2>4 DEF End, EmitEvents
    <3>2. "log" \in Kinds /\ made["log"] + 1 \in Numbers
      BY <2>1, LineNumbers DEF Counters, Kinds
    <3>3. PICK a \in Event : a = Said("log", made["log"] + 1)
      BY <3>2, Events
    <3>4. PICK T : T = Append(tasks, a)
      OBVIOUS
    <3>5. tasks' = Append(T, e)
      BY <2>2, <3>1, <3>3, <3>4, OneByOne DEF Table
    <3>6. T \in Seq(Event) /\ \A k \in Kinds : Ordered(rows, T, k, Stored(k)')
      BY <2>1, <3>1, <3>2, <3>3, <3>4, TableLine
    <3>7. ASSUME NEW k \in Kinds PROVE tasks' \in Seq(Event) /\ Ordered(rows, tasks', k, Stored(k)')
      <4>1. PICK m \in Nat : m = Stored(k)' /\ m <= m
        <5>1. made'[k] \in Nat
          BY DEF IInv, Shape
        <5> QED
          BY <2>1, <5>1 DEF Stored
      <4>2. e.type # k
        BY <2>2 DEF Kinds
      <4>3. Ordered(rows, T, k, m)
        BY <3>6, <4>1
      <4> QED
        BY <3>5, <3>6, <4>1, <4>2, <4>3, OrderedSay DEF Table
    <3>8. tasks' \in Seq(Event)
      BY <3>7 DEF Kinds
    <3> QED
      BY <2>1, <3>7, <3>8 DEF Table
  <2> QED
    BY <2>3, <2>4
<1>3. CASE Start
  <2>1. /\ UNCHANGED <<made, buffer, kept, rows>>
        /\ tasks' = tasks \o <<StatusIs("running")>>
    BY <1>3 DEF Start, EmitEvents
  <2>2. PICK e \in Event : e = StatusIs("running") /\ e.type = "status"
    BY Events
  <2>3. tasks' = Append(tasks, e)
    BY <2>1, <2>2, OneByOne DEF Table
  <2>4. tasks' \in Seq(Event) /\ \A k \in Kinds : Ordered(rows, tasks', k, Stored(k))
    BY <2>2, <2>3, TableEvent DEF Kinds
  <2>5. \A k \in Kinds : Stored(k)' = Stored(k)
    BY <2>1 DEF Stored, Base
  <2> QED
    BY <2>1, <2>4, <2>5 DEF Table
<1>4. CASE Evict
  <2>1. /\ kept /\ kept' = FALSE /\ UNCHANGED <<made, tasks, rows>>
        /\ \A k \in Kinds : buffer'[k] = <<>>
    BY <1>4 DEF Evict, durable
  <2>2. \A k \in Kinds : Stored(k)' = Stored(k)
    BY <2>1, LineNumbers DEF Stored, Base
  <2> QED
    BY <2>1, <2>2 DEF Table
<1>5. CASE AppendEvent \/ AppendFails
  <2>1. tasks # <<>> /\ tasks' = Tail(tasks) /\ (rows' = rows \/ rows' = Append(rows, Head(tasks)))
        /\ UNCHANGED <<made, buffer, kept>>
    BY <1>5 DEF AppendEvent, AppendFails, job
  <2>2. ASSUME NEW k \in Kinds
        PROVE  /\ tasks' \in Seq(Event) /\ rows' \in Seq(Event)
               /\ Ordered(rows', tasks', k, Stored(k))
    <3>1. Ordered(rows, tasks, k, Stored(k))
      BY DEF Table
    <3>2. tasks' \in Seq(Event) /\ Ordered(rows, tasks', k, Stored(k))
      BY <2>1, <3>1, OrderedLose DEF Table
    <3>3. CASE rows' = rows
      BY <3>2, <3>3 DEF Table
    <3>4. CASE rows' = Append(rows, Head(tasks))
      BY <2>1, <3>1, <3>2, <3>4, OrderedStore DEF Table
    <3> QED
      BY <2>1, <3>3, <3>4
  <2>3. tasks' \in Seq(Event) /\ rows' \in Seq(Event)
    BY <2>2 DEF Kinds
  <2>4. \A k \in Kinds : Stored(k)' = Stored(k)
    BY <2>1 DEF Stored, Base
  <2> QED
    BY <2>2, <2>3, <2>4 DEF Table
<1>6. CASE Restart
  <2>1. /\ kept' = FALSE /\ UNCHANGED <<made, rows>> /\ tasks' = <<>>
        /\ \A k \in Kinds : buffer'[k] = <<>>
    BY <1>6 DEF Restart
  <2>2. \A k \in Kinds : Stored(k)' = made[k]
    BY <2>1, LineNumbers DEF Stored, Base
  <2>3. ASSUME NEW k \in Kinds PROVE Ordered(rows', tasks', k, Stored(k)')
    <3>1. Ordered(rows, tasks, k, made[k])
      BY LineNumbers, OrderedMore DEF Table
    <3> QED
      BY <2>1, <2>2, <3>1 DEF Ordered, UpTo, InOrder, Before
  <2>4. tasks' \in Seq(Event)
    BY <2>1
  <2> QED
    BY <2>1, <2>3, <2>4 DEF Table
<1>7. ASSUME NEW r \in Readers, Open(r) \/ ReaderStep(r) \/ Disconnect(r) PROVE Table'
  <2>1. UNCHANGED <<job, durable>>
    BY <1>7 DEF Open, ReaderStep, ReplayTable, Attach, ReplayLine, Receive, Drained, Disconnect
  <2> QED
    BY <2>1 DEF job, durable, Table, Stored, Base
<1>8. CASE UNCHANGED vars
  BY <1>8 DEF vars, job, durable, Table, Stored, Base
<1> QED
  BY <1>1, <1>2, <1>3, <1>4, <1>5, <1>6, <1>7, <1>8 DEF Next

-----------------------------------------------------------------------------
(* What is read from the table.                                            *)

\* No two lines of s are the same, and they come in their order.
Rising(s) == \A i, j \in 1 .. Len(s) : i < j => s[i] < s[j]

\* The places of a type are finitely many.
LEMMA PlacesFinite ==
  ASSUME NEW s \in Seq(Event), NEW k
  PROVE  /\ Places(s, k) \subseteq 1 .. Len(s) /\ IsFiniteSet(Places(s, k))
         /\ Cardinality(Places(s, k)) \in Nat
         /\ \A p \in Places(s, k) : p \in Nat /\ s[p] \in Event /\ s[p].type = k
<1>1. Len(s) \in Nat /\ DOMAIN s = 1 .. Len(s) /\ \A p \in 1 .. Len(s) : s[p] \in Event
  OBVIOUS
<1>2. Places(s, k) \in SUBSET (1 .. Len(s))
  BY <1>1 DEF Places
<1>3. IsFiniteSet(1 .. Len(s))
  BY <1>1, FS_Interval
<1>4. IsFiniteSet(Places(s, k))
  BY <1>2, <1>3, FS_Subset
<1> QED
  BY <1>1, <1>2, <1>4, FS_CardinalityType DEF Places

\* The rank of a place is a number from one to the number of places, and grows.
LEMMA Ranks ==
  ASSUME NEW s \in Seq(Event), NEW k
  PROVE  /\ \A p \in Places(s, k) : Rank(s, k, p) \in 1 .. Cardinality(Places(s, k))
         /\ \A p, q \in Places(s, k) : p < q => Rank(s, k, p) < Rank(s, k, q)
<1> DEFINE P == Places(s, k)
           Low(p) == {q \in P : q <= p}
<1>1. IsFiniteSet(P) /\ Cardinality(P) \in Nat /\ \A p \in P : p \in Nat
  BY PlacesFinite
<1> HIDE DEF P
<1>2. \A p \in P : IsFiniteSet(Low(p)) /\ Cardinality(Low(p)) \in Nat
                   /\ Cardinality(Low(p)) <= Cardinality(P)
  <2> SUFFICES ASSUME NEW p \in P
               PROVE  IsFiniteSet(Low(p)) /\ Cardinality(Low(p)) \in Nat
                      /\ Cardinality(Low(p)) <= Cardinality(P)
    OBVIOUS
  <2>1. Low(p) \in SUBSET P
    OBVIOUS
  <2> QED
    BY <1>1, <2>1, FS_Subset, FS_CardinalityType
<1>3. ASSUME NEW p \in P PROVE Cardinality(Low(p)) \in 1 .. Cardinality(P)
  <2>1. Low(p) # {}
    BY <1>1
  <2>2. Cardinality(Low(p)) # 0
    BY <1>2, <2>1, FS_EmptySet
  <2>3. PICK a \in Nat, b \in Nat : a = Cardinality(Low(p)) /\ b = Cardinality(P)
    BY <1>1, <1>2
  <2>4. a <= b /\ a # 0
    BY <1>2, <2>2, <2>3
  <2>5. a \in 1 .. b
    BY <2>4
  <2> QED
    BY <2>3, <2>5
<1>4. ASSUME NEW p \in P, NEW q \in P, p < q PROVE Cardinality(Low(p)) < Cardinality(Low(q))
  <2>1. Low(p) \in SUBSET Low(q)
    BY <1>1, <1>4
  <2>2. q \in Low(q) /\ q \notin Low(p)
    BY <1>1, <1>4
  <2>3. Cardinality(Low(p)) <= Cardinality(Low(q)) /\ Cardinality(Low(q)) # Cardinality(Low(p))
    BY <1>2, <2>1, <2>2, FS_Subset
  <2>4. PICK a \in Nat, b \in Nat : a = Cardinality(Low(p)) /\ b = Cardinality(Low(q))
    BY <1>2
  <2>5. a <= b /\ b # a
    BY <2>3, <2>4
  <2>6. a < b
    BY <2>5
  <2> QED
    BY <2>4, <2>6
<1> QED
  BY <1>3, <1>4 DEF Rank, P

\* Every number up to the number of places is the rank of one.
LEMMA NthPlace ==
  ASSUME NEW s \in Seq(Event), NEW k, NEW i \in 1 .. Cardinality(Places(s, k))
  PROVE  Nth(s, k, i) \in Places(s, k) /\ Rank(s, k, Nth(s, k, i)) = i
<1> DEFINE P == Places(s, k)
           N == Cardinality(P)
           R == [p \in P |-> Rank(s, k, p)]
<1>1. IsFiniteSet(P) /\ N \in Nat /\ \A p \in P : p \in Nat
  BY PlacesFinite
<1>2. R \in [P -> 1 .. N]
  BY Ranks
<1>3. \A p, q \in P : R[p] = R[q] => p = q
  <2> SUFFICES ASSUME NEW p \in P, NEW q \in P, R[p] = R[q] PROVE p = q
    OBVIOUS
  <2>1. p \in Nat /\ q \in Nat
    BY <1>1
  <2>2. ~(p < q) /\ ~(q < p)
    BY <1>2, Ranks
  <2> QED
    BY <2>1, <2>2
<1>4. R \in Injection(P, 1 .. N)
  BY <1>2, <1>3 DEF Injection, IsInjective
<1>5. IsFiniteSet(1 .. N) /\ Cardinality(1 .. N) = N
  <2>1. 1 \in Int /\ N \in Int
    BY <1>1
  <2>2. IsFiniteSet(1 .. N) /\ Cardinality(1 .. N) = IF 1 > N THEN 0 ELSE N - 1 + 1
    BY <2>1, FS_Interval
  <2> QED
    BY <1>1, <2>2
<1>6. R \in Surjection(P, 1 .. N)
  BY <1>4, <1>5, FS_Injection
<1>7. \E p \in P : Rank(s, k, p) = i
  BY <1>6 DEF Surjection
<1> QED
  BY <1>7 DEF Nth

\* The lines that a replay reads are lines of the table in their order.
LEMMA LinesRise ==
  ASSUME NEW s \in Seq(Event), NEW k, NEW m, UpTo(s, k, m), InOrder(s, k)
  PROVE  /\ LinesOf(s, k) \in Seq(Nat) /\ Rising(LinesOf(s, k))
         /\ UpToLine(LinesOf(s, k), m)
<1> DEFINE N == Cardinality(Places(s, k))
           L == LinesOf(s, k)
<1>1. N \in Nat
  BY PlacesFinite
<1>2. \A i \in 1 .. N :
        /\ Nth(s, k, i) \in 1 .. Len(s) /\ Nth(s, k, i) \in Places(s, k)
        /\ s[Nth(s, k, i)].n \in Nat /\ s[Nth(s, k, i)].type = k
        /\ Rank(s, k, Nth(s, k, i)) = i
  BY NthPlace, PlacesFinite, EventNumber
<1>3. L = [i \in 1 .. N |-> s[Nth(s, k, i)].n]
  BY DEF LinesOf
<1>4. L \in Seq(Nat) /\ Len(L) = N /\ \A i \in 1 .. N : L[i] = s[Nth(s, k, i)].n
  <2>1. L \in [1 .. N -> Nat]
    BY <1>2, <1>3
  <2> QED
    BY <1>1, <1>3, <2>1
<1> HIDE DEF L, N
<1>5. UpToLine(L, m)
  BY <1>2, <1>4 DEF UpToLine, UpTo
<1>6. Rising(L)
  <2> SUFFICES ASSUME NEW i \in 1 .. N, NEW j \in 1 .. N, i < j PROVE L[i] < L[j]
    BY <1>4 DEF Rising
  <2>1. PICK p \in 1 .. Len(s), q \in 1 .. Len(s) : p = Nth(s, k, i) /\ q = Nth(s, k, j)
    BY <1>2
  <2>2. p \in Places(s, k) /\ q \in Places(s, k) /\ Rank(s, k, p) = i /\ Rank(s, k, q) = j
    BY <1>2, <2>1
  <2>3. p \in Nat /\ q \in Nat /\ i \in Nat /\ j \in Nat
    OBVIOUS
  <2>4. p # q /\ ~(q < p)
    BY <2>2, <2>3, Ranks
  <2>5. p < q
    BY <2>3, <2>4
  <2>6. s[p].type = k /\ s[q].type = k /\ L[i] = s[p].n /\ L[j] = s[q].n
    BY <1>2, <1>4, <2>1
  <2> QED
    BY <2>5, <2>6 DEF InOrder
<1> QED
  BY <1>4, <1>5, <1>6 DEF L

-----------------------------------------------------------------------------
(* The streams that are not live.                                          *)

\* The lines of s come before those of t.
Below(s, t) == \A i \in 1 .. Len(s), j \in 1 .. Len(t) : s[i] < t[j]

\* What is yielded, what is left of the buffer and what waits in the queue: in
\* this order, no line comes twice or late.
Rise(g, l, q) ==
  /\ Rising(g) /\ Rising(l) /\ Rising(q)
  /\ Below(g, l) /\ Below(g, q) /\ Below(l, q)

\* A stream has only lines that the job has said.
Reads(r) ==
  /\ got[r] \in Seq(Nat)
  /\ from[r] <= made[KindOf(r)]
  /\ UpToLine(got[r], made[KindOf(r)])
  /\ UpToLine(left[r], made[KindOf(r)])
  /\ UpToLine(queue[r], made[KindOf(r)])
  /\ at[r] = "new" => got[r] = <<>>
  /\ at[r] = "table" => r \in LogReaders

\* A stream that was attached without a record goes on behind what it replayed
\* from the table.
Late(r) ==
  /\ at[r] \in {"replay", "drain", "last", "live"} => ~kept
  /\ at[r] # "replay" => left[r] = <<>>
  /\ Rise(got[r], left[r], queue[r])
  /\ at[r] = "attach" => UpToLine(got[r], Base(KindOf(r)))

Reading(r) == Reads(r) /\ (r \notin live => Late(r))

\* Lines up to a bound are up to a later one.
LEMMA UpToMore ==
  ASSUME NEW s \in Seq(Nat), NEW m \in Nat, NEW n \in Nat, m <= n, UpToLine(s, m)
  PROVE  UpToLine(s, n)
<1> SUFFICES ASSUME NEW i \in 1 .. Len(s) PROVE s[i] <= n
  BY DEF UpToLine
<1>1. s[i] \in Nat /\ s[i] <= m
  BY DEF UpToLine
<1> QED
  BY <1>1

\* The next line, and the end mark.
LEMMA UpToSaid ==
  ASSUME NEW s \in Seq(Nat), NEW m \in Nat, UpToLine(s, m)
  PROVE  /\ UpToLine(Append(s, m + 1), m + 1)
         /\ \A n \in Nat, x \in Nat : m <= n /\ x <= n => UpToLine(Append(s, x), n)
<1> SUFFICES ASSUME NEW n \in Nat, NEW x \in Nat, m <= n, x <= n
             PROVE  UpToLine(Append(s, x), n)
  <2>1. m + 1 \in Nat /\ m <= m + 1 /\ m + 1 <= m + 1
    OBVIOUS
  <2> QED
    BY <2>1
<1>1. /\ Len(s) \in Nat /\ Len(Append(s, x)) = Len(s) + 1 /\ Append(s, x)[Len(s) + 1] = x
      /\ \A i \in 1 .. Len(s) : Append(s, x)[i] = s[i] /\ s[i] \in Nat /\ s[i] <= m
  BY Appended DEF UpToLine
<1> SUFFICES ASSUME NEW i \in 1 .. Len(s) + 1 PROVE Append(s, x)[i] <= n
  BY <1>1 DEF UpToLine
<1>2. CASE i \in 1 .. Len(s)
  BY <1>1, <1>2
<1>3. CASE i = Len(s) + 1
  BY <1>1, <1>3
<1> QED
  BY <1>1, <1>2, <1>3

\* A line that is yielded.
LEMMA UpToTaken ==
  ASSUME NEW g \in Seq(Nat), NEW s \in Seq(Nat), NEW m \in Nat, s # <<>>,
         UpToLine(g, m), UpToLine(s, m)
  PROVE  UpToLine(Append(g, Head(s)), m) /\ UpToLine(Tail(s), m)
<1>1. /\ Len(s) \in Nat /\ Len(Tail(s)) = Len(s) - 1 /\ 1 \in 1 .. Len(s)
      /\ Head(s) = s[1] /\ s[1] \in Nat
      /\ \A i \in 1 .. Len(Tail(s)) : Tail(s)[i] = s[i + 1]
  BY Shifted
<1>2. \A i \in 1 .. Len(Tail(s)) : i + 1 \in 1 .. Len(s)
  BY <1>1
<1>3. UpToLine(Tail(s), m)
  BY <1>1, <1>2 DEF UpToLine
<1>4. s[1] <= m
  BY <1>1 DEF UpToLine
<1> QED
  BY <1>1, <1>3, <1>4, UpToSaid

\* A line behind all others.
LEMMA RiseLine ==
  ASSUME NEW s \in Seq(Nat), NEW m \in Nat, UpToLine(s, m), Rising(s),
         NEW c, c = Append(s, m + 1)
  PROVE  c \in Seq(Nat) /\ Rising(c)
         /\ \A t \in Seq(Nat) : Below(t, s) /\ UpToLine(t, m) => Below(t, c)
<1>1. /\ c \in Seq(Nat) /\ Len(s) \in Nat /\ Len(c) = Len(s) + 1 /\ c[Len(s) + 1] = m + 1
      /\ \A i \in 1 .. Len(s) : c[i] = s[i] /\ s[i] \in Nat /\ s[i] <= m
  BY Appended DEF UpToLine
<1>2. \A i \in 1 .. Len(c) : i \in 1 .. Len(s) \/ i = Len(s) + 1
  BY <1>1
<1>4. Rising(c)
  <2> SUFFICES ASSUME NEW i \in 1 .. Len(c), NEW j \in 1 .. Len(c), i < j PROVE c[i] < c[j]
    BY DEF Rising
  <2>1. i \in 1 .. Len(s)
    BY <1>1, <1>2
  <2>2. CASE j \in 1 .. Len(s)
    BY <1>1, <2>1, <2>2 DEF Rising
  <2>3. CASE j = Len(s) + 1
    <3>1. c[i] <= m /\ c[i] \in Nat /\ c[j] = m + 1
      BY <1>1, <2>1, <2>3
    <3> QED
      BY <3>1
  <2> QED
    BY <1>2, <2>2, <2>3
<1>5. ASSUME NEW t \in Seq(Nat), Below(t, s), UpToLine(t, m) PROVE Below(t, c)
  <2> SUFFICES ASSUME NEW i \in 1 .. Len(t), NEW j \in 1 .. Len(c) PROVE t[i] < c[j]
    BY DEF Below
  <2>1. t[i] \in Nat /\ t[i] <= m
    BY <1>5 DEF UpToLine
  <2>2. CASE j \in 1 .. Len(s)
    BY <1>1, <1>5, <2>2 DEF Below
  <2>3. CASE j = Len(s) + 1
    BY <1>1, <2>1, <2>3
  <2> QED
    BY <1>2, <2>2, <2>3
<1> QED
  BY <1>1, <1>4, <1>5

\* The first line of s is yielded.
LEMMA RiseTaken ==
  ASSUME NEW g \in Seq(Nat), NEW s \in Seq(Nat), s # <<>>,
         Rising(g), Rising(s), Below(g, s),
         NEW c, c = Append(g, Head(s)), NEW d, d = Tail(s)
  PROVE  /\ c \in Seq(Nat) /\ d \in Seq(Nat)
         /\ Rising(c) /\ Rising(d) /\ Below(c, d)
<1>1. /\ d \in Seq(Nat) /\ Len(s) \in Nat /\ Len(d) = Len(s) - 1 /\ 1 \in 1 .. Len(s)
      /\ Head(s) = s[1] /\ s[1] \in Nat
      /\ \A i \in 1 .. Len(d) : d[i] = s[i + 1]
  BY Shifted
<1>2. \A i \in 1 .. Len(d) : i + 1 \in 1 .. Len(s) /\ 1 < i + 1
  BY <1>1
<1>3. PICK x \in Nat : x = s[1] /\ c = Append(g, x)
  BY <1>1
<1>4. /\ c \in Seq(Nat) /\ Len(g) \in Nat /\ Len(c) = Len(g) + 1 /\ c[Len(g) + 1] = x
      /\ \A i \in 1 .. Len(g) : c[i] = g[i]
  BY <1>3, Appended
<1>5. \A i \in 1 .. Len(c) : i \in 1 .. Len(g) \/ i = Len(g) + 1
  BY <1>4
<1>7. Rising(d)
  <2> SUFFICES ASSUME NEW i \in 1 .. Len(d), NEW j \in 1 .. Len(d), i < j PROVE d[i] < d[j]
    BY DEF Rising
  <2>1. i + 1 < j + 1
    OBVIOUS
  <2> QED
    BY <1>1, <1>2, <2>1 DEF Rising
<1>8. Rising(c)
  <2> SUFFICES ASSUME NEW i \in 1 .. Len(c), NEW j \in 1 .. Len(c), i < j PROVE c[i] < c[j]
    BY DEF Rising
  <2>1. i \in 1 .. Len(g)
    BY <1>4, <1>5
  <2>2. CASE j \in 1 .. Len(g)
    BY <1>4, <2>1, <2>2 DEF Rising
  <2>3. CASE j = Len(g) + 1
    BY <1>1, <1>3, <1>4, <2>1, <2>3 DEF Below
  <2> QED
    BY <1>5, <2>2, <2>3
<1>9. Below(c, d)
  <2> SUFFICES ASSUME NEW i \in 1 .. Len(c), NEW j \in 1 .. Len(d) PROVE c[i] < d[j]
    BY DEF Below
  <2>1. CASE i \in 1 .. Len(g)
    BY <1>1, <1>2, <1>4, <2>1 DEF Below
  <2>2. CASE i = Len(g) + 1
    BY <1>1, <1>2, <1>3, <1>4, <2>2 DEF Rising
  <2> QED
    BY <1>5, <2>1, <2>2
<1> QED
  BY <1>1, <1>4, <1>7, <1>8, <1>9

\* What comes behind s still does.
LEMMA TakenBelow ==
  ASSUME NEW g \in Seq(Nat), NEW s \in Seq(Nat), NEW t \in Seq(Nat), s # <<>>,
         Below(g, t), Below(s, t), NEW c, c = Append(g, Head(s)), NEW d, d = Tail(s)
  PROVE  Below(c, t) /\ Below(d, t)
<1>1. /\ Len(s) \in Nat /\ Len(d) = Len(s) - 1 /\ 1 \in 1 .. Len(s)
      /\ Head(s) = s[1] /\ s[1] \in Nat
      /\ \A i \in 1 .. Len(d) : d[i] = s[i + 1]
  BY Shifted
<1>2. Below(d, t)
  <2>1. \A i \in 1 .. Len(d) : i + 1 \in 1 .. Len(s)
    BY <1>1
  <2> QED
    BY <1>1, <2>1 DEF Below
<1>3. PICK x \in Nat : x = s[1] /\ c = Append(g, x)
  BY <1>1
<1>4. /\ Len(g) \in Nat /\ Len(c) = Len(g) + 1 /\ c[Len(g) + 1] = x
      /\ \A i \in 1 .. Len(g) : c[i] = g[i]
  BY <1>3, Appended
<1>5. ASSUME NEW i \in 1 .. Len(c), NEW j \in 1 .. Len(t) PROVE c[i] < t[j]
  <2>1. i \in 1 .. Len(g) \/ i = Len(g) + 1
    BY <1>4
  <2>2. CASE i \in 1 .. Len(g)
    BY <1>4, <2>2 DEF Below
  <2>3. CASE i = Len(g) + 1
    BY <1>1, <1>3, <1>4, <2>3 DEF Below
  <2> QED
    BY <2>1, <2>2, <2>3
<1> QED
  BY <1>2, <1>5 DEF Below

\* A step that does not touch a stream keeps what it has read.
LEMMA ReadingStays ==
  ASSUME IInv, Counters, IInv', Counters', NEW r \in Readers, Reading(r),
         UNCHANGED <<at[r], left[r], queue[r], got[r], from[r]>>,
         r \in live <=> r \in live', kept' => kept,
         made[KindOf(r)] <= made'[KindOf(r)], Base(KindOf(r)) <= Base(KindOf(r))'
  PROVE  Reading(r)'
<1>1. PICK k \in Kinds : k = KindOf(r) /\ k = KindOf(r)'
  BY DEF KindOf, Kinds
<1>2. PICK m \in Nat, n \in Nat, b \in Nat, c \in Nat :
        m = made[k] /\ n = made'[k] /\ b = Base(k) /\ c = Base(k)' /\ m <= n /\ b <= c
  <2>1. made'[k] \in Nat /\ Base(k)' \in Nat
    <3>1. made'[k] \in Nat /\ Len(buffer'[k]) \in Nat /\ Len(buffer'[k]) <= made'[k]
      BY DEF IInv, Shape, Buffered
    <3> QED
      BY <3>1 DEF Base
  <2> QED
    BY <1>1, <2>1, LineNumbers
<1>3. left[r] \in Seq(Nat) /\ queue[r] \in Seq(Nat) /\ got[r] \in Seq(Nat) /\ from[r] \in Nat
  BY DEF IInv, Shape, Reading, Reads
<1>4. UpToLine(got[r], n) /\ UpToLine(left[r], n) /\ UpToLine(queue[r], n) /\ from[r] <= n
  BY <1>1, <1>2, <1>3, UpToMore DEF Reading, Reads
<1>5. Reads(r)'
  BY <1>1, <1>2, <1>3, <1>4 DEF Reading, Reads
<1>6. ASSUME r \notin live PROVE Late(r)'
  <2>1. Late(r)
    BY <1>6 DEF Reading
  <2>2. at[r] = "attach" => UpToLine(got[r], c)
    BY <1>1, <1>2, <1>3, <2>1, UpToMore DEF Late
  <2> QED
    BY <1>1, <1>2, <2>1, <2>2 DEF Late
<1> QED
  BY <1>5, <1>6 DEF Reading

\* The lines said never become fewer, no line comes back into a buffer, and a record
\* that is gone stays so.
LEMMA Grows ==
  ASSUME IInv, Counters, IInv', [Next]_vars
  PROVE  /\ kept' => kept
         /\ \A k \in Kinds : made[k] <= made'[k] /\ Base(k) <= Base(k)'
<1> DEFINE More == \A k \in Kinds : made[k] <= made'[k] /\ Base(k) <= Base(k)'
<1>1. \A k \in Kinds : /\ made[k] \in Nat /\ Base(k) \in Nat /\ Base(k) <= made[k]
                       /\ made[k] <= made[k] /\ Base(k) <= Base(k)
  BY LineNumbers
<1>2. ASSUME NEW k \in Kinds, made' = [made EXCEPT ![k] = made[k] + 1],
             buffer' = [buffer EXCEPT ![k] = Cap(Append(@, made[k] + 1))]
      PROVE  More
  <2> SUFFICES ASSUME NEW j \in Kinds PROVE made[j] <= made'[j] /\ Base(j) <= Base(j)'
    OBVIOUS
  <2>1. /\ made'[j] = IF j = k THEN made[j] + 1 ELSE made[j]
        /\ made[j] - Len(buffer[j]) <= made'[j] - Len(buffer'[j])
    BY <1>2, Saying
  <2>2. made[j] <= made'[j]
    BY <1>1, <2>1
  <2> QED
    BY <2>1, <2>2 DEF Base
<1>3. ASSUME UNCHANGED <<made, buffer>> PROVE More
  BY <1>1, <1>3 DEF Base
<1>4. ASSUME made' = made, \A k \in Kinds : buffer'[k] = <<>> PROVE More
  BY <1>1, <1>4 DEF Base
<1> HIDE DEF More
<1>5. ASSUME NEW k \in Kinds, Emit(k) PROVE kept' = kept /\ More
  BY <1>2, <1>5 DEF Emit
<1>6. ASSUME NEW s \in Terminal, End(s) PROVE kept' = kept /\ More
  <2>1. "log" \in Kinds
    BY DEF Kinds
  <2>2. \/ UNCHANGED <<made, buffer>>
        \/ /\ made' = [made EXCEPT !["log"] = made["log"] + 1]
           /\ buffer' = [buffer EXCEPT !["log"] = Cap(Append(@, made["log"] + 1))]
    BY <1>6 DEF End
  <2>3. kept' = kept
    BY <1>6 DEF End
  <2> QED
    BY <1>2, <1>3, <2>1, <2>2, <2>3
<1>7. ASSUME Evict \/ Restart PROVE kept' = FALSE /\ More
  BY <1>4, <1>7 DEF Evict, Restart
<1>8. ASSUME UNCHANGED <<kept, made, buffer>> PROVE kept' = kept /\ More
  BY <1>3, <1>8
<1>9. CASE Start \/ AppendEvent \/ AppendFails \/ UNCHANGED vars
           \/ \E r \in Readers : Open(r) \/ ReaderStep(r) \/ Disconnect(r)
  <2>1. UNCHANGED <<kept, made, buffer>>
    BY <1>9 DEF Start, AppendEvent, AppendFails, vars, Open, ReaderStep, ReplayTable, Attach,
       ReplayLine, Receive, Drained, Disconnect, job
  <2> QED
    BY <1>8, <2>1 DEF More
<1>10. CASE ~(Start \/ AppendEvent \/ AppendFails \/ UNCHANGED vars
              \/ \E r \in Readers : Open(r) \/ ReaderStep(r) \/ Disconnect(r))
  <2>1. Evict \/ Restart \/ (\E k \in Kinds : Emit(k)) \/ (\E s \in Terminal : End(s))
    BY <1>10 DEF Next
  <2>2. (kept' => kept) /\ More
    BY <1>5, <1>6, <1>7, <2>1
  <2> QED
    BY <2>2 DEF More
<1> QED
  BY <1>9, <1>10

\* A line that the job says comes to the streams of its kind.
LEMMA ReadingEmit ==
  ASSUME IInv, Counters, IInv', Counters', NEW k \in Kinds, Emit(k),
         NEW r \in Readers, Reading(r)
  PROVE  Reading(r)'
<1> DEFINE msgs == [j \in Kinds |-> IF j = k THEN <<made[k] + 1>> ELSE <<>>]
<1>1. /\ made' = [made EXCEPT ![k] = made[k] + 1]
      /\ Tell(msgs)
      /\ UNCHANGED <<status, kept, worker, atEnd, faults, at, left, got, live, from>>
  BY DEF Emit
<1>2. made[k] \in Nat /\ msgs \in [Kinds -> Seq(Nat)]
  <2>1. made[k] \in Nat
    BY DEF IInv, Shape
  <2>2. <<made[k] + 1>> \in Seq(Nat) /\ <<>> \in Seq(Nat)
    BY <2>1
  <2> QED
    BY <2>1, <2>2
<1>3. \A j \in Kinds : msgs[j] = IF j = k THEN <<made[k] + 1>> ELSE <<>>
  OBVIOUS
<1> HIDE DEF msgs
<1>4. queue'[r] = IF at[r] \in {"replay", "drain", "last", "live"}
                  THEN queue[r] \o msgs[KindOf(r)] ELSE queue[r]
  BY <1>1, <1>2, TellStep
<1>5. made[KindOf(r)] <= made'[KindOf(r)] /\ Base(KindOf(r)) <= Base(KindOf(r))'
  <2>1. [Next]_vars
    BY DEF Next
  <2> QED
    BY <2>1, Grows DEF KindOf, Kinds
<1>6. CASE queue'[r] = queue[r]
  BY <1>1, <1>5, <1>6, ReadingStays
<1>7. CASE at[r] \in {"replay", "drain", "last", "live"} /\ KindOf(r) = k
  <2>1. PICK m \in Nat, q \in Seq(Nat), l \in Seq(Nat), g \in Seq(Nat) :
          m = made[k] /\ q = queue[r] /\ l = left[r] /\ g = got[r]
          /\ UpToLine(q, m) /\ UpToLine(l, m) /\ UpToLine(g, m)
    BY <1>2, <1>7 DEF IInv, Shape, Reading, Reads
  <2>2. PICK c : c = queue'[r]
    OBVIOUS
  <2>3. c = Append(q, m + 1)
    <3>1. c = q \o <<m + 1>>
      BY <1>3, <1>4, <1>7, <2>1, <2>2
    <3> QED
      BY <3>1
  <2>4. m + 1 \in Nat /\ m <= m + 1 /\ made'[k] = m + 1
    BY <1>1, <2>1 DEF IInv, Shape
  <2>5. UpToLine(c, m + 1) /\ UpToLine(l, m + 1) /\ UpToLine(g, m + 1)
    BY <2>1, <2>3, <2>4, UpToSaid, UpToMore
  <2>6. from'[r] <= m + 1
    <3>1. from[r] \in Nat /\ from[r] <= m
      BY <1>7, <2>1 DEF IInv, Shape, Reading, Reads
    <3> QED
      BY <1>1, <3>1
  <2>7. Reads(r)'
    BY <1>1, <1>7, <2>1, <2>2, <2>4, <2>5, <2>6 DEF Reading, Reads, KindOf
  <2>8. ASSUME r \notin live PROVE Late(r)'
    <3>1. Late(r) /\ Rise(g, l, q)
      BY <2>1, <2>8 DEF Reading, Late
    <3>2. Rise(g, l, c)
      BY <2>1, <2>3, <3>1, RiseLine DEF Rise
    <3> QED
      BY <1>1, <1>7, <2>1, <2>2, <3>1, <3>2 DEF Late
  <2> QED
    BY <1>1, <2>7, <2>8 DEF Reading
<1>8. CASE at[r] \in {"replay", "drain", "last", "live"} /\ KindOf(r) # k
  <2>1. KindOf(r) \in Kinds
    BY DEF KindOf, Kinds
  <2>2. queue'[r] = queue[r] \o <<>> /\ queue[r] \in Seq(Nat)
    BY <1>3, <1>4, <1>8, <2>1 DEF IInv, Shape
  <2> QED
    BY <1>6, <2>2
<1> QED
  BY <1>4, <1>6, <1>7, <1>8

\* Messages come behind a queue one by one.
LEMMA ToldInTurn ==
  ASSUME NEW q \in Seq(Nat), NEW x \in Nat, NEW y \in Nat
  PROVE  q \o <<x>> = Append(q, x) /\ q \o <<x, y>> = Append(Append(q, x), y)
  OBVIOUS

\* The end of the job comes to all streams; those that are open are live.
LEMMA ReadingEnd ==
  ASSUME IInv, Counters, IInv', Counters', NEW s \in Terminal, End(s),
         NEW r \in Readers, Reading(r)
  PROVE  Reading(r)'
<1>1. /\ status \in {"pending", "running"} /\ kept
      /\ UNCHANGED <<kept, faults, at, left, got, live, from>>
  BY DEF End, IInv, Buffered
<1>0. made["log"] \in Nat
  BY DEF IInv, Shape, Kinds
<1>2. PICK n \in Nat : n = made["log"] + 1
  BY <1>0
<1> DEFINE Good == [j \in Kinds |-> <<EndMark>>]
           Bad  == [j \in Kinds |-> IF j = "log" THEN <<n, EndMark>> ELSE <<EndMark>>]
<1>3. /\ Good \in [Kinds -> Seq(Nat)] /\ Bad \in [Kinds -> Seq(Nat)]
      /\ \A j \in Kinds : Good[j] = <<EndMark>>
      /\ \A j \in Kinds : Bad[j] = IF j = "log" THEN <<n, EndMark>> ELSE <<EndMark>>
  <2>1. <<EndMark>> \in Seq(Nat) /\ <<n, EndMark>> \in Seq(Nat)
    BY DEF EndMark
  <2> QED
    BY <2>1
<1>4. \/ made' = made /\ Tell(Good)
      \/ made' = [made EXCEPT !["log"] = made["log"] + 1] /\ Tell(Bad)
  BY <1>2 DEF End
<1> HIDE DEF Good, Bad
<1>5. PICK msgs \in [Kinds -> Seq(Nat)] :
        /\ Tell(msgs)
        /\ \/ msgs = Good /\ made' = made
           \/ msgs = Bad /\ made' = [made EXCEPT !["log"] = made["log"] + 1]
  BY <1>3, <1>4
<1>6. queue'[r] = IF at[r] \in {"replay", "drain", "last", "live"}
                  THEN queue[r] \o msgs[KindOf(r)] ELSE queue[r]
  BY <1>5, TellStep
<1>7. made[KindOf(r)] <= made'[KindOf(r)] /\ Base(KindOf(r)) <= Base(KindOf(r))'
  <2>1. [Next]_vars
    BY DEF Next
  <2> QED
    BY <2>1, Grows DEF KindOf, Kinds
<1>8. CASE at[r] \notin {"replay", "drain", "last", "live"}
  BY <1>1, <1>6, <1>7, <1>8, ReadingStays
<1>9. CASE at[r] \in {"replay", "drain", "last", "live"}
  <2>1. r \in live
    BY <1>1, <1>9 DEF Reading, Late
  <2>2. PICK k \in Kinds : k = KindOf(r) /\ k = KindOf(r)'
    BY DEF KindOf, Kinds
  <2>3. PICK m \in Nat, o \in Nat, q \in Seq(Nat) :
          /\ m = made[k] /\ o = made'[k] /\ q = queue[r] /\ m <= o
          /\ UpToLine(q, m)
    BY <1>7, <2>2 DEF IInv, Shape, Reading, Reads
  <2>4. UpToLine(queue'[r], o)
    <3>1. 0 \in Nat /\ 0 <= o /\ o <= o /\ EndMark = 0
      BY <2>3 DEF EndMark
    <3>2. CASE msgs[k] = <<EndMark>>
      <4>1. queue'[r] = Append(q, 0)
        BY <1>6, <1>9, <2>2, <2>3, <3>1, <3>2, ToldInTurn
      <4> QED
        BY <2>3, <3>1, <4>1, UpToSaid
    <3>3. CASE msgs[k] = <<n, EndMark>> /\ o = n
      <4>1. queue'[r] = Append(Append(q, o), 0)
        <5>1. queue'[r] = q \o <<o, 0>>
          BY <1>6, <1>9, <2>2, <2>3, <3>1, <3>3
        <5> QED
          BY <3>1, <5>1, ToldInTurn
      <4>2. UpToLine(Append(q, o), o) /\ Append(q, o) \in Seq(Nat)
        BY <2>3, <3>1, UpToSaid, Appended
      <4> QED
        BY <2>3, <3>1, <4>1, <4>2, UpToSaid
    <3>4. msgs[k] = <<EndMark>> \/ (msgs[k] = <<n, EndMark>> /\ o = n)
      <4>1. CASE msgs = Good
        BY <1>3, <4>1
      <4>2. CASE msgs = Bad /\ made' = [made EXCEPT !["log"] = made["log"] + 1]
        <5>1. CASE k = "log"
          BY <1>2, <1>3, <2>3, <4>2, <5>1 DEF IInv, Shape
        <5>2. CASE k # "log"
          BY <1>3, <4>2, <5>2
        <5> QED
          BY <5>1, <5>2
      <4> QED
        BY <1>5, <4>1, <4>2
    <3> QED
      BY <3>2, <3>3, <3>4
  <2>5. /\ got[r] \in Seq(Nat) /\ left[r] \in Seq(Nat) /\ from[r] \in Nat
        /\ from[r] <= m /\ UpToLine(got[r], m) /\ UpToLine(left[r], m)
    BY <2>2, <2>3 DEF IInv, Shape, Reading, Reads
  <2>6. UpToLine(got[r], o) /\ UpToLine(left[r], o) /\ from[r] <= o
    BY <2>3, <2>5, UpToMore
  <2>7. Reads(r)'
    BY <1>1, <1>9, <2>2, <2>3, <2>4, <2>5, <2>6 DEF Reads
  <2> QED
    BY <1>1, <2>1, <2>7 DEF Reading
<1> QED
  BY <1>8, <1>9

\* A stream of no lines.
LEMMA Nothing ==
  /\ \A s \in Seq(Nat) : Rising(s) => Rise(s, <<>>, <<>>)
  /\ \A m : UpToLine(<<>>, m)
  /\ Rising(<<>>) /\ <<>> \in Seq(Nat)
  BY DEF Rise, Rising, Below, UpToLine

\* What is left of a stream after a restart of the server.
LEMMA ReadingRestart ==
  ASSUME IInv, Restart, NEW r \in Readers, Reading(r)
  PROVE  Reading(r)'
<1>1. /\ left'[r] = <<>> /\ queue'[r] = <<>> /\ made' = made
      /\ at'[r] = IF at[r] \in {"new", "done"} THEN at[r] ELSE "gone"
      /\ got'[r] = IF at'[r] = "gone" THEN <<>> ELSE got[r]
      /\ from'[r] = IF at'[r] = "gone" THEN 0 ELSE from[r]
      /\ r \in live' <=> r \in live /\ at'[r] # "gone"
  BY DEF Restart
<1>2. PICK k \in Kinds : k = KindOf(r) /\ k = KindOf(r)'
  BY DEF KindOf, Kinds
<1>3. made[k] \in Nat /\ got[r] \in Seq(Nat) /\ 0 <= made[k]
  BY DEF IInv, Shape, Reading, Reads
<1>4. Reads(r)'
  BY <1>1, <1>2, <1>3, Nothing DEF Reading, Reads
<1>5. ASSUME r \notin live' PROVE Late(r)'
  <2>1. got'[r] \in Seq(Nat) /\ Rising(got'[r])
    <3>1. CASE at'[r] = "gone"
      BY <1>1, <3>1, Nothing
    <3>2. CASE at'[r] # "gone"
      BY <1>1, <1>3, <1>5, <3>2 DEF Reading, Late, Rise
    <3> QED
      BY <3>1, <3>2
  <2>2. Rise(got'[r], left'[r], queue'[r])
    BY <1>1, <2>1, Nothing
  <2>3. at'[r] \notin {"replay", "drain", "last", "live", "attach"}
    BY <1>1
  <2> QED
    BY <1>1, <2>2, <2>3 DEF Late
<1> QED
  BY <1>4, <1>5 DEF Reading

\* A stream that is opened.
LEMMA ReadingOpen ==
  ASSUME IInv, NEW r \in Readers, Open(r), Reading(r)
  PROVE  Reading(r)'
<1>1. /\ at[r] = "new" /\ UNCHANGED <<job, left, queue, got, live, from>>
      /\ at'[r] = IF kept THEN "attach" ELSE IF r \in LogReaders THEN "table" ELSE "done"
  BY DEF Open, IInv, Shape
<1>2. /\ left[r] = <<>> /\ queue[r] = <<>> /\ got[r] = <<>> /\ made' = made
      /\ at'[r] \notin {"replay", "drain", "last", "live", "new"}
      /\ at'[r] = "table" => r \in LogReaders
  BY <1>1 DEF IInv, Unattached, Reading, Reads, job
<1>3. Reads(r)'
  BY <1>1, <1>2 DEF Reading, Reads, KindOf
<1>4. Late(r)'
  BY <1>1, <1>2, Nothing DEF Late
<1> QED
  BY <1>3, <1>4 DEF Reading

\* What one query lists is the beginning of the table.
LEMMA ListedBegins ==
  ASSUME Table
  PROVE  /\ Listed \in Seq(Event)
         /\ \A k \in Kinds : UpTo(Listed, k, Stored(k)) /\ InOrder(Listed, k)
<1>1. PICK n \in Nat : n <= Len(rows) /\ Listed = SubSeq(rows, 1, n)
  BY ConstantsAssumption DEF Listed, Table
<1>2. /\ Listed \in Seq(Event) /\ Len(Listed) = n /\ rows \in Seq(Event)
      /\ \A i \in 1 .. n : i \in 1 .. Len(rows) /\ Listed[i] = rows[i]
  BY <1>1 DEF Table
<1> QED
  BY <1>2 DEF Table, Ordered, UpTo, InOrder

\* A replay of the table yields lines that the buffer will not have.
LEMMA ReadingTable ==
  ASSUME IInv, Counters, Table, NEW r \in Readers, ReplayTable(r), Reading(r)
  PROVE  Reading(r)'
<1>1. /\ at[r] = "table" /\ at'[r] = "attach" /\ UNCHANGED <<job, left, queue, live, from>>
      /\ got'[r] = LinesOf(Listed, "log")
  BY DEF ReplayTable, IInv, Shape
<1>2. /\ left[r] = <<>> /\ queue[r] = <<>> /\ r \notin live /\ ~kept
      /\ r \in LogReaders /\ KindOf(r) = "log" /\ KindOf(r)' = "log"
  BY <1>1 DEF IInv, Unattached, Reading, Reads, KindOf
<1>3. PICK m \in Nat, b \in Nat : m = made["log"] /\ b = Base("log") /\ b <= m
  BY LineNumbers DEF Kinds
<1>4. UpTo(Listed, "log", b) /\ InOrder(Listed, "log") /\ Listed \in Seq(Event)
  BY <1>2, <1>3, ListedBegins DEF Stored, Kinds
<1>5. PICK g \in Seq(Nat) : g = got'[r] /\ Rising(g) /\ UpToLine(g, b)
  BY <1>1, <1>4, LinesRise
<1>6. UpToLine(g, m)
  BY <1>3, <1>5, UpToMore
<1>7. made' = made /\ Base("log")' = b /\ kept' = kept
  BY <1>1, <1>3 DEF job, Base
<1>8. Reads(r)'
  BY <1>1, <1>2, <1>3, <1>5, <1>6, <1>7, Nothing DEF Reading, Reads
<1>9. Late(r)'
  BY <1>1, <1>2, <1>5, <1>7, Nothing DEF Late
<1> QED
  BY <1>8, <1>9 DEF Reading

\* The lines of a buffer.
LEMMA BufferLines ==
  ASSUME NEW s \in Seq(Nat), NEW b \in Nat, NEW m \in Nat, b + Len(s) = m, Follows(s, b)
  PROVE  /\ UpToLine(s, m) /\ Rising(s)
         /\ \A g \in Seq(Nat) : UpToLine(g, b) => Below(g, s)
<1>1. Len(s) \in Nat /\ \A i \in 1 .. Len(s) : s[i] = b + i
  BY DEF Follows
<1>2. UpToLine(s, m)
  <2> SUFFICES ASSUME NEW i \in 1 .. Len(s) PROVE s[i] <= m
    BY DEF UpToLine
  <2>1. s[i] = b + i /\ i <= Len(s)
    BY <1>1
  <2> QED
    BY <1>1, <2>1
<1>3. Rising(s)
  <2> SUFFICES ASSUME NEW i \in 1 .. Len(s), NEW j \in 1 .. Len(s), i < j PROVE s[i] < s[j]
    BY DEF Rising
  <2>1. s[i] = b + i /\ s[j] = b + j
    BY <1>1
  <2> QED
    BY <2>1
<1>4. ASSUME NEW g \in Seq(Nat), UpToLine(g, b) PROVE Below(g, s)
  <2> SUFFICES ASSUME NEW i \in 1 .. Len(g), NEW j \in 1 .. Len(s) PROVE g[i] < s[j]
    BY DEF Below
  <2>1. g[i] \in Nat /\ g[i] <= b /\ s[j] = b + j
    BY <1>1, <1>4 DEF UpToLine
  <2> QED
    BY <2>1
<1> QED
  BY <1>2, <1>3, <1>4

\* The copied buffer goes on behind what was replayed.
LEMMA ReadingAttach ==
  ASSUME IInv, Counters, NEW r \in Readers, Attach(r), Reading(r)
  PROVE  Reading(r)'
<1>1. /\ UNCHANGED <<job, queue>> /\ at[r] = "attach"
      /\ live' = IF kept THEN live \union {r} ELSE live
  BY DEF Attach
<1>2. PICK k \in Kinds : k = KindOf(r) /\ k = KindOf(r)'
  BY DEF KindOf, Kinds
<1>3. PICK s \in Seq(Nat), b \in Nat, m \in Nat, g \in Seq(Nat) :
        /\ s = buffer[k] /\ b = Base(k) /\ m = made[k] /\ g = got[r] /\ b <= m
        /\ b + Len(s) = m /\ Follows(s, b) /\ UpToLine(g, m)
  <2>1. /\ buffer[k] \in Seq(Nat) /\ made[k] \in Nat /\ got[r] \in Seq(Nat)
        /\ Base(k) \in Nat /\ Base(k) <= made[k] /\ Len(buffer[k]) \in Nat
        /\ Follows(buffer[k], Base(k)) /\ UpToLine(got[r], made[k])
    BY <1>2, LineNumbers DEF IInv, Shape, Buffered, Base, Reading, Reads
  <2>2. Base(k) + Len(buffer[k]) = made[k]
    BY <2>1 DEF Base
  <2> QED
    BY <2>1, <2>2
<1>4. left[r] = <<>> /\ queue[r] = <<>> /\ r \notin live
  BY <1>1 DEF IInv, Unattached
<1>5. from'[r] = b /\ made' = made /\ kept' = kept
  BY <1>1, <1>2, <1>3 DEF Attach, IInv, Shape, Base, job
<1>6. UpToLine(s, m) /\ Rising(s) /\ (UpToLine(g, b) => Below(g, s))
  BY <1>3, BufferLines
<1>7. r \notin live' => ~kept /\ Rising(g) /\ UpToLine(g, b)
  BY <1>1, <1>2, <1>3, <1>4 DEF Reading, Late, Rise
<1>8. CASE r \in LogReaders
  <2>1. left'[r] = s /\ at'[r] = "replay" /\ got'[r] = g /\ queue'[r] = <<>>
    BY <1>1, <1>2, <1>3, <1>4, <1>8 DEF Attach, KindOf, IInv, Shape
  <2>2. Reads(r)'
    BY <1>2, <1>3, <1>5, <1>6, <2>1, Nothing DEF Reads
  <2>3. r \notin live' => Rise(g, s, <<>>)
    BY <1>6, <1>7 DEF Rise, Rising, Below
  <2>4. r \notin live' => Late(r)'
    BY <1>5, <1>7, <2>1, <2>3 DEF Late
  <2> QED
    BY <2>2, <2>4 DEF Reading
<1>9. CASE r \notin LogReaders
  <2>1. /\ got'[r] = s /\ left'[r] = <<>> /\ queue'[r] = <<>>
        /\ at'[r] = IF kept /\ status \in Terminal THEN "done" ELSE "live"
    BY <1>1, <1>2, <1>3, <1>4, <1>9 DEF Attach, KindOf, IInv, Shape
  <2>2. Reads(r)'
    BY <1>2, <1>3, <1>5, <1>6, <2>1, Nothing DEF Reads
  <2>3. r \notin live' => Late(r)'
    BY <1>3, <1>5, <1>6, <1>7, <2>1, Nothing DEF Late
  <2> QED
    BY <2>2, <2>3 DEF Reading
<1> QED
  BY <1>8, <1>9

\* A line of the copied buffer is yielded.
LEMMA ReadingReplay ==
  ASSUME IInv, NEW r \in Readers, ReplayLine(r), Reading(r)
  PROVE  Reading(r)'
<1>1. UNCHANGED <<job, queue, live, from>> /\ at[r] = "replay"
  BY DEF ReplayLine
<1>2. PICK k \in Kinds : k = KindOf(r) /\ k = KindOf(r)'
  BY DEF KindOf, Kinds
<1>3. PICK g \in Seq(Nat), l \in Seq(Nat), q \in Seq(Nat), m \in Nat :
        /\ g = got[r] /\ l = left[r] /\ q = queue[r] /\ m = made[k] /\ from[r] <= m
        /\ UpToLine(g, m) /\ UpToLine(l, m) /\ UpToLine(q, m)
  BY <1>2 DEF IInv, Shape, Reading, Reads
<1>4. made' = made /\ kept' = kept /\ queue'[r] = q /\ from'[r] <= m
  BY <1>1, <1>3 DEF job
<1>5. CASE left[r] # <<>>
  <2>1. PICK c \in Seq(Nat), d \in Seq(Nat) : c = Append(g, Head(l)) /\ d = Tail(l)
    BY <1>3, <1>5, Shifted, Appended
  <2>2. at'[r] = "replay" /\ got'[r] = c /\ left'[r] = d
    BY <1>1, <1>3, <1>5, <2>1 DEF ReplayLine, IInv, Shape
  <2>3. UpToLine(c, m) /\ UpToLine(d, m)
    BY <1>3, <1>5, <2>1, UpToTaken
  <2>4. Reads(r)'
    BY <1>2, <1>3, <1>4, <2>2, <2>3 DEF Reads
  <2>5. ASSUME r \notin live PROVE Late(r)'
    <3>1. ~kept /\ Rise(g, l, q)
      BY <1>1, <1>3, <2>5 DEF Reading, Late
    <3>2. Rise(c, d, q)
      <4>1. /\ l # <<>> /\ Rising(g) /\ Rising(l) /\ Rising(q)
            /\ Below(g, l) /\ Below(g, q) /\ Below(l, q)
        BY <1>3, <1>5, <3>1 DEF Rise
      <4>2. Rising(c) /\ Rising(d) /\ Below(c, d)
        BY <2>1, <4>1, RiseTaken
      <4>3. Below(c, q) /\ Below(d, q)
        BY <2>1, <4>1, TakenBelow
      <4> QED
        BY <4>1, <4>2, <4>3 DEF Rise
    <3> QED
      BY <1>4, <2>2, <3>1, <3>2 DEF Late
  <2> QED
    BY <1>1, <2>4, <2>5 DEF Reading
<1>6. CASE left[r] = <<>>
  <2>1. at'[r] \in {"last", "drain"} /\ got'[r] = g /\ left'[r] = <<>> /\ l = <<>>
    BY <1>1, <1>3, <1>6 DEF ReplayLine, IInv, Shape
  <2>2. Reads(r)'
    BY <1>2, <1>3, <1>4, <2>1, Nothing DEF Reads
  <2>3. ASSUME r \notin live PROVE Late(r)'
    BY <1>1, <1>3, <1>4, <2>1, <2>3 DEF Reading, Late
  <2> QED
    BY <1>1, <2>2, <2>3 DEF Reading
<1> QED
  BY <1>5, <1>6

\* A line from the queue is yielded, or the end mark ends the stream.
LEMMA ReadingReceive ==
  ASSUME IInv, NEW r \in Readers, Receive(r), Reading(r)
  PROVE  Reading(r)'
<1>1. /\ UNCHANGED <<job, live, from>> /\ queue[r] # <<>>
      /\ at[r] \in {"drain", "last", "live"}
  BY DEF Receive
<1>2. PICK k \in Kinds : k = KindOf(r) /\ k = KindOf(r)'
  BY DEF KindOf, Kinds
<1>3. PICK g \in Seq(Nat), l \in Seq(Nat), q \in Seq(Nat), m \in Nat :
        /\ g = got[r] /\ l = left[r] /\ q = queue[r] /\ m = made[k] /\ from[r] <= m
        /\ UpToLine(g, m) /\ UpToLine(l, m) /\ UpToLine(q, m)
  BY <1>2 DEF IInv, Shape, Reading, Reads
<1>4. made' = made /\ kept' = kept /\ from'[r] <= m
  BY <1>1, <1>3 DEF job
<1>5. CASE Head(queue[r]) = EndMark
  <2>1. at'[r] = "done" /\ got'[r] = g /\ left'[r] = <<>> /\ queue'[r] = <<>>
    BY <1>3, <1>5 DEF Receive, Leave, IInv, Shape
  <2>2. Reads(r)'
    BY <1>2, <1>3, <1>4, <2>1, Nothing DEF Reads
  <2>3. ASSUME r \notin live PROVE Late(r)'
    <3>1. Rising(g)
      BY <1>3, <2>3 DEF Reading, Late, Rise
    <3>2. Rise(g, <<>>, <<>>)
      BY <3>1, Nothing
    <3> QED
      BY <2>1, <3>2 DEF Late
  <2> QED
    BY <1>1, <2>2, <2>3 DEF Reading
<1>6. CASE Head(queue[r]) # EndMark
  <2>1. PICK c \in Seq(Nat), d \in Seq(Nat) : c = Append(g, Head(q)) /\ d = Tail(q)
    BY <1>1, <1>3, Shifted, Appended
  <2>2. at'[r] = at[r] /\ got'[r] = c /\ left'[r] = l /\ queue'[r] = d
    BY <1>3, <1>6, <2>1 DEF Receive, IInv, Shape
  <2>3. UpToLine(c, m) /\ UpToLine(d, m)
    BY <1>1, <1>3, <2>1, UpToTaken
  <2>4. Reads(r)'
    BY <1>1, <1>2, <1>3, <1>4, <2>2, <2>3 DEF Reads
  <2>5. ASSUME r \notin live PROVE Late(r)'
    <3>1. ~kept /\ l = <<>> /\ Rise(g, l, q)
      BY <1>1, <1>3, <2>5 DEF Reading, Late
    <3>2. Rising(c) /\ Rising(d) /\ Below(c, d)
      <4>1. q # <<>> /\ Rising(g) /\ Rising(q) /\ Below(g, q)
        BY <1>1, <1>3, <3>1 DEF Rise
      <4> QED
        BY <2>1, <4>1, RiseTaken
    <3>3. Rise(c, l, d)
      BY <3>1, <3>2 DEF Rise, Below
    <3> QED
      BY <1>1, <1>4, <2>2, <3>1, <3>3 DEF Late
  <2> QED
    BY <1>1, <2>4, <2>5 DEF Reading
<1> QED
  BY <1>5, <1>6

\* The queue is empty.
LEMMA ReadingDrained ==
  ASSUME IInv, NEW r \in Readers, Drained(r), Reading(r)
  PROVE  Reading(r)'
<1>1. /\ UNCHANGED <<job, got, live, from>> /\ queue[r] = <<>>
      /\ at[r] \in {"drain", "last"}
  BY DEF Drained
<1>2. at'[r] \in {"done", "live"} /\ queue'[r] = <<>> /\ (left'[r] = left[r] \/ left'[r] = <<>>)
  BY <1>1 DEF Drained, Leave, IInv, Shape
<1>3. Reads(r)'
  BY <1>1, <1>2, Nothing DEF Reading, Reads, KindOf, job
<1>4. ASSUME r \notin live PROVE Late(r)'
  <2>1. ~kept /\ left'[r] = <<>> /\ Rise(got'[r], left'[r], queue'[r])
    BY <1>1, <1>2, <1>4 DEF Reading, Late
  <2> QED
    BY <1>1, <1>2, <2>1 DEF Late, job
<1> QED
  BY <1>1, <1>3, <1>4 DEF Reading

\* Every step keeps what the streams have read.
LEMMA ReadingKept ==
  ASSUME IInv, Counters, Table, \A r \in Readers : Reading(r), IInv', Counters', [Next]_vars
  PROVE  \A r \in Readers : Reading(r)'
<1> SUFFICES ASSUME NEW r \in Readers PROVE Reading(r)'
  OBVIOUS
<1>1. /\ kept' => kept
      /\ made[KindOf(r)] <= made'[KindOf(r)] /\ Base(KindOf(r)) <= Base(KindOf(r))'
  BY Grows DEF KindOf, Kinds
<1>2. ASSUME UNCHANGED <<at[r], left[r], queue[r], got[r], from[r]>>, r \in live <=> r \in live'
      PROVE  Reading(r)'
  BY <1>1, <1>2, ReadingStays
<1>3. ASSUME NEW k \in Kinds, Emit(k) PROVE Reading(r)'
  BY <1>3, ReadingEmit
<1>4. ASSUME NEW s \in Terminal, End(s) PROVE Reading(r)'
  BY <1>4, ReadingEnd
<1>5. CASE Restart
  BY <1>5, ReadingRestart
<1>6. CASE Start \/ Evict \/ AppendEvent \/ AppendFails \/ UNCHANGED vars
  BY <1>2, <1>6 DEF Start, Evict, AppendEvent, AppendFails, vars, streams
<1>7. ASSUME NEW s \in Readers, Open(s) \/ ReaderStep(s) \/ Disconnect(s) PROVE Reading(r)'
  <2>1. CASE s = r
    <3>1. CASE Disconnect(r)
      <4>1. /\ at'[r] = "gone" /\ left'[r] = <<>> /\ queue'[r] = <<>> /\ got'[r] = <<>>
            /\ from'[r] = 0 /\ made' = made
        BY <3>1 DEF Disconnect, Leave, IInv, Shape, job
      <4>2. 0 <= made[KindOf(r)]
        BY DEF IInv, Shape, KindOf, Kinds
      <4>3. Reads(r)'
        BY <4>1, <4>2, Nothing DEF Reads, KindOf
      <4> QED
        BY <4>1, <4>3, Nothing DEF Reading, Late
    <3> QED
      BY <1>7, <2>1, <3>1, ReadingOpen, ReadingTable, ReadingAttach, ReadingReplay,
         ReadingReceive, ReadingDrained DEF ReaderStep
  <2>2. CASE s # r
    <3>1. UNCHANGED <<at[r], left[r], queue[r], got[r], from[r]>> /\ (r \in live <=> r \in live')
      BY <1>7, <2>2 DEF Open, ReaderStep, ReplayTable, Attach, ReplayLine, Receive, Drained,
         Disconnect, Leave, IInv, Shape
    <3> QED
      BY <1>2, <3>1
  <2> QED
    BY <2>1, <2>2
<1> QED
  BY <1>3, <1>4, <1>5, <1>6, <1>7 DEF Next

-----------------------------------------------------------------------------
(* The invariant of the table and of the streams from it.                  *)

\* A job without a line and its streams.
LEMMA InitMore == Init => Counters /\ Table /\ \A r \in Readers : Reading(r)
<1> SUFFICES ASSUME Init PROVE Counters /\ Table /\ \A r \in Readers : Reading(r)
  OBVIOUS
<1>1. /\ \A k \in Kinds : MaxLines[k] \in Nat /\ made[k] = 0 /\ buffer[k] = <<>>
      /\ "log" \in Kinds /\ MaxBuffer \in Nat /\ MaxFaults \in Nat
  BY ConstantsAssumption DEF Init, Kinds
<1>2. Counters
  BY <1>1 DEF Init, Counters
<1>3. Table
  <2>1. PICK e \in Event : e = StatusIs("pending") /\ e.type = "status"
    BY Events
  <2>2. tasks = <<e>> /\ rows = <<>>
    BY <2>1 DEF Init
  <2>3. tasks \in Seq(Event) /\ rows \in Seq(Event)
    BY <2>2
  <2>4. ASSUME NEW k \in Kinds PROVE Ordered(rows, tasks, k, Stored(k))
    <3>1. e.type # k
      BY <2>1 DEF Kinds
    <3>2. Len(tasks) = 1 /\ Len(rows) = 0 /\ tasks[1] = e
      BY <2>2
    <3> QED
      BY <3>1, <3>2 DEF Ordered, UpTo, InOrder, Before
  <2> QED
    BY <2>3, <2>4 DEF Table
<1>4. ASSUME NEW r \in Readers PROVE Reading(r)
  <2>1. /\ at[r] = "new" /\ left[r] = <<>> /\ queue[r] = <<>> /\ got[r] = <<>> /\ from[r] = 0
        /\ made[KindOf(r)] = 0
    BY <1>1, <1>4 DEF Init, KindOf, Kinds
  <2>2. Reads(r)
    BY <2>1, Nothing DEF Reads
  <2>3. Late(r)
    BY <2>1, Nothing DEF Late
  <2> QED
    BY <2>2, <2>3 DEF Reading
<1> QED
  BY <1>2, <1>3, <1>4

\* In every behaviour the table has its lines in order, and no stream goes back.
LEMMA AlwaysMore ==
  Spec => [](IInv /\ Counters /\ Table /\ \A r \in Readers : Reading(r))
<1> DEFINE More == Counters /\ Table /\ \A r \in Readers : Reading(r)
<1>1. Init => IInv /\ More
  BY InitInv, InitMore
<1>2. IInv /\ More /\ [Next]_vars => IInv' /\ More'
  <2> SUFFICES ASSUME IInv, More, [Next]_vars PROVE IInv' /\ More'
    OBVIOUS
  <2>1. IInv' /\ Counters'
    BY NextInv, CountersStep
  <2>2. Table'
    BY <2>1, TableKept
  <2>3. (\A r \in Readers : Reading(r))'
    BY <2>1, ReadingKept
  <2> QED
    BY <2>1, <2>2, <2>3
<1> HIDE DEF More
<1>3. Spec => [](IInv /\ More)
  BY <1>1, <1>2, PTL DEF Spec
<1> QED
  BY <1>3, PTL DEF More

\* Numbers up to that of a job's last line are Numbers.
LEMMA NumbersUpTo ==
  ASSUME NEW s \in Seq(Nat), NEW m \in Numbers, UpToLine(s, m)
  PROVE  s \in Seq(Numbers)
<1>1. \A i \in 1 .. Len(s) : s[i] \in Numbers
  <2> SUFFICES ASSUME NEW i \in 1 .. Len(s) PROVE s[i] \in Numbers
    OBVIOUS
  <2>1. s[i] \in Nat /\ s[i] <= m
    BY DEF UpToLine
  <2> QED
    BY <2>1, ConstantsAssumption DEF Numbers
<1> QED
  BY <1>1

\* All variables keep their types, and the buffers their bound: no line has a
\* number beyond those of MaxLines and the job's last one.
THEOREM TypeCorrect == Spec => []TypeOK
<1>1. ASSUME IInv, Counters, Table, \A r \in Readers : Reading(r) PROVE TypeOK
  <2>1. ASSUME NEW k \in Kinds
        PROVE  /\ made[k] \in Numbers /\ atEnd[k] \in Numbers
               /\ buffer[k] \in Seq(Numbers) /\ Len(buffer[k]) <= MaxBuffer
    <3>1. made[k] \in Numbers /\ made[k] \in Nat /\ Base(k) \in Nat
      BY <1>1, LineNumbers
    <3>2. atEnd[k] \in Nat /\ atEnd[k] <= made[k] /\ buffer[k] \in Seq(Nat)
      BY <1>1 DEF IInv, Shape, Buffered
    <3>3. atEnd[k] \in Numbers
      BY <3>1, <3>2, ConstantsAssumption DEF Numbers
    <3>4. UpToLine(buffer[k], made[k])
      <4>1. PICK s \in Seq(Nat), b \in Nat, m \in Nat :
              s = buffer[k] /\ b = Base(k) /\ m = made[k]
        BY <3>1, <3>2
      <4>2. Len(s) \in Nat /\ Len(buffer[k]) = Len(s)
        BY <4>1
      <4>3. b + Len(s) = m
        BY <3>1, <4>1, <4>2 DEF Base
      <4>4. Follows(s, b)
        BY <1>1, <4>1 DEF IInv, Buffered, Base
      <4> QED
        BY <4>1, <4>2, <4>3, <4>4 DEF Follows, UpToLine
    <3> QED
      BY <1>1, <3>1, <3>2, <3>3, <3>4, NumbersUpTo DEF Counters
  <2>2. ASSUME NEW r \in Readers
        PROVE  /\ left[r] \in Seq(Numbers) /\ queue[r] \in Seq(Numbers)
               /\ got[r] \in Seq(Numbers) /\ from[r] \in Numbers
    <3>1. PICK m \in Numbers : m = made[KindOf(r)] /\ m \in Nat
      BY <1>1, LineNumbers DEF KindOf, Kinds
    <3>2. /\ left[r] \in Seq(Nat) /\ queue[r] \in Seq(Nat) /\ got[r] \in Seq(Nat)
          /\ UpToLine(left[r], m) /\ UpToLine(queue[r], m) /\ UpToLine(got[r], m)
          /\ from[r] \in Nat /\ from[r] <= m
      BY <1>1, <3>1 DEF IInv, Shape, Reading, Reads
    <3>3. from[r] \in Numbers
      BY <3>1, <3>2, ConstantsAssumption DEF Numbers
    <3> QED
      BY <3>1, <3>2, <3>3, NumbersUpTo
  <2>3. made \in [Kinds -> Numbers] /\ atEnd \in [Kinds -> Numbers] /\ from \in [Readers -> Numbers]
    BY <1>1, <2>1, <2>2 DEF IInv, Shape
  <2> QED
    BY <1>1, <2>1, <2>2, <2>3 DEF TypeOK, IInv, Shape, Counters, Table
<1> QED
  BY <1>1, AlwaysMore, PTL

\* What a live stream has yielded are the lines from where it began, every line
\* once and in order; a stream that was begun without a record, and went on
\* behind what it replayed from the table, yields no line twice or late.
THEOREM StreamsRun == Spec => []StreamsAreRuns
<1>1. ASSUME IInv, \A r \in Readers : Reading(r) PROVE StreamsAreRuns
  <2> SUFFICES ASSUME NEW r \in Readers
               PROVE  IF r \in live
                      THEN got[r] = [i \in 1 .. Len(got[r]) |-> from[r] + i]
                      ELSE \A i, j \in DOMAIN got[r] : i < j => got[r][i] < got[r][j]
    BY DEF StreamsAreRuns
  <2>1. PICK g \in Seq(Nat) : g = got[r]
    BY <1>1 DEF Reading, Reads
  <2>2. DOMAIN g = 1 .. Len(g) /\ g = [i \in 1 .. Len(g) |-> g[i]]
    OBVIOUS
  <2>3. CASE r \in live
    <3>1. Follows(g, from[r])
      BY <1>1, <2>1, <2>3 DEF IInv, Stream
    <3> QED
      BY <2>1, <2>2, <2>3, <3>1 DEF Follows
  <2>4. CASE r \notin live
    <3>1. Rising(g)
      BY <1>1, <2>1, <2>4 DEF Reading, Late, Rise
    <3> QED
      BY <2>1, <2>2, <2>4, <3>1 DEF Rising
  <2> QED
    BY <2>3, <2>4
<1> QED
  BY <1>1, AlwaysMore, PTL

-----------------------------------------------------------------------------
(* What the table and its tasks tell as long as nothing fails.             *)

\* The lines of a kind have the numbers of their places among them.
Whole(s, k) == \A p \in Places(s, k) : s[p].n = Rank(s, k, p)

Count(s, k) == Cardinality(Places(s, k))

\* The last status in s.
LastStatus(s, st) ==
  \E p \in Places(s, "status") :
    s[p].status = st /\ \A q \in Places(s, "status") : q <= p

All == rows \o tasks

Told ==
  faults = 0 =>
    /\ status # "lost"
    /\ \A k \in Kinds : /\ Whole(All, k)
                        /\ kept => Count(All, k) = made[k]
                        /\ status \in Terminal => Count(All, k) >= atEnd[k]
    /\ LastStatus(All, status)
    /\ Places(All, "result") # {} <=> status = "completed"

\* c is s with the event e behind.
Adds(c, s, e) == c = Append(s, e)

\* An event that is added is the last one.
LEMMA Added ==
  ASSUME NEW s \in Seq(Event), NEW e \in Event, NEW c, Adds(c, s, e)
  PROVE  /\ c \in Seq(Event) /\ Len(s) \in Nat
         /\ \A p \in 1 .. Len(s) : c[p] = s[p]
         /\ c[Len(s) + 1] = e
         /\ DOMAIN s = 1 .. Len(s) /\ DOMAIN c = 1 .. Len(s) + 1
  BY DEF Adds

\* Its place comes behind the others of its type.
LEMMA PlaceAdded ==
  ASSUME NEW s \in Seq(Event), NEW e \in Event, NEW c, Adds(c, s, e)
  PROVE  /\ Places(c, e.type) = Places(s, e.type) \union {Len(s) + 1}
         /\ \A p \in Places(s, e.type) : c[p] = s[p] /\ p < Len(s) + 1
<1>1. /\ Len(s) \in Nat /\ \A p \in 1 .. Len(s) : c[p] = s[p]
      /\ c[Len(s) + 1] = e
      /\ DOMAIN s = 1 .. Len(s) /\ DOMAIN c = 1 .. Len(s) + 1
  BY Added
<1>2. \A p : p \in 1 .. Len(s) + 1 <=> p \in 1 .. Len(s) \/ p = Len(s) + 1
  BY <1>1
<1>3. \A p \in 1 .. Len(s) : p < Len(s) + 1
  BY <1>1
<1> QED
  BY <1>1, <1>2, <1>3 DEF Places

\* The places of the other types stay.
LEMMA PlacesStay ==
  ASSUME NEW s \in Seq(Event), NEW e \in Event, NEW k, e.type # k,
         NEW c, Adds(c, s, e)
  PROVE  /\ Places(c, k) = Places(s, k)
         /\ \A p \in Places(s, k) : c[p] = s[p]
<1>1. /\ Len(s) \in Nat /\ \A p \in 1 .. Len(s) : c[p] = s[p]
      /\ c[Len(s) + 1] = e
      /\ DOMAIN s = 1 .. Len(s) /\ DOMAIN c = 1 .. Len(s) + 1
  BY Added
<1>2. \A p : p \in 1 .. Len(s) + 1 <=> p \in 1 .. Len(s) \/ p = Len(s) + 1
  BY <1>1
<1> QED
  BY <1>1, <1>2 DEF Places

\* An event of another type leaves the lines of a kind as they are.
LEMMA OtherAdded ==
  ASSUME NEW s \in Seq(Event), NEW e \in Event, NEW k, e.type # k,
         NEW c, Adds(c, s, e)
  PROVE  Count(c, k) = Count(s, k) /\ (Whole(s, k) => Whole(c, k))
<1>1. Places(c, k) = Places(s, k) /\ \A p \in Places(s, k) : c[p] = s[p]
  BY PlacesStay
<1>2. \A p : Rank(c, k, p) = Rank(s, k, p)
  BY <1>1 DEF Rank
<1> QED
  BY <1>1, <1>2 DEF Count, Whole

\* The next line of a kind.
LEMMA LineAdded ==
  ASSUME NEW s \in Seq(Event), NEW e \in Event, NEW k, e.type = k,
         NEW c, Adds(c, s, e), e.n = Count(s, k) + 1, Whole(s, k)
  PROVE  Count(c, k) = Count(s, k) + 1 /\ Whole(c, k)
<1> DEFINE P == Places(s, k)
           Q == Places(c, k)
           z == Len(s) + 1
<1>1. /\ Q = P \union {z} /\ \A p \in P : c[p] = s[p] /\ p < z
      /\ Len(s) \in Nat /\ c[z] = e /\ z \in Nat
  <2>1. /\ Places(c, k) = Places(s, k) \union {Len(s) + 1}
        /\ \A p \in Places(s, k) : c[p] = s[p] /\ p < Len(s) + 1
    BY PlaceAdded
  <2>2. Len(s) \in Nat /\ c[Len(s) + 1] = e
    BY Added
  <2> QED
    BY <2>1, <2>2
<1>2. IsFiniteSet(P) /\ Cardinality(P) \in Nat /\ \A p \in P : p \in Nat
  BY PlacesFinite
<1> HIDE DEF P, Q, z
<1>3. z \notin P
  BY <1>1, <1>2
<1>4. Cardinality(Q) = Cardinality(P) + 1
  BY <1>1, <1>2, <1>3, FS_AddElement
<1>5. ASSUME NEW p \in P PROVE {q \in Q : q <= p} = {q \in P : q <= p}
  <2>1. ~(z <= p)
    BY <1>1, <1>2
  <2> QED
    BY <1>1, <2>1
<1>6. {q \in Q : q <= z} = Q
  BY <1>1, <1>2
<1>7. \A p \in P : c[p].n = Rank(c, k, p)
  BY <1>1, <1>5 DEF Whole, Rank, P, Q
<1>8. c[z].n = Rank(c, k, z)
  BY <1>1, <1>4, <1>6 DEF Count, Rank, P, Q
<1> QED
  BY <1>1, <1>4, <1>7, <1>8 DEF Whole, Count, P, Q

\* The last status, and whether there is a result, with one event more.
LEMMA StatusAdded ==
  ASSUME NEW s \in Seq(Event), NEW e \in Event, NEW c, Adds(c, s, e)
  PROVE  /\ e.type = "status" => LastStatus(c, e.status)
         /\ \A st : e.type # "status" /\ LastStatus(s, st) => LastStatus(c, st)
         /\ Places(c, "result") # {} <=> (Places(s, "result") # {} \/ e.type = "result")
<1>1. Len(s) \in Nat /\ c[Len(s) + 1] = e
  BY Added
<1>2. CASE e.type = "status"
  <2>1. /\ Places(c, "status") = Places(s, "status") \union {Len(s) + 1}
        /\ \A p \in Places(s, "status") : p < Len(s) + 1
        /\ \A p \in Places(s, "status") : p \in Nat
        /\ Places(c, "result") = Places(s, "result")
    BY <1>2, PlaceAdded, PlacesStay, PlacesFinite
  <2>2. \A q \in Places(c, "status") : q <= Len(s) + 1
    BY <1>1, <2>1
  <2> QED
    BY <1>1, <1>2, <2>1, <2>2 DEF LastStatus
<1>3. CASE e.type # "status"
  <2>1. /\ Places(c, "status") = Places(s, "status")
        /\ \A p \in Places(s, "status") : c[p] = s[p]
    BY <1>3, PlacesStay
  <2>2. Places(c, "result") # {} <=> (Places(s, "result") # {} \/ e.type = "result")
    <3>1. CASE e.type = "result"
      BY <3>1, PlaceAdded
    <3>2. CASE e.type # "result"
      BY <3>2, PlacesStay
    <3> QED
      BY <3>1, <3>2
  <2> QED
    BY <1>3, <2>1, <2>2 DEF LastStatus
<1> QED
  BY <1>2, <1>3

\* What is added to t is added to what s and t are together.
LEMMA Behind ==
  ASSUME NEW s \in Seq(Event), NEW t \in Seq(Event), NEW e \in Event
  PROVE  s \o t \in Seq(Event) /\ s \o Append(t, e) = Append(s \o t, e)
<1>1. s \o t \in Seq(Event) /\ <<e>> \in Seq(Event)
  OBVIOUS
<1>2. Append(t, e) = t \o <<e>> /\ Append(s \o t, e) = (s \o t) \o <<e>>
  BY <1>1, AppendIsConcat
<1> QED
  BY <1>1, <1>2, ConcatAssociative

\* The table and its tasks: an event goes behind them, and an append moves the
\* border between them.
LEMMA AllSaid ==
  ASSUME Table
  PROVE  /\ All \in Seq(Event)
         /\ \A e \in Event : rows \o Append(tasks, e) = Append(All, e)
         /\ tasks # <<>> => Append(rows, Head(tasks)) \o Tail(tasks) = All
<1>1. rows \in Seq(Event) /\ tasks \in Seq(Event)
  BY DEF Table
<1>2. All \in Seq(Event)
  BY <1>1, Behind DEF All
<1>3. \A e \in Event : rows \o Append(tasks, e) = Append(All, e)
  BY <1>1, Behind DEF All
<1>4. ASSUME tasks # <<>> PROVE Append(rows, Head(tasks)) \o Tail(tasks) = All
  <2>1. PICK h \in Event, t \in Seq(Event) :
          h = Head(tasks) /\ t = Tail(tasks)
    <3>1. Head(tasks) \in Event /\ Tail(tasks) \in Seq(Event)
      BY <1>1, <1>4, ShiftedIn
    <3> QED
      BY <3>1
  <2>4. <<h>> \in Seq(Event)
    OBVIOUS
  <2>2. tasks = <<h>> \o t
    BY <1>1, <1>4, <2>1
  <2>3. Append(rows, h) = rows \o <<h>>
    BY <1>1, AppendIsConcat
  <2> QED
    BY <1>1, <2>1, <2>2, <2>3, <2>4, ConcatAssociative DEF All
<1> QED
  BY <1>2, <1>3, <1>4

\* A step that says nothing.
LEMMA ToldStays ==
  ASSUME Told, All' = All, UNCHANGED <<status, made, atEnd, faults>>, kept' => kept
  PROVE  Told'
  BY DEF Told

\* A status is added.
LEMMA ToldStatus ==
  ASSUME NEW s \in Seq(Event), \A k \in Kinds : Whole(s, k),
         NEW st \in Terminal \union {"pending", "running"},
         NEW c, Adds(c, s, StatusIs(st))
  PROVE  /\ c \in Seq(Event) /\ LastStatus(c, st)
         /\ \A k \in Kinds : Whole(c, k) /\ Count(c, k) = Count(s, k)
         /\ Places(c, "result") = Places(s, "result")
<1>1. PICK e \in Event :
        e = StatusIs(st) /\ e.type = "status" /\ e.status = st /\ Adds(c, s, e)
  BY Events
<1>2. c \in Seq(Event) /\ LastStatus(c, st)
  BY <1>1, Added, StatusAdded
<1>3. \A k \in Kinds : e.type # k
  BY <1>1 DEF Kinds
<1>4. \A k \in Kinds : Whole(c, k) /\ Count(c, k) = Count(s, k)
  BY <1>1, <1>3, OtherAdded
<1>5. Places(c, "result") = Places(s, "result")
  BY <1>1, PlacesStay
<1> QED
  BY <1>2, <1>4, <1>5

\* The next line of a kept record.
LEMMA ToldSaid ==
  ASSUME IInv, Table, Told, faults = 0, kept, NEW k \in Kinds, made[k] + 1 \in Numbers,
         NEW c, Adds(c, All, Said(k, made[k] + 1))
  PROVE  /\ c \in Seq(Event) /\ \A j \in Kinds : Whole(c, j)
         /\ \A j \in Kinds : Count(c, j) = IF j = k THEN Count(All, j) + 1 ELSE Count(All, j)
         /\ \A st : LastStatus(All, st) => LastStatus(c, st)
         /\ Places(c, "result") = Places(All, "result")
<1>1. PICK s \in Seq(Event), e \in Event :
        /\ s = All /\ e = Said(k, made[k] + 1) /\ e.type = k /\ e.n = made[k] + 1
        /\ Adds(c, s, e)
  BY Events, AllSaid
<1>2. e.type # "status" /\ e.type # "result"
  BY <1>1 DEF Kinds
<1>3. \A j \in Kinds : Whole(s, j) /\ Count(s, j) = made[j]
  BY <1>1 DEF Told
<1>4. e.n = Count(s, k) + 1
  BY <1>1, <1>3
<1>5. Whole(c, k) /\ Count(c, k) = Count(s, k) + 1
  BY <1>1, <1>3, <1>4, LineAdded
<1>6. \A j \in Kinds : j # k => Whole(c, j) /\ Count(c, j) = Count(s, j)
  BY <1>1, <1>3, OtherAdded
<1>7. \A st : LastStatus(s, st) => LastStatus(c, st)
  BY <1>1, <1>2, StatusAdded
<1>8. Places(c, "result") = Places(s, "result")
  BY <1>1, <1>2, PlacesStay
<1>9. c \in Seq(Event)
  BY <1>1, Added
<1> QED
  BY <1>1, <1>5, <1>6, <1>7, <1>8, <1>9

\* Every step keeps what is told, and a failed append or a restart is a fault.
LEMMA ToldKept ==
  ASSUME IInv, Counters, Table, Told, IInv', Table', [Next]_vars
  PROVE  Told'
<1>1. ASSUME NEW k \in Kinds, Emit(k) PROVE Told'
  <2>1. /\ made' = [made EXCEPT ![k] = made[k] + 1] /\ made[k] < MaxLines[k]
        /\ UNCHANGED <<status, kept, atEnd, faults, rows>>
        /\ tasks' = IF kept THEN tasks \o <<Said(k, made[k] + 1)>> ELSE tasks
    BY <1>1 DEF Emit, EmitEvents
  <2>2. CASE ~kept
    BY <2>1, <2>2 DEF Told, All
  <2>3. ASSUME kept, faults = 0 PROVE Told'
    <3>1. made[k] + 1 \in Numbers
      BY <2>1, LineNumbers
    <3>2. PICK e \in Event : e = Said(k, made[k] + 1)
      BY <3>1, Events
    <3>3. tasks' = Append(tasks, e)
      <4>1. tasks \o <<e>> = Append(tasks, e)
        BY OneByOne DEF Table
      <4> QED
        BY <2>1, <2>3, <3>2, <4>1
    <3>4. Adds(All', All, Said(k, made[k] + 1))
      BY <2>1, <3>2, <3>3, AllSaid DEF All, Adds
    <3>5. /\ All' \in Seq(Event) /\ \A j \in Kinds : Whole(All', j)
          /\ \A j \in Kinds : Count(All', j) = IF j = k THEN Count(All, j) + 1 ELSE Count(All, j)
          /\ \A st : LastStatus(All, st) => LastStatus(All', st)
          /\ Places(All', "result") = Places(All, "result")
      BY <2>3, <3>1, <3>4, ToldSaid
    <3>6. ASSUME NEW j \in Kinds
          PROVE  /\ Count(All', j) = made'[j]
                 /\ status \in Terminal => Count(All', j) >= atEnd[j]
      <4>1. /\ made[j] \in Nat /\ Count(All, j) = made[j] /\ atEnd[j] \in Nat
            /\ status \in Terminal => Count(All, j) >= atEnd[j]
        BY <2>3 DEF IInv, Shape, Told
      <4>2. made'[j] = IF j = k THEN made[j] + 1 ELSE made[j]
        BY <2>1 DEF IInv, Shape
      <4>3. PICK a \in Nat, b \in Nat : a = Count(All, j) /\ b = atEnd[j] /\ a = made[j]
        BY <4>1
      <4>4. PICK c \in Nat : c = Count(All', j) /\ c >= a /\ c = made'[j]
        <5>1. Count(All', j) = IF j = k THEN a + 1 ELSE a
          BY <3>5, <4>3
        <5>2. made'[j] = IF j = k THEN a + 1 ELSE a
          BY <4>2, <4>3
        <5>3. PICK c : c = IF j = k THEN a + 1 ELSE a
          OBVIOUS
        <5>4. c \in Nat /\ c >= a
          BY <5>3
        <5> QED
          BY <5>1, <5>2, <5>3, <5>4
      <4>5. status \in Terminal => c >= b
        BY <4>1, <4>3, <4>4
      <4> QED
        BY <4>3, <4>4, <4>5
    <3> QED
      BY <2>1, <2>3, <3>5, <3>6 DEF Told
  <2> QED
    BY <2>1, <2>2, <2>3 DEF Told
<1>2. ASSUME NEW st \in Terminal, End(st) PROVE Told'
  <2>1. /\ kept /\ kept' = kept /\ rows' = rows /\ status \in {"pending", "running"}
        /\ status' = st /\ atEnd' = made' /\ faults' = faults
    BY <1>2 DEF End, EmitEvents, IInv, Buffered
  <2> SUFFICES ASSUME faults = 0 PROVE Told'
    BY <2>1 DEF Told
  <2>2. PICK e \in Event : e = StatusIs(st)
    BY Events
  <2>3. /\ All \in Seq(Event) /\ Places(All, "result") = {}
        /\ \A k \in Kinds : Whole(All, k) /\ Count(All, k) = made[k] /\ made[k] \in Nat
    BY <2>1, AllSaid DEF Told, IInv, Shape
  <2>4. CASE st = "completed"
    <3>1. made' = made /\ tasks' = tasks \o <<StatusIs(st), ResultEvent>>
      BY <1>2, <2>1, <2>4 DEF End, EmitEvents
    <3>2. PICK f \in Event : f = ResultEvent /\ f.type = "result"
      BY Events
    <3>3. PICK t : t = Append(tasks, e)
      OBVIOUS
    <3>4. t \in Seq(Event) /\ tasks' = Append(t, f)
      <4>1. t \in Seq(Event)
        BY <3>3, AppendedTo DEF Table
      <4>2. tasks \o <<e, f>> = Append(Append(tasks, e), f)
        BY OneByOne DEF Table
      <4> QED
        BY <2>2, <3>1, <3>2, <3>3, <4>1, <4>2
    <3>5. PICK c : c = Append(All, e)
      OBVIOUS
    <3>6. rows \o t = c /\ rows \o Append(t, f) = Append(c, f)
      <4>1. rows \o Append(tasks, e) = Append(All, e)
        BY AllSaid
      <4>2. rows \in Seq(Event) /\ t \in Seq(Event)
        BY <3>4 DEF Table
      <4>3. rows \o Append(t, f) = Append(rows \o t, f)
        BY <4>2, Behind
      <4> QED
        BY <3>3, <3>5, <4>1, <4>3
    <3>7. Adds(c, All, StatusIs(st)) /\ Adds(All', c, f)
      BY <2>1, <2>2, <3>4, <3>5, <3>6 DEF Adds, All
    <3>8. /\ c \in Seq(Event) /\ LastStatus(c, st)
          /\ \A k \in Kinds : Whole(c, k) /\ Count(c, k) = Count(All, k)
      BY <2>3, <3>7, ToldStatus
    <3>9. LastStatus(All', st) /\ Places(All', "result") # {}
      BY <3>2, <3>7, <3>8, StatusAdded
    <3>10. \A k \in Kinds : f.type # k
      BY <3>2 DEF Kinds
    <3>11. \A k \in Kinds : Whole(All', k) /\ Count(All', k) = Count(c, k)
      BY <3>7, <3>8, <3>10, OtherAdded
    <3>12. \A k \in Kinds : Count(All', k) = made'[k] /\ Count(All', k) >= atEnd'[k]
      BY <2>1, <2>3, <3>1, <3>8, <3>11
    <3> QED
      BY <2>1, <2>4, <3>9, <3>11, <3>12 DEF Told
  <2>5. CASE st # "completed"
    <3>1. /\ made' = [made EXCEPT !["log"] = made["log"] + 1]
          /\ tasks' = tasks \o <<Said("log", made["log"] + 1), StatusIs(st)>>
      BY <1>2, <2>1, <2>5 DEF End, EmitEvents
    <3>2. "log" \in Kinds /\ made["log"] + 1 \in Numbers
      BY <2>1, LineNumbers DEF Counters, Kinds
    <3>3. PICK a \in Event : a = Said("log", made["log"] + 1)
      BY <3>2, Events
    <3>4. PICK t : t = Append(tasks, a)
      OBVIOUS
    <3>5. t \in Seq(Event) /\ tasks' = Append(t, e)
      <4>1. t \in Seq(Event)
        BY <3>4, AppendedTo DEF Table
      <4>2. tasks \o <<a, e>> = Append(Append(tasks, a), e)
        BY OneByOne DEF Table
      <4> QED
        BY <2>2, <3>1, <3>3, <3>4, <4>1, <4>2
    <3>6. PICK c : c = Append(All, a)
      OBVIOUS
    <3>7. rows \o t = c /\ rows \o Append(t, e) = Append(c, e)
      <4>1. rows \o Append(tasks, a) = Append(All, a)
        BY AllSaid
      <4>2. rows \in Seq(Event) /\ t \in Seq(Event)
        BY <3>5 DEF Table
      <4>3. rows \o Append(t, e) = Append(rows \o t, e)
        BY <4>2, Behind
      <4> QED
        BY <3>4, <3>6, <4>1, <4>3
    <3>8. Adds(c, All, Said("log", made["log"] + 1)) /\ Adds(All', c, StatusIs(st))
      BY <2>1, <2>2, <3>3, <3>5, <3>6, <3>7 DEF Adds, All
    <3>9. /\ c \in Seq(Event) /\ \A k \in Kinds : Whole(c, k)
          /\ \A k \in Kinds : Count(c, k) = IF k = "log" THEN Count(All, k) + 1 ELSE Count(All, k)
          /\ Places(c, "result") = Places(All, "result")
      BY <2>1, <3>2, <3>8, ToldSaid
    <3>10. /\ LastStatus(All', st)
           /\ \A k \in Kinds : Whole(All', k) /\ Count(All', k) = Count(c, k)
           /\ Places(All', "result") = {}
      BY <2>3, <3>8, <3>9, ToldStatus
    <3>11. \A k \in Kinds : made'[k] = IF k = "log" THEN made[k] + 1 ELSE made[k]
      BY <3>1 DEF IInv, Shape
    <3>12. \A k \in Kinds : Count(All', k) = made'[k] /\ Count(All', k) >= atEnd'[k]
      BY <2>1, <2>3, <3>9, <3>10, <3>11
    <3> QED
      BY <2>1, <2>5, <3>10, <3>12 DEF Told, Terminal
  <2> QED
    BY <2>4, <2>5
<1>3. CASE Start
  <2>1. /\ UNCHANGED <<made, atEnd, kept, rows, faults>> /\ kept /\ status' = "running"
        /\ status = "pending" /\ tasks' = tasks \o <<StatusIs("running")>>
    BY <1>3 DEF Start, EmitEvents
  <2>2. PICK e \in Event : e = StatusIs("running")
    BY Events
  <2>3. tasks' = Append(tasks, e)
    BY <2>1, <2>2, OneByOne DEF Table
  <2>4. Adds(All', All, StatusIs("running"))
    BY <2>1, <2>2, <2>3, AllSaid DEF All, Adds
  <2>5. All \in Seq(Event) /\ "running" \in Terminal \union {"pending", "running"}
    BY AllSaid
  <2>6. ASSUME faults = 0
        PROVE  /\ LastStatus(All', "running") /\ Places(All', "result") = Places(All, "result")
               /\ \A k \in Kinds : Whole(All', k) /\ Count(All', k) = Count(All, k)
    BY <2>4, <2>5, <2>6, ToldStatus DEF Told
  <2> QED
    BY <2>1, <2>6 DEF Told, Terminal
<1>4. CASE Evict
  BY <1>4, ToldStays DEF Evict, durable, All
<1>5. CASE AppendEvent
  <2>1. /\ tasks # <<>> /\ tasks' = Tail(tasks) /\ rows' = Append(rows, Head(tasks))
        /\ UNCHANGED <<status, made, atEnd, faults, kept>>
    BY <1>5 DEF AppendEvent, job
  <2>2. All' = All
    BY <2>1, AllSaid DEF All
  <2> QED
    BY <2>1, <2>2, ToldStays
<1>6. CASE AppendFails \/ Restart
  <2>1. faults' # 0
    BY <1>6 DEF AppendFails, Restart, Counters
  <2> QED
    BY <2>1 DEF Told
<1>7. ASSUME NEW r \in Readers, Open(r) \/ ReaderStep(r) \/ Disconnect(r) PROVE Told'
  <2>1. UNCHANGED <<job, durable, faults>>
    BY <1>7 DEF Open, ReaderStep, ReplayTable, Attach, ReplayLine, Receive, Drained, Disconnect
  <2> QED
    BY <2>1, ToldStays DEF job, durable, All
<1>8. CASE UNCHANGED vars
  BY <1>8, ToldStays DEF vars, job, durable, All
<1> QED
  BY <1>1, <1>2, <1>3, <1>4, <1>5, <1>6, <1>7, <1>8 DEF Next

\* A job that has only said that it is pending.
LEMMA InitTold == Init => Told
<1> SUFFICES ASSUME Init PROVE Told
  OBVIOUS
<1>1. PICK s \in Seq(Event) : s = <<>>
  <2>1. <<>> \in Seq(Event)
    OBVIOUS
  <2> QED
    BY <2>1
<1>2. Adds(All, s, StatusIs("pending"))
  BY <1>1 DEF Init, All, Adds
<1>3. \A k : Places(s, k) = {}
  BY <1>1 DEF Places
<1>4. \A k : Whole(s, k) /\ Count(s, k) = 0
  BY <1>3, FS_EmptySet DEF Whole, Count
<1>5. /\ LastStatus(All, "pending") /\ Places(All, "result") = {}
      /\ \A k \in Kinds : Whole(All, k) /\ Count(All, k) = 0
  BY <1>2, <1>3, <1>4, ToldStatus
<1> QED
  BY <1>5 DEF Init, Told, Terminal

\* The last status of a replay.
LEMMA StatusReplayed ==
  ASSUME NEW s \in Seq(Event), NEW st, LastStatus(s, st)
  PROVE  ReplayedStatus(s) = st
<1> DEFINE P == Places(s, "status")
           N == Cardinality(P)
<1>1. PICK p \in P : s[p].status = st /\ \A q \in P : q <= p
  BY DEF LastStatus
<1>2. {q \in P : q <= p} = P
  BY <1>1
<1>3. Rank(s, "status", p) = N
  BY <1>2 DEF Rank
<1>4. N \in 1 .. N
  BY <1>3, Ranks
<1>5. PICK q \in P : q = Nth(s, "status", N) /\ Rank(s, "status", q) = N
  BY <1>4, NthPlace
<1>6. p \in Nat /\ q \in Nat /\ N \in Nat
  BY PlacesFinite
<1>7. ~(q < p) /\ ~(p < q)
  BY <1>1, <1>3, <1>5, <1>6, Ranks
<1>8. q = p
  BY <1>6, <1>7
<1> QED
  BY <1>1, <1>5, <1>8 DEF ReplayedStatus

\* The lines of a replay are numbered from one.
LEMMA LinesReplayed ==
  ASSUME NEW s \in Seq(Event), NEW k, Whole(s, k)
  PROVE  /\ Len(LinesOf(s, k)) = Count(s, k)
         /\ LinesOf(s, k) = [i \in 1 .. Len(LinesOf(s, k)) |-> i]
<1> DEFINE N == Cardinality(Places(s, k))
<1>1. N \in Nat
  BY PlacesFinite
<1>2. \A i \in 1 .. N : s[Nth(s, k, i)].n = i
  BY NthPlace DEF Whole
<1>3. LinesOf(s, k) = [i \in 1 .. N |-> i]
  BY <1>2 DEF LinesOf
<1>4. Len([i \in 1 .. N |-> i]) = N
  BY <1>1
<1> QED
  BY <1>3, <1>4 DEF Count

\* Once the events of a job that is over are stored, as long as nothing failed
\* and the query lists all of them: its replay has the lines 1, 2, 3 ... up to
\* at least the job's end, ends with the job's status and shows a result exactly
\* if the job was completed.
THEOREM ReplayTells == Spec => []ReplayTellsTheEnd
<1>1. ASSUME Table, Told PROVE ReplayTellsTheEnd
  <2> SUFFICES ASSUME faults = 0, tasks = <<>>, status \in Terminal, Len(rows) <= Limit
               PROVE  /\ \A k \in Kinds : LET said == LinesOf(Listed, k) IN
                           /\ said = [i \in 1 .. Len(said) |-> i]
                           /\ Len(said) >= atEnd[k]
                      /\ ReplayedStatus(Listed) = status
                      /\ ShowsResult(Listed) <=> status = "completed"
    BY DEF ReplayTellsTheEnd
  <2>1. rows \in Seq(Event) /\ Len(rows) \in Nat /\ Limit \in Nat
    BY <1>1, ConstantsAssumption DEF Table
  <2>2. Listed = rows
    <3>1. (IF Len(rows) < Limit THEN Len(rows) ELSE Limit) = Len(rows)
      BY <2>1
    <3> QED
      BY <2>1, <3>1, SubSeqFull DEF Listed
  <2>3. All = rows
    BY <2>1, ConcatEmptySeq DEF All
  <2>4. ASSUME NEW k \in Kinds
        PROVE  /\ LinesOf(rows, k) = [i \in 1 .. Len(LinesOf(rows, k)) |-> i]
               /\ Len(LinesOf(rows, k)) >= atEnd[k]
    BY <1>1, <2>1, <2>3, LinesReplayed DEF Told
  <2>5. ReplayedStatus(rows) = status
    BY <1>1, <2>1, <2>3, StatusReplayed DEF Told
  <2>6. (\E i \in DOMAIN rows : rows[i].type = "result") <=> status = "completed"
    BY <1>1, <2>3 DEF Told, Places
  <2> QED
    BY <2>2, <2>4, <2>5, <2>6 DEF ShowsResult
<1>2. IInv /\ Counters /\ Table /\ Told /\ [Next]_vars => Told'
  <2> SUFFICES ASSUME IInv, Counters, Table, Told, [Next]_vars PROVE Told'
    OBVIOUS
  <2>1. IInv' /\ Counters'
    BY NextInv, CountersStep
  <2>2. Table'
    BY <2>1, TableKept
  <2> QED
    BY <2>1, <2>2, ToldKept
<1>3. (IInv /\ Counters /\ Table /\ \A r \in Readers : Reading(r)) => IInv /\ Counters /\ Table
  OBVIOUS
<1> QED
  BY <1>1, <1>2, <1>3, InitTold, AlwaysMore, PTL DEF Spec

=============================================================================
