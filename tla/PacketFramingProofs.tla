------------------------ MODULE PacketFramingProofs ------------------------
(* What the framing of PacketSocket does, for every packet and however the   *)
(* stream is cut: a reader that takes the frame of a packet byte by byte     *)
(* hands over that packet with the last byte, nothing before, and throws     *)
(* nowhere.  The lemmas on induction and recursion come first: both are put  *)
(* as statements about sets, which the provers can instantiate.              *)
EXTENDS PacketSocket, WellFoundedInduction, TLAPS

-----------------------------------------------------------------------------
(* Induction and recursion. *)

\* The order of the naturals as a relation.
LEMMA NatOrder ==
    \E R : IsWellFoundedOn(R, Nat) /\ \A x, y \in Nat : <<x, y>> \in R <=> x < y
  BY NatLessThanWellFounded DEF OpToRel

LEMMA LeastNat ==
    ASSUME NEW T, T \subseteq Nat, T # {}
    PROVE  \E x \in T : \A y \in T : ~(y < x)
<1>1. PICK R : IsWellFoundedOn(R, Nat) /\ \A x, y \in Nat : <<x, y>> \in R <=> x < y
  BY NatOrder
<1>2. IsWellFoundedOn(R, Nat)
  BY <1>1
<1>3. \E x \in T : \A y \in T : ~(<<y, x>> \in R)
  BY <1>2, WFMin
<1>. QED
  BY <1>1, <1>3

LEMMA SetInduction ==
    ASSUME NEW S, 0 \in S, \A n \in Nat : n \in S => n + 1 \in S
    PROVE  Nat \subseteq S
<1>. DEFINE T == Nat \ S
<1>1. SUFFICES ASSUME T # {} PROVE FALSE
  OBVIOUS
<1>2. PICK x \in T : \A y \in T : ~(y < x)
  <2>1. T \subseteq Nat
    OBVIOUS
  <2>. HIDE DEF T
  <2>. QED
    BY <1>1, <2>1, LeastNat
<1>3. x # 0 /\ x \in Nat /\ x - 1 \in Nat /\ x - 1 < x
  OBVIOUS
<1>4. x - 1 \in S
  BY <1>2, <1>3
<1>. QED
  BY <1>2, <1>3, <1>4

\* Induction on sequences, by appending.
LEMMA SeqInduction ==
    ASSUME NEW A, NEW S, <<>> \in S,
           \A q \in Seq(A), x \in A : q \in S => Append(q, x) \in S
    PROVE  Seq(A) \subseteq S
<1>. DEFINE T == {n \in Nat : \A q \in Seq(A) : Len(q) = n => q \in S}
<1>1. 0 \in T
  BY \A q \in Seq(A) : Len(q) = 0 => q = <<>>
<1>2. \A n \in Nat : n \in T => n + 1 \in T
  <2>1. SUFFICES ASSUME NEW n \in T, NEW q \in Seq(A), Len(q) = n + 1 PROVE q \in S
    OBVIOUS
  <2>. DEFINE f == SubSeq(q, 1, n)
  <2>2. f \in Seq(A) /\ Len(f) = n /\ q[n + 1] \in A
    BY <2>1
  <2>3. q = Append(f, q[n + 1])
    BY <2>1, <2>2
  <2>4. f \in S
    BY <2>2
  <2>. QED
    BY <2>2, <2>3, <2>4
<1>3. Nat \subseteq T
  <2>. HIDE DEF T
  <2>. QED
    BY <1>1, <1>2, SetInduction
<1>. QED
  BY <1>3

\* A recursion with a step for each number has a solution.
Solves(f, n, V, v, step) ==
    /\ f \in [0 .. n -> V] /\ f[0] = v
    /\ \A i \in 1 .. n : f[i] = step[i][f[i - 1]]

LEMMA Recursion ==
    ASSUME NEW V, NEW v \in V, NEW N \in Nat, NEW step \in [1 .. N -> [V -> V]]
    PROVE  \E f : Solves(f, N, V, v, step)
<1>. DEFINE S == {n \in Nat : n <= N => \E f : Solves(f, n, V, v, step)}
<1>1. 0 \in S
  <2>. DEFINE f == [i \in 0 .. 0 |-> v]
  <2>1. Solves(f, 0, V, v, step)
    BY DEF Solves
  <2>. QED
    BY <2>1
<1>2. \A n \in Nat : n \in S => n + 1 \in S
  <2>1. SUFFICES ASSUME NEW n \in Nat, n <= N => \E f : Solves(f, n, V, v, step), n + 1 <= N
                 PROVE  \E f : Solves(f, n + 1, V, v, step)
    OBVIOUS
  <2>2. PICK f : Solves(f, n, V, v, step)
    BY <2>1
  <2>. DEFINE g == [i \in 0 .. n + 1 |-> IF i = n + 1 THEN step[n + 1][f[n]] ELSE f[i]]
  <2>3. f[n] \in V /\ step[n + 1] \in [V -> V]
    BY <2>1, <2>2 DEF Solves
  <2>4. g \in [0 .. n + 1 -> V] /\ g[0] = v
    <3>1. step[n + 1][f[n]] \in V
      BY <2>3
    <3>2. \A i \in 0 .. n + 1 : i # n + 1 => i \in 0 .. n
      BY <2>1
    <3>3. \A i \in 0 .. n : f[i] \in V
      BY <2>2 DEF Solves
    <3>. QED
      BY <2>1, <2>2, <3>1, <3>2, <3>3 DEF Solves
  <2>5. \A i \in 1 .. n + 1 : g[i] = step[i][g[i - 1]]
    BY <2>1, <2>2, <2>3 DEF Solves
  <2>. QED
    BY <2>4, <2>5 DEF Solves
<1>3. Nat \subseteq S
  <2>. HIDE DEF S
  <2>. QED
    BY <1>1, <1>2, SetInduction
<1>. QED
  BY <1>3
-----------------------------------------------------------------------------
(* The reader, a record at a time: what the EXCEPTs of ControlWord and       *)
(* TakeByte make of it, by fields.                                           *)

Socket(q, a, i, e, x, f) ==
    [readBuffer |-> q, accum |-> a, inPacket |-> i, inEscapeSeq |-> e, escAccum |-> x, eof |-> f]

LEMMA SocketFields == \A s \in SockType : s = Socket(s.readBuffer, s.accum, s.inPacket, s.inEscapeSeq, s.escAccum, s.eof)
  BY DEF Socket, SockType

LEMMA SocketType ==
    \A q \in Seq(Seq(Byte)), a \in Seq(Byte), x \in Seq(Byte), i, e, f \in BOOLEAN :
        Socket(q, a, i, e, x, f) \in SockType
  BY DEF SockType, Socket

LEMMA SocketGet ==
    ASSUME NEW q, NEW a, NEW i, NEW e, NEW x, NEW f
    PROVE  /\ Socket(q, a, i, e, x, f).readBuffer = q
           /\ Socket(q, a, i, e, x, f).accum = a
           /\ Socket(q, a, i, e, x, f).inPacket = i
           /\ Socket(q, a, i, e, x, f).inEscapeSeq = e
           /\ Socket(q, a, i, e, x, f).escAccum = x
           /\ Socket(q, a, i, e, x, f).eof = f
  BY DEF Socket

LEMMA WordTaken ==
    ASSUME NEW s \in SockType, NEW x \in Seq(Byte), NEW e \in BOOLEAN
    PROVE  [s EXCEPT !.inEscapeSeq = e, !.escAccum = x]
              = Socket(s.readBuffer, s.accum, s.inPacket, e, x, s.eof)
<1>. DEFINE t == [s EXCEPT !.inEscapeSeq = e, !.escAccum = x]
<1>1. t \in SockType
  BY DEF SockType
<1>2. /\ t.readBuffer = s.readBuffer /\ t.accum = s.accum /\ t.eof = s.eof
      /\ t.escAccum = x /\ t.inPacket = s.inPacket /\ t.inEscapeSeq = e
  BY DEF SockType
<1>. HIDE DEF t
<1>3. t = Socket(t.readBuffer, t.accum, t.inPacket, t.inEscapeSeq, t.escAccum, t.eof)
  BY <1>1, SocketFields
<1>. QED
  BY <1>2, <1>3, Zenon DEF t

LEMMA PacketStarted ==
    ASSUME NEW s \in SockType, NEW a \in Seq(Byte), NEW i \in BOOLEAN
    PROVE  [s EXCEPT !.accum = a, !.inPacket = i]
              = Socket(s.readBuffer, a, i, s.inEscapeSeq, s.escAccum, s.eof)
<1>. DEFINE t == [s EXCEPT !.accum = a, !.inPacket = i]
<1>1. t \in SockType
  BY DEF SockType
<1>2. /\ t.readBuffer = s.readBuffer /\ t.accum = a /\ t.eof = s.eof
      /\ t.escAccum = s.escAccum /\ t.inPacket = i /\ t.inEscapeSeq = s.inEscapeSeq
  BY DEF SockType
<1>. HIDE DEF t
<1>3. t = Socket(t.readBuffer, t.accum, t.inPacket, t.inEscapeSeq, t.escAccum, t.eof)
  BY <1>1, SocketFields
<1>. QED
  BY <1>2, <1>3, Zenon DEF t

LEMMA ByteTaken ==
    ASSUME NEW s \in SockType, NEW a \in Seq(Byte)
    PROVE  [s EXCEPT !.accum = a]
              = Socket(s.readBuffer, a, s.inPacket, s.inEscapeSeq, s.escAccum, s.eof)
<1>. DEFINE t == [s EXCEPT !.accum = a]
<1>1. t \in SockType
  BY DEF SockType
<1>2. /\ t.readBuffer = s.readBuffer /\ t.accum = a /\ t.eof = s.eof
      /\ t.escAccum = s.escAccum /\ t.inPacket = s.inPacket /\ t.inEscapeSeq = s.inEscapeSeq
  BY DEF SockType
<1>. HIDE DEF t
<1>3. t = Socket(t.readBuffer, t.accum, t.inPacket, t.inEscapeSeq, t.escAccum, t.eof)
  BY <1>1, SocketFields
<1>. QED
  BY <1>2, <1>3, Zenon DEF t

LEMMA EscapeTaken ==
    ASSUME NEW s \in SockType, NEW w \in Seq(Byte)
    PROVE  [s EXCEPT !.escAccum = w]
                 = Socket(s.readBuffer, s.accum, s.inPacket, s.inEscapeSeq, w, s.eof)
  <1>1. s = Socket(s.readBuffer, s.accum, s.inPacket, s.inEscapeSeq, s.escAccum, s.eof)
    BY SocketFields
  <1>. QED BY <1>1 DEF Socket

LEMMA EscapeStarted ==
    ASSUME NEW s \in SockType, NEW w \in BOOLEAN
    PROVE [s EXCEPT !.inEscapeSeq = w]
                 = Socket(s.readBuffer, s.accum, s.inPacket, w, s.escAccum, s.eof)
  <1>1. s = Socket(s.readBuffer, s.accum, s.inPacket, s.inEscapeSeq, s.escAccum, s.eof)
    BY SocketFields
  <1>. QED BY <1>1 DEF Socket

LEMMA WordFollowed ==
    ASSUME NEW s \in SockType, NEW none \in Seq(Byte), NEW no \in BOOLEAN, NEW yes \in BOOLEAN
    PROVE  LET t == [s EXCEPT !.inEscapeSeq = no, !.escAccum = none]
           IN  /\ [t EXCEPT !.accum = none, !.inPacket = yes]
                    = Socket(s.readBuffer, none, yes, no, none, s.eof)
               /\ [t EXCEPT !.readBuffer = Append(@, s.accum), !.accum = none, !.inPacket = no]
                    = Socket(Append(s.readBuffer, s.accum), none, no, no, none, s.eof)
               /\ [t EXCEPT !.accum = Append(@, ESC)]
                    = Socket(s.readBuffer, Append(s.accum, ESC), s.inPacket, no, none, s.eof)
<1>. DEFINE t == [s EXCEPT !.inEscapeSeq = no, !.escAccum = none]
<1>1. ESC \in Byte
  BY DEF Byte
<1>2. /\ s.readBuffer \in Seq(Seq(Byte)) /\ s.accum \in Seq(Byte)
      /\ Append(s.accum, ESC) \in Seq(Byte) /\ Append(s.readBuffer, s.accum) \in Seq(Seq(Byte))
  BY <1>1 DEF SockType
<1>3. t = Socket(s.readBuffer, s.accum, s.inPacket, no, none, s.eof)
  BY WordTaken, Zenon
<1>. HIDE DEF t
<1>4. t \in SockType
  BY <1>2, <1>3, SocketType DEF SockType
<1>5. /\ t.readBuffer = s.readBuffer /\ t.accum = s.accum /\ t.inPacket = s.inPacket
      /\ t.inEscapeSeq = no /\ t.escAccum = none /\ t.eof = s.eof
  BY <1>3, SocketGet
<1>6. [t EXCEPT !.accum = none, !.inPacket = yes] = Socket(s.readBuffer, none, yes, no, none, s.eof)
  <2>1. [t EXCEPT !.accum = none, !.inPacket = yes]
          = Socket(t.readBuffer, none, yes, t.inEscapeSeq, t.escAccum, t.eof)
    BY <1>4, PacketStarted, Zenon
  <2>. QED
    BY <1>5, <2>1, Zenon
<1>7. [t EXCEPT !.readBuffer = Append(@, s.accum), !.accum = none, !.inPacket = no]
          = Socket(Append(s.readBuffer, s.accum), none, no, no, none, s.eof)
  <2>. DEFINE q == Append(s.readBuffer, s.accum)
              v == [t EXCEPT !.readBuffer = q, !.accum = none, !.inPacket = no]
  <2>1. q \in Seq(Seq(Byte)) /\ q = Append(t.readBuffer, s.accum)
    BY <1>2, <1>5
  <2>. HIDE DEF q
  <2>2. v \in SockType
    BY <1>4, <2>1 DEF SockType
  <2>3. /\ v.readBuffer = q /\ v.accum = none /\ v.eof = s.eof
        /\ v.escAccum = none /\ v.inPacket = no /\ v.inEscapeSeq = no
    BY <1>4, <1>5, <2>1 DEF SockType
  <2>4. v = Socket(v.readBuffer, v.accum, v.inPacket, v.inEscapeSeq, v.escAccum, v.eof)
    <3>. HIDE DEF v
    <3>. QED
      BY <2>2, SocketFields
  <2>5. v = Socket(q, none, no, no, none, s.eof)
    <3>. HIDE DEF v
    <3>. QED
      BY <2>3, <2>4, Zenon
  <2>. QED
    BY <2>1, <2>5, Zenon DEF q
<1>8. [t EXCEPT !.accum = Append(@, ESC)]
          = Socket(s.readBuffer, Append(s.accum, ESC), s.inPacket, no, none, s.eof)
  <2>1. Append(t.accum, ESC) \in Seq(Byte)
    BY <1>2, <1>5
  <2>2. [t EXCEPT !.accum = Append(@, ESC)]
          = Socket(t.readBuffer, Append(t.accum, ESC), t.inPacket, t.inEscapeSeq, t.escAccum, t.eof)
    BY <1>4, <2>1, ByteTaken, Zenon
  <2>. QED
    BY <1>5, <2>2, Zenon
<1>. QED
  BY <1>6, <1>7, <1>8 DEF t

\* What a complete control word makes of the reader.
LEMMA ControlWordDoes ==
    ASSUME NEW s \in SockType, NEW w \in Seq(Byte)
    PROVE  /\ w = NOP => ControlWord(s, w)
                = Continue(Socket(s.readBuffer, s.accum, s.inPacket, FALSE, <<>>, s.eof))
           /\ w = PKT => ControlWord(s, w)
                = Continue(Socket(s.readBuffer, <<>>, TRUE, FALSE, <<>>, s.eof))
           /\ w = END /\ s.inPacket => ControlWord(s, w)
                = Continue(Socket(Append(s.readBuffer, s.accum), <<>>, FALSE, FALSE, <<>>, s.eof))
           /\ w = ESCAPED /\ s.inPacket => ControlWord(s, w)
                = Continue(Socket(s.readBuffer, Append(s.accum, ESC), s.inPacket, FALSE, <<>>, s.eof))
           /\ \/ w \in {NOP, PKT}
              \/ w \in {END, ESCAPED} /\ s.inPacket
              \/ ControlWord(s, w) = Throw(Socket(s.readBuffer, s.accum, s.inPacket, s.inEscapeSeq, w, s.eof))
<1>. DEFINE t == [s EXCEPT !.inEscapeSeq = FALSE, !.escAccum = <<>>]
            u == [t EXCEPT !.accum = <<>>, !.inPacket = TRUE]
            v == [t EXCEPT !.readBuffer = Append(@, s.accum), !.accum = <<>>, !.inPacket = FALSE]
            x == [t EXCEPT !.accum = Append(@, ESC)]
<1>1. <<>> \in Seq(Byte)
  OBVIOUS
<1>2. t = Socket(s.readBuffer, s.accum, s.inPacket, FALSE, <<>>, s.eof)
  BY <1>1, FALSE \in BOOLEAN, WordTaken, Zenon
<1>3. /\ u = Socket(s.readBuffer, <<>>, TRUE, FALSE, <<>>, s.eof)
      /\ v = Socket(Append(s.readBuffer, s.accum), <<>>, FALSE, FALSE, <<>>, s.eof)
      /\ x = Socket(s.readBuffer, Append(s.accum, ESC), s.inPacket, FALSE, <<>>, s.eof)
  BY <1>1, TRUE \in BOOLEAN, FALSE \in BOOLEAN, WordFollowed, Zenon
<1>8. [s EXCEPT !.escAccum = w]
          = Socket(s.readBuffer, s.accum, s.inPacket, s.inEscapeSeq, w, s.eof)
  BY EscapeTaken, Zenon
<1>9. NOP # PKT /\ NOP # END /\ NOP # ESCAPED /\ PKT # END /\ PKT # ESCAPED /\ END # ESCAPED
  BY DEF NOP, PKT, END, ESCAPED
<1>. HIDE DEF t, u, v, x
<1>10. w = NOP => ControlWord(s, w) = Continue(t)
  BY <1>9 DEF ControlWord, t
<1>11. w = PKT => ControlWord(s, w) = Continue(u)
  BY <1>9 DEF ControlWord, t, u
<1>12. w = END /\ s.inPacket => ControlWord(s, w) = Continue(v)
  BY <1>9 DEF ControlWord, t, v
<1>13. w = ESCAPED /\ s.inPacket => ControlWord(s, w) = Continue(x)
  BY <1>9 DEF ControlWord, t, x
<1>14. \/ w \in {NOP, PKT}
       \/ w \in {END, ESCAPED} /\ s.inPacket
       \/ ControlWord(s, w) = Throw([s EXCEPT !.escAccum = w])
  BY <1>9 DEF ControlWord
<1>. QED
  BY <1>2, <1>3, <1>8, <1>10, <1>11, <1>12, <1>13, <1>14, Zenon

\* What a byte makes of the reader.
LEMMA TakeByteDoes ==
    ASSUME NEW s \in SockType, NEW b \in Byte
    PROVE  /\ s.inEscapeSeq /\ Len(s.escAccum) = 3 => TakeByte(s, b) = ControlWord(s, s.escAccum)
           /\ s.inEscapeSeq /\ Len(s.escAccum) = 2
                => TakeByte(s, b) = ControlWord(s, Append(s.escAccum, b))
           /\ s.inEscapeSeq /\ Len(s.escAccum) \notin {2, 3} => TakeByte(s, b)
                = Continue(Socket(s.readBuffer, s.accum, s.inPacket, s.inEscapeSeq,
                                  Append(s.escAccum, b), s.eof))
           /\ ~s.inEscapeSeq /\ b = ESC => TakeByte(s, b)
                = Continue(Socket(s.readBuffer, s.accum, s.inPacket, TRUE, s.escAccum, s.eof))
           /\ ~s.inEscapeSeq /\ b # ESC /\ s.inPacket => TakeByte(s, b)
                = Continue(Socket(s.readBuffer, Append(s.accum, b), s.inPacket, s.inEscapeSeq,
                                  s.escAccum, s.eof))
           /\ ~s.inEscapeSeq /\ b # ESC /\ ~s.inPacket => TakeByte(s, b) = Throw(s)
<1>1. /\ Append(s.escAccum, b) \in Seq(Byte) /\ Append(s.accum, b) \in Seq(Byte)
      /\ Len(s.escAccum) \in Nat
  BY DEF SockType
<1>2. [s EXCEPT !.escAccum = Append(@, b)]
          = Socket(s.readBuffer, s.accum, s.inPacket, s.inEscapeSeq, Append(s.escAccum, b), s.eof)
  BY <1>1, EscapeTaken, Zenon
<1>3. [s EXCEPT !.inEscapeSeq = TRUE]
          = Socket(s.readBuffer, s.accum, s.inPacket, TRUE, s.escAccum, s.eof)
  BY TRUE \in BOOLEAN, EscapeStarted, Zenon
<1>4. [s EXCEPT !.accum = Append(@, b)]
          = Socket(s.readBuffer, Append(s.accum, b), s.inPacket, s.inEscapeSeq, s.escAccum, s.eof)
  BY <1>1, ByteTaken, Zenon
<1>5. s.inEscapeSeq /\ Len(s.escAccum) = 3 => TakeByte(s, b) = ControlWord(s, s.escAccum)
  BY DEF TakeByte
<1>6. s.inEscapeSeq /\ Len(s.escAccum) = 2 => TakeByte(s, b) = ControlWord(s, Append(s.escAccum, b))
  BY DEF TakeByte
<1>7. s.inEscapeSeq /\ Len(s.escAccum) \notin {2, 3}
          => TakeByte(s, b) = Continue([s EXCEPT !.escAccum = Append(@, b)])
  BY <1>1 DEF TakeByte
<1>8. ~s.inEscapeSeq /\ b = ESC => TakeByte(s, b) = Continue([s EXCEPT !.inEscapeSeq = TRUE])
  BY DEF TakeByte
<1>9. ~s.inEscapeSeq /\ b # ESC /\ s.inPacket
          => TakeByte(s, b) = Continue([s EXCEPT !.accum = Append(@, b)])
  BY DEF TakeByte
<1>10. ~s.inEscapeSeq /\ b # ESC /\ ~s.inPacket => TakeByte(s, b) = Throw(s)
  BY DEF TakeByte
<1>. QED
  BY <1>2, <1>3, <1>4, <1>5, <1>6, <1>7, <1>8, <1>9, <1>10, Zenon
-----------------------------------------------------------------------------
(* The reader, byte by byte. *)

\* What a socket's reader may be: SocketTypeOK says this of every sock[e].
ReaderOK(s) ==
    /\ s \in SockType
    /\ Len(s.escAccum) <= 3
    /\ s.escAccum # <<>> => s.inEscapeSeq

Readers == {s \in SockType : ReaderOK(s)}
Progressed == [s : Readers, threw : BOOLEAN]

LEMMA SocketReader ==
    /\ \A q \in Seq(Seq(Byte)), a \in Seq(Byte), i, e, f \in BOOLEAN :
          Socket(q, a, i, e, <<>>, f) \in Readers
    /\ \A q \in Seq(Seq(Byte)), a \in Seq(Byte), x \in Seq(Byte), i, e, f \in BOOLEAN :
          e /\ Len(x) <= 3 => Socket(q, a, i, e, x, f) \in Readers
<1>1. <<>> \in Seq(Byte) /\ Len(<<>>) = 0
  OBVIOUS
<1>2. \A q \in Seq(Seq(Byte)), a \in Seq(Byte), x \in Seq(Byte), i, e, f \in BOOLEAN :
          (e \/ x = <<>>) /\ Len(x) <= 3 => Socket(q, a, i, e, x, f) \in Readers
  BY DEF ReaderOK, Readers, SockType, Socket
<1>3. \A q \in Seq(Seq(Byte)), a \in Seq(Byte), i, e, f \in BOOLEAN :
          Socket(q, a, i, e, <<>>, f) \in Readers
  <2>1. Len(<<>>) <= 3
    OBVIOUS
  <2>. QED
    BY <1>1, <1>2, <2>1, Zenon
<1>. QED
  BY <1>2, <1>3, Zenon

LEMMA ProgressedIs ==
    ASSUME NEW r \in Progressed
    PROVE  r = [s |-> r.s, threw |-> r.threw] /\ r.s \in Readers /\ r.threw \in BOOLEAN
  BY DEF Progressed

LEMMA Progresses ==
    ASSUME NEW s \in Readers
    PROVE  Continue(s) \in Progressed /\ Throw(s) \in Progressed
<1>1. \A t \in BOOLEAN : [s |-> s, threw |-> t] \in Progressed
  BY DEF Progressed
<1>. QED
  BY <1>1, TRUE \in BOOLEAN, FALSE \in BOOLEAN, Zenon DEF Continue, Throw

LEMMA ControlWordType ==
    ASSUME NEW s \in Readers, NEW w \in Seq(Byte), Len(w) = 3, s.inEscapeSeq
    PROVE  ControlWord(s, w) \in Progressed
<1>1. s \in SockType /\ ESC \in Byte /\ <<>> \in Seq(Byte) /\ Len(<<>>) = 0
  BY DEF Readers, Byte
<1>2. /\ s.readBuffer \in Seq(Seq(Byte)) /\ s.accum \in Seq(Byte)
      /\ s.inPacket \in BOOLEAN /\ s.inEscapeSeq \in BOOLEAN /\ s.eof \in BOOLEAN
      /\ Append(s.readBuffer, s.accum) \in Seq(Seq(Byte)) /\ Append(s.accum, ESC) \in Seq(Byte)
  BY <1>1 DEF SockType
<1>3. \A q \in Seq(Seq(Byte)), a \in Seq(Byte), i, e, f \in BOOLEAN : Socket(q, a, i, e, <<>>, f) \in Readers
  BY SocketReader, Zenon
<1>4. Socket(s.readBuffer, s.accum, s.inPacket, s.inEscapeSeq, w, s.eof) \in Readers
  <2>1. Len(w) <= 3
    OBVIOUS
  <2>. QED
    BY <1>2, <2>1, SocketReader, Zenon
<1>5. /\ Socket(s.readBuffer, s.accum, s.inPacket, FALSE, <<>>, s.eof) \in Readers
      /\ Socket(s.readBuffer, <<>>, TRUE, FALSE, <<>>, s.eof) \in Readers
      /\ Socket(Append(s.readBuffer, s.accum), <<>>, FALSE, FALSE, <<>>, s.eof) \in Readers
      /\ Socket(s.readBuffer, Append(s.accum, ESC), s.inPacket, FALSE, <<>>, s.eof) \in Readers
  BY <1>1, <1>2, <1>3, TRUE \in BOOLEAN, FALSE \in BOOLEAN, Zenon
<1>6. \E t \in Readers : ControlWord(s, w) \in {Continue(t), Throw(t)}
  BY <1>1, <1>4, <1>5, ControlWordDoes
<1>. QED
  BY <1>6, Progresses

LEMMA EscapeLengths ==
    \A x \in Seq(Byte), b \in Byte :
        /\ Len(x) <= 3 => Len(x) \in {0, 1, 2, 3}
        /\ Len(x) \in {0, 1} => Len(Append(x, b)) <= 3
        /\ Len(x) = 2 => Len(Append(x, b)) = 3
<1>1. \A n \in Nat : n <= 3 => n \in {0, 1, 2, 3}
  OBVIOUS
<1>2. \A x \in Seq(Byte) : Len(x) \in Nat /\ \A b \in Byte : Len(Append(x, b)) = Len(x) + 1
  OBVIOUS
<1>3. \A x \in Seq(Byte) : Len(x) <= 3 => Len(x) \in {0, 1, 2, 3}
  BY <1>1, <1>2, Zenon
<1>4. \A m, n \in Nat : m = n + 1 => (n \in {0, 1} => m <= 3) /\ (n = 2 => m = 3)
  OBVIOUS
<1>5. \A x \in Seq(Byte), b \in Byte : Append(x, b) \in Seq(Byte)
  OBVIOUS
<1>. QED
  BY <1>2, <1>3, <1>4, <1>5, Zenon

LEMMA TakeByteType ==
    ASSUME NEW s \in Readers, NEW b \in Byte
    PROVE  TakeByte(s, b) \in Progressed
<1>1. s \in SockType /\ Len(s.escAccum) \in {0, 1, 2, 3} /\ (s.escAccum # <<>> => s.inEscapeSeq)
  <2>1. s \in SockType /\ ReaderOK(s)
    BY DEF Readers
  <2>2. s.escAccum \in Seq(Byte) /\ Len(s.escAccum) <= 3
    BY <2>1 DEF ReaderOK, SockType
  <2>3. Len(s.escAccum) \in {0, 1, 2, 3}
    BY <2>2, EscapeLengths
  <2>. QED
    BY <2>1, <2>3, Zenon DEF ReaderOK
<1>2. /\ s.readBuffer \in Seq(Seq(Byte)) /\ s.accum \in Seq(Byte) /\ s.escAccum \in Seq(Byte)
      /\ s.inPacket \in BOOLEAN /\ s.inEscapeSeq \in BOOLEAN /\ s.eof \in BOOLEAN
      /\ Append(s.accum, b) \in Seq(Byte)
      /\ Append(s.escAccum, b) \in Seq(Byte)
  BY <1>1 DEF SockType
<1>3. CASE s.inEscapeSeq /\ Len(s.escAccum) = 3
  BY <1>1, <1>2, <1>3, TakeByteDoes, ControlWordType
<1>4. CASE s.inEscapeSeq /\ Len(s.escAccum) = 2
  <2>1. TakeByte(s, b) = ControlWord(s, Append(s.escAccum, b))
    BY <1>1, <1>4, TakeByteDoes
  <2>2. Len(Append(s.escAccum, b)) = 3
    BY <1>2, <1>4, EscapeLengths
  <2>. QED
    BY <1>2, <1>4, <2>1, <2>2, ControlWordType
<1>5. CASE s.inEscapeSeq /\ Len(s.escAccum) \notin {2, 3}
  <2>1. Len(Append(s.escAccum, b)) <= 3
    <3>1. Len(s.escAccum) \in {0, 1}
      BY <1>1, <1>5
    <3>. QED
      BY <1>2, <3>1, EscapeLengths
  <2>2. Socket(s.readBuffer, s.accum, s.inPacket, s.inEscapeSeq, Append(s.escAccum, b), s.eof) \in Readers
    BY <1>2, <1>5, <2>1, SocketReader, Zenon
  <2>. QED
    BY <1>1, <1>5, <2>2, TakeByteDoes, Progresses
<1>6. CASE ~s.inEscapeSeq
  <2>1. s.escAccum = <<>>
    BY <1>1, <1>6
  <2>2. \A a \in Seq(Byte), e \in BOOLEAN :
           Socket(s.readBuffer, a, s.inPacket, e, s.escAccum, s.eof) \in Readers
    BY <1>2, <2>1, SocketReader, Zenon
  <2>3. /\ Socket(s.readBuffer, s.accum, s.inPacket, TRUE, s.escAccum, s.eof) \in Readers
        /\ Socket(s.readBuffer, Append(s.accum, b), s.inPacket, s.inEscapeSeq, s.escAccum, s.eof) \in Readers
    BY <1>2, <2>2, TRUE \in BOOLEAN, Zenon
  <2>4. \E t \in Readers : TakeByte(s, b) \in {Continue(t), Throw(t)}
    BY <1>1, <1>6, <2>3, TakeByteDoes
  <2>. QED
    BY <2>4, Progresses
<1>. QED
  BY <1>1, <1>3, <1>4, <1>5, <1>6

LEMMA TakeNextType ==
    ASSUME NEW r \in Progressed, NEW b \in Byte
    PROVE  TakeNext(r, b) \in Progressed
<1>1. r.s \in Readers
  BY ProgressedIs
<1>. QED
  BY <1>1, TakeByteType DEF TakeNext

\* processBytesRead() is the run of the reader over the bytes, one by one.
Run(s, bytes, f) ==
    /\ f \in [0 .. Len(bytes) -> Progressed]
    /\ f[0] = Continue(s)
    /\ \A i \in 1 .. Len(bytes) : f[i] = TakeNext(f[i - 1], bytes[i])

LEMMA RunExists ==
    ASSUME NEW s \in Readers, NEW bytes \in Seq(Byte)
    PROVE  \E f : Run(s, bytes, f) /\ ProcessBytesRead(s, bytes) = f[Len(bytes)]
<1>. DEFINE N == Len(bytes)
            step == [i \in 1 .. N |-> [r \in Progressed |-> TakeNext(r, bytes[i])]]
<1>1. N \in Nat /\ \A i \in 1 .. N : bytes[i] \in Byte
  OBVIOUS
<1>2. \A i \in 1 .. N : [r \in Progressed |-> TakeNext(r, bytes[i])] \in [Progressed -> Progressed]
  BY <1>1, TakeNextType
<1>3. step \in [1 .. N -> [Progressed -> Progressed]]
  BY <1>2
<1>4. PICK g : Solves(g, N, Progressed, Continue(s), step)
  <2>1. Continue(s) \in Progressed
    BY Progresses
  <2>2. N \in Nat
    BY <1>1
  <2>. HIDE DEF N, step
  <2>. QED
    BY <1>3, <2>1, <2>2, Recursion, Zenon
<1>5. \A i \in 1 .. N : g[i - 1] \in Progressed
  BY <1>1, <1>4 DEF Solves
<1>6. \A i \in 1 .. N : g[i] = TakeNext(g[i - 1], bytes[i])
  BY <1>4, <1>5 DEF Solves
<1>7. g = [i \in 0 .. N |-> IF i = 0 THEN Continue(s) ELSE TakeNext(g[i - 1], bytes[i])]
  BY <1>1, <1>4, <1>6 DEF Solves
<1>. DEFINE f == CHOOSE f : f = [i \in 0 .. Len(bytes) |->
                        IF i = 0 THEN Continue(s) ELSE TakeNext(f[i - 1], bytes[i])]
<1>8. f = [i \in 0 .. N |-> IF i = 0 THEN Continue(s) ELSE TakeNext(f[i - 1], bytes[i])]
  BY <1>7
<1>9. ProcessBytesRead(s, bytes) = f[N]
  BY DEF ProcessBytesRead
<1>. HIDE DEF f
<1>10. \A i \in 0 .. N : f[i] \in Progressed
  <2>. DEFINE S == {n \in Nat : n <= N => f[n] \in Progressed}
  <2>1. 0 \in S
    BY <1>1, <1>8, Progresses
  <2>2. \A n \in Nat : n \in S => n + 1 \in S
    <3>1. SUFFICES ASSUME NEW n \in Nat, n <= N => f[n] \in Progressed, n + 1 <= N
                   PROVE  f[n + 1] \in Progressed
      OBVIOUS
    <3>2. f[n + 1] = TakeNext(f[n], bytes[n + 1]) /\ bytes[n + 1] \in Byte
      BY <1>1, <1>8, <3>1
    <3>3. f[n] \in Progressed
      BY <1>1, <3>1
    <3>. QED
      BY <3>2, <3>3, TakeNextType
  <2>3. Nat \subseteq S
    <3>. HIDE DEF S
    <3>. QED
      BY <2>1, <2>2, SetInduction
  <2>. QED
    BY <1>1, <2>3
<1>11. Run(s, bytes, f)
  <2>1. f \in [0 .. N -> Progressed]
    BY <1>8, <1>10
  <2>2. f[0] = Continue(s)
    BY <1>1, <1>8
  <2>3. \A i \in 1 .. N : f[i] = TakeNext(f[i - 1], bytes[i])
    BY <1>1, <1>8
  <2>. QED
    BY <2>1, <2>2, <2>3 DEF Run
<1>. QED
  BY <1>9, <1>11

LEMMA RunUnique ==
    ASSUME NEW s, NEW a \in Seq(Byte), NEW b \in Byte, NEW f, NEW g,
           Run(s, a, f), Run(s, Append(a, b), g)
    PROVE  f[Len(a)] = g[Len(a)]
<1>. DEFINE S == {n \in Nat : n <= Len(a) => f[n] = g[n]}
<1>1. 0 \in S
  BY DEF Run
<1>2. \A n \in Nat : n \in S => n + 1 \in S
  <2>1. SUFFICES ASSUME NEW n \in Nat, n <= Len(a) => f[n] = g[n], n + 1 <= Len(a)
                 PROVE  f[n + 1] = g[n + 1]
    OBVIOUS
  <2>2. /\ n + 1 \in 1 .. Len(a) /\ n + 1 \in 1 .. Len(Append(a, b)) /\ (n + 1) - 1 = n
        /\ Append(a, b)[n + 1] = a[n + 1]
    BY <2>1
  <2>3. f[n + 1] = TakeNext(f[n], a[n + 1]) /\ g[n + 1] = TakeNext(g[n], Append(a, b)[n + 1])
    BY <2>2 DEF Run
  <2>. QED
    BY <2>1, <2>2, <2>3
<1>3. Nat \subseteq S
  <2>. HIDE DEF S
  <2>. QED
    BY <1>1, <1>2, SetInduction
<1>. QED
  BY <1>3

LEMMA ReadNone ==
    ASSUME NEW s \in Readers
    PROVE  ProcessBytesRead(s, <<>>) = Continue(s)
  BY RunExists, <<>> \in Seq(Byte), Len(<<>>) = 0 DEF Run

LEMMA ReadAppend ==
    ASSUME NEW s \in Readers, NEW bytes \in Seq(Byte), NEW b \in Byte
    PROVE  ProcessBytesRead(s, Append(bytes, b)) = TakeNext(ProcessBytesRead(s, bytes), b)
<1>1. PICK f : Run(s, bytes, f) /\ ProcessBytesRead(s, bytes) = f[Len(bytes)]
  BY RunExists
<1>2. /\ Append(bytes, b) \in Seq(Byte) /\ Len(Append(bytes, b)) = Len(bytes) + 1
      /\ Append(bytes, b)[Len(bytes) + 1] = b /\ Len(bytes) \in Nat
  OBVIOUS
<1>3. PICK g : /\ Run(s, Append(bytes, b), g)
               /\ ProcessBytesRead(s, Append(bytes, b)) = g[Len(bytes) + 1]
  BY <1>2, RunExists
<1>4. f[Len(bytes)] = g[Len(bytes)]
  <2>1. Run(s, bytes, f)
    BY <1>1
  <2>2. Run(s, Append(bytes, b), g)
    BY <1>3
  <2>. QED
    BY <2>1, <2>2, RunUnique
<1>5. g[Len(bytes) + 1] = TakeNext(g[Len(bytes)], b)
  BY <1>2, <1>3 DEF Run
<1>. QED
  BY <1>1, <1>3, <1>4, <1>5

LEMMA ReadType ==
    ASSUME NEW s \in Readers, NEW bytes \in Seq(Byte)
    PROVE  ProcessBytesRead(s, bytes) \in Progressed
<1>1. PICK f : Run(s, bytes, f) /\ ProcessBytesRead(s, bytes) = f[Len(bytes)]
  BY RunExists
<1>. QED
  BY <1>1 DEF Run

LEMMA NotThrown ==
    ASSUME NEW r \in Progressed, ~r.threw
    PROVE  r = Continue(r.s)
<1>1. r = [s |-> r.s, threw |-> r.threw] /\ r.threw \in BOOLEAN
  BY ProgressedIs
<1>2. r.threw = FALSE
  BY <1>1
<1>. QED
  BY <1>1, <1>2, Zenon DEF Continue

LEMMA ContinueIs ==
    ASSUME NEW s
    PROVE  Continue(s).s = s /\ ~Continue(s).threw
  BY DEF Continue

\* However the stream is cut, the reader makes the same of it.
LEMMA ReadConcat ==
    ASSUME NEW s \in Readers, NEW a \in Seq(Byte), NEW b \in Seq(Byte)
    PROVE  LET r == ProcessBytesRead(s, a)
           IN  ProcessBytesRead(s, a \o b) = IF r.threw THEN r ELSE ProcessBytesRead(r.s, b)
<1>. DEFINE r == ProcessBytesRead(s, a)
            S == {q \in Seq(Byte) :
                    ProcessBytesRead(s, a \o q) = IF r.threw THEN r ELSE ProcessBytesRead(r.s, q)}
<1>1. r \in Progressed /\ r.s \in Readers /\ r.threw \in BOOLEAN
  BY ReadType, ProgressedIs
<1>2. <<>> \in S
  <2>1. a \o <<>> = a /\ <<>> \in Seq(Byte)
    OBVIOUS
  <2>2. ~r.threw => ProcessBytesRead(r.s, <<>>) = r
    BY <1>1, ReadNone, NotThrown
  <2>. QED
    BY <2>1, <2>2
<1>3. \A q \in Seq(Byte), x \in Byte : q \in S => Append(q, x) \in S
  <2>1. SUFFICES ASSUME NEW q \in Seq(Byte), NEW x \in Byte, q \in S
                 PROVE  Append(q, x) \in S
    OBVIOUS
  <2>2. a \o Append(q, x) = Append(a \o q, x) /\ a \o q \in Seq(Byte) /\ Append(q, x) \in Seq(Byte)
    OBVIOUS
  <2>3. ProcessBytesRead(s, a \o Append(q, x)) = TakeNext(ProcessBytesRead(s, a \o q), x)
    BY <2>2, ReadAppend, ZenonT(30)
  <2>4. ProcessBytesRead(r.s, Append(q, x)) = TakeNext(ProcessBytesRead(r.s, q), x)
    BY <1>1, ReadAppend
  <2>5. r.threw => TakeNext(r, x) = r
    BY DEF TakeNext
  <2>. HIDE DEF r
  <2>. QED
    BY <2>1, <2>2, <2>3, <2>4, <2>5
<1>4. Seq(Byte) \subseteq S
  <2>. HIDE DEF S
  <2>. QED
    BY <1>2, <1>3, SeqInduction
<1>. QED
  BY <1>4
-----------------------------------------------------------------------------
(* The packets that wait in the reader's buffer do not change what it does.  *)

WithBuffer(s, q) == Socket(q, s.accum, s.inPacket, s.inEscapeSeq, s.escAccum, s.eof)

\* r is what u is, but for packets q in front of the others.
Alike(r, u, q) == r.threw = u.threw /\ r.s = WithBuffer(u.s, q \o u.s.readBuffer)

LEMMA ReaderTypes ==
    ASSUME NEW s \in Readers
    PROVE  /\ s \in SockType
           /\ s.readBuffer \in Seq(Seq(Byte)) /\ s.accum \in Seq(Byte) /\ s.escAccum \in Seq(Byte)
           /\ s.inPacket \in BOOLEAN /\ s.inEscapeSeq \in BOOLEAN /\ s.eof \in BOOLEAN
           /\ Len(s.escAccum) <= 3 /\ (~s.inEscapeSeq => s.escAccum = <<>>)
<1>1. s \in SockType /\ ReaderOK(s)
  BY DEF Readers
<1>2. Len(s.escAccum) <= 3 /\ (~s.inEscapeSeq => s.escAccum = <<>>)
  BY <1>1, Zenon DEF ReaderOK
<1>. QED
  BY <1>1, <1>2 DEF SockType

LEMMA WithBufferIs ==
    ASSUME NEW s \in Readers, NEW q \in Seq(Seq(Byte))
    PROVE  /\ WithBuffer(s, q) \in Readers
           /\ WithBuffer(s, q).readBuffer = q
           /\ WithBuffer(s, q).accum = s.accum /\ WithBuffer(s, q).inPacket = s.inPacket
           /\ WithBuffer(s, q).inEscapeSeq = s.inEscapeSeq
           /\ WithBuffer(s, q).escAccum = s.escAccum /\ WithBuffer(s, q).eof = s.eof
<1>1. WithBuffer(s, q) \in Readers
  <2>1. CASE s.inEscapeSeq
    BY <2>1, ReaderTypes, SocketReader, Zenon DEF WithBuffer
  <2>2. CASE ~s.inEscapeSeq
    BY <2>2, ReaderTypes, SocketReader, Zenon DEF WithBuffer
  <2>. QED
    BY <2>1, <2>2
<1>. QED
  BY <1>1, SocketGet DEF WithBuffer

LEMMA SameBuffer ==
    ASSUME NEW s \in Readers
    PROVE  s = WithBuffer(s, s.readBuffer)
  BY ReaderTypes, SocketFields, Zenon DEF WithBuffer

LEMMA SocketWithBuffer ==
    ASSUME NEW p, NEW q, NEW a, NEW i, NEW e, NEW x, NEW f
    PROVE  WithBuffer(Socket(p, a, i, e, x, f), q) = Socket(q, a, i, e, x, f)
  BY SocketGet DEF WithBuffer

LEMMA SocketsAlike ==
    ASSUME NEW p, NEW q, NEW a, NEW i, NEW e, NEW x, NEW f
    PROVE  /\ Alike(Continue(Socket(q \o p, a, i, e, x, f)), Continue(Socket(p, a, i, e, x, f)), q)
           /\ Alike(Throw(Socket(q \o p, a, i, e, x, f)), Throw(Socket(p, a, i, e, x, f)), q)
<1>. DEFINE s == Socket(p, a, i, e, x, f)
<1>1. WithBuffer(s, q \o s.readBuffer) = Socket(q \o p, a, i, e, x, f)
  BY SocketGet, SocketWithBuffer
<1>. HIDE DEF s
<1>. QED
  BY <1>1 DEF Alike, Continue, Throw, s

LEMMA ControlWordAlike ==
    ASSUME NEW s \in Readers, NEW q \in Seq(Seq(Byte)), NEW w \in Seq(Byte)
    PROVE  Alike(ControlWord(WithBuffer(s, q \o s.readBuffer), w), ControlWord(s, w), q)
<1>. DEFINE p == q \o s.readBuffer
            z == WithBuffer(s, p)
<1>1. p \in Seq(Seq(Byte)) /\ q \o Append(s.readBuffer, s.accum) = Append(p, s.accum)
  BY ReaderTypes, SMTT(30)
<1>2. s \in SockType /\ z \in SockType
  BY <1>1, ReaderTypes, WithBufferIs
<1>3. /\ z.readBuffer = p /\ z.accum = s.accum /\ z.inPacket = s.inPacket
      /\ z.inEscapeSeq = s.inEscapeSeq /\ z.eof = s.eof
  BY <1>1, WithBufferIs
<1>. SUFFICES Alike(ControlWord(z, w), ControlWord(s, w), q)
  OBVIOUS
<1>4. CASE w = NOP
  <2>1. ControlWord(s, w) = Continue(Socket(s.readBuffer, s.accum, s.inPacket, FALSE, <<>>, s.eof))
    BY <1>2, <1>4, ControlWordDoes, Zenon
  <2>2. ControlWord(z, w) = Continue(Socket(p, s.accum, s.inPacket, FALSE, <<>>, s.eof))
    <3>. HIDE DEF p, z
    <3>. QED
      BY <1>2, <1>3, <1>4, ControlWordDoes, Zenon
  <2>. HIDE DEF z
  <2>. QED
    BY <2>1, <2>2, SocketsAlike, Zenon
<1>5. CASE w = PKT
  <2>1. ControlWord(s, w) = Continue(Socket(s.readBuffer, <<>>, TRUE, FALSE, <<>>, s.eof))
    BY <1>2, <1>5, ControlWordDoes, Zenon
  <2>2. ControlWord(z, w) = Continue(Socket(p, <<>>, TRUE, FALSE, <<>>, s.eof))
    <3>. HIDE DEF p, z
    <3>. QED
      BY <1>2, <1>3, <1>5, ControlWordDoes, Zenon
  <2>. HIDE DEF z
  <2>. QED
    BY <2>1, <2>2, SocketsAlike, Zenon
<1>6. CASE w = END /\ s.inPacket
  <2>1. ControlWord(s, w)
           = Continue(Socket(Append(s.readBuffer, s.accum), <<>>, FALSE, FALSE, <<>>, s.eof))
    BY <1>2, <1>6, ControlWordDoes, Zenon
  <2>2. ControlWord(z, w)
           = Continue(Socket(q \o Append(s.readBuffer, s.accum), <<>>, FALSE, FALSE, <<>>, s.eof))
    <3>. HIDE DEF p, z
    <3>. QED
      BY <1>1, <1>2, <1>3, <1>6, ControlWordDoes, Zenon
  <2>. HIDE DEF z
  <2>. QED
    BY <2>1, <2>2, SocketsAlike, Zenon
<1>7. CASE w = ESCAPED /\ s.inPacket
  <2>1. ControlWord(s, w)
           = Continue(Socket(s.readBuffer, Append(s.accum, ESC), s.inPacket, FALSE, <<>>, s.eof))
    BY <1>2, <1>7, ControlWordDoes, Zenon
  <2>2. ControlWord(z, w)
           = Continue(Socket(p, Append(s.accum, ESC), s.inPacket, FALSE, <<>>, s.eof))
    <3>. HIDE DEF p, z
    <3>. QED
      BY <1>2, <1>3, <1>7, ControlWordDoes, Zenon
  <2>. HIDE DEF z
  <2>. QED
    BY <2>1, <2>2, SocketsAlike, Zenon
<1>8. CASE w \notin {NOP, PKT} /\ ~(w \in {END, ESCAPED} /\ s.inPacket)
  <2>1. ControlWord(s, w)
           = Throw(Socket(s.readBuffer, s.accum, s.inPacket, s.inEscapeSeq, w, s.eof))
    BY <1>2, <1>8, ControlWordDoes, Zenon
  <2>2. ControlWord(z, w) = Throw(Socket(p, s.accum, s.inPacket, s.inEscapeSeq, w, s.eof))
    <3>. HIDE DEF p, z
    <3>. QED
      BY <1>2, <1>3, <1>8, ControlWordDoes, Zenon
  <2>. HIDE DEF z
  <2>. QED
    BY <2>1, <2>2, SocketsAlike, Zenon
<1>. QED
  BY <1>4, <1>5, <1>6, <1>7, <1>8, Zenon

LEMMA TakeByteAlike ==
    ASSUME NEW s \in Readers, NEW q \in Seq(Seq(Byte)), NEW b \in Byte
    PROVE  Alike(TakeByte(WithBuffer(s, q \o s.readBuffer), b), TakeByte(s, b), q)
<1>. DEFINE p == q \o s.readBuffer
            z == WithBuffer(s, p)
<1>1. p \in Seq(Seq(Byte)) /\ s.escAccum \in Seq(Byte) /\ Append(s.escAccum, b) \in Seq(Byte)
  BY ReaderTypes
<1>2. s \in SockType /\ z \in SockType
  BY <1>1, ReaderTypes, WithBufferIs
<1>3. /\ z.readBuffer = p /\ z.accum = s.accum /\ z.inPacket = s.inPacket
      /\ z.inEscapeSeq = s.inEscapeSeq /\ z.escAccum = s.escAccum /\ z.eof = s.eof
  BY <1>1, WithBufferIs
<1>. SUFFICES Alike(TakeByte(z, b), TakeByte(s, b), q)
  OBVIOUS
<1>4. CASE s.inEscapeSeq /\ Len(s.escAccum) = 3
  <2>1. TakeByte(s, b) = ControlWord(s, s.escAccum)
    BY <1>2, <1>4, TakeByteDoes, Zenon
  <2>2. TakeByte(z, b) = ControlWord(z, s.escAccum)
    <3>. HIDE DEF z
    <3>. QED
      BY <1>2, <1>3, <1>4, TakeByteDoes, Zenon
  <2>. QED
    BY <1>1, <2>1, <2>2, ControlWordAlike, Zenon
<1>5. CASE s.inEscapeSeq /\ Len(s.escAccum) = 2
  <2>1. TakeByte(s, b) = ControlWord(s, Append(s.escAccum, b))
    BY <1>2, <1>5, TakeByteDoes, Zenon
  <2>2. TakeByte(z, b) = ControlWord(z, Append(s.escAccum, b))
    <3>. HIDE DEF z
    <3>. QED
      BY <1>2, <1>3, <1>5, TakeByteDoes, Zenon
  <2>. QED
    BY <1>1, <2>1, <2>2, ControlWordAlike, Zenon
<1>6. CASE s.inEscapeSeq /\ Len(s.escAccum) \notin {2, 3}
  <2>1. TakeByte(s, b) = Continue(Socket(s.readBuffer, s.accum, s.inPacket, s.inEscapeSeq,
                                         Append(s.escAccum, b), s.eof))
    BY <1>2, <1>6, TakeByteDoes, Zenon
  <2>2. TakeByte(z, b) = Continue(Socket(p, s.accum, s.inPacket, s.inEscapeSeq,
                                         Append(s.escAccum, b), s.eof))
    <3>. HIDE DEF p, z
    <3>. QED
      BY <1>2, <1>3, <1>6, TakeByteDoes, ZenonT(30)
  <2>. HIDE DEF z
  <2>. QED
    BY <2>1, <2>2, SocketsAlike, Zenon
<1>7. CASE ~s.inEscapeSeq /\ b = ESC
  <2>1. TakeByte(s, b) = Continue(Socket(s.readBuffer, s.accum, s.inPacket, TRUE, s.escAccum, s.eof))
    BY <1>2, <1>7, TakeByteDoes, Zenon
  <2>2. TakeByte(z, b) = Continue(Socket(p, s.accum, s.inPacket, TRUE, s.escAccum, s.eof))
    <3>. HIDE DEF p, z
    <3>. QED
      BY <1>2, <1>3, <1>7, TakeByteDoes, Zenon
  <2>. HIDE DEF z
  <2>. QED
    BY <2>1, <2>2, SocketsAlike, Zenon
<1>8. CASE ~s.inEscapeSeq /\ b # ESC /\ s.inPacket
  <2>1. TakeByte(s, b) = Continue(Socket(s.readBuffer, Append(s.accum, b), s.inPacket, s.inEscapeSeq,
                                         s.escAccum, s.eof))
    BY <1>2, <1>8, TakeByteDoes, Zenon
  <2>2. TakeByte(z, b) = Continue(Socket(p, Append(s.accum, b), s.inPacket, s.inEscapeSeq,
                                         s.escAccum, s.eof))
    <3>. HIDE DEF p, z
    <3>. QED
      BY <1>2, <1>3, <1>8, TakeByteDoes, Zenon
  <2>. HIDE DEF z
  <2>. QED
    BY <2>1, <2>2, SocketsAlike, Zenon
<1>9. CASE ~s.inEscapeSeq /\ b # ESC /\ ~s.inPacket
  <2>1. TakeByte(s, b) = Throw(s)
    BY <1>2, <1>9, TakeByteDoes, Zenon
  <2>2. TakeByte(z, b) = Throw(z)
    <3>. HIDE DEF p, z
    <3>. QED
      BY <1>2, <1>3, <1>9, TakeByteDoes, Zenon
  <2>. QED
    BY <2>1, <2>2 DEF Alike, Throw
<1>. QED
  BY <1>4, <1>5, <1>6, <1>7, <1>8, <1>9

LEMMA TakeNextAlike ==
    ASSUME NEW r \in Progressed, NEW u \in Progressed, NEW q \in Seq(Seq(Byte)), NEW b \in Byte,
           Alike(r, u, q)
    PROVE  Alike(TakeNext(r, b), TakeNext(u, b), q)
<1>1. u.s \in Readers
  BY ProgressedIs
<1>2. CASE u.threw
  BY <1>2 DEF Alike, TakeNext
<1>3. CASE ~u.threw
  <2>1. TakeNext(u, b) = TakeByte(u.s, b)
    BY <1>3 DEF TakeNext
  <2>2. TakeNext(r, b) = TakeByte(WithBuffer(u.s, q \o u.s.readBuffer), b)
    BY <1>3 DEF Alike, TakeNext
  <2>. QED
    BY <1>1, <2>1, <2>2, TakeByteAlike
<1>. QED
  BY <1>2, <1>3

LEMMA ReadAlike ==
    ASSUME NEW s \in Readers, NEW q \in Seq(Seq(Byte)), NEW bytes \in Seq(Byte)
    PROVE  Alike(ProcessBytesRead(WithBuffer(s, q \o s.readBuffer), bytes),
                 ProcessBytesRead(s, bytes), q)
<1>. DEFINE z == WithBuffer(s, q \o s.readBuffer)
            S == {c \in Seq(Byte) : Alike(ProcessBytesRead(z, c), ProcessBytesRead(s, c), q)}
<1>1. z \in Readers
  <2>1. q \o s.readBuffer \in Seq(Seq(Byte))
    BY ReaderTypes
  <2>. QED
    BY <2>1, WithBufferIs
<1>2. <<>> \in S
  <2>1. ProcessBytesRead(z, <<>>) = Continue(z) /\ ProcessBytesRead(s, <<>>) = Continue(s)
    BY <1>1, ReadNone
  <2>2. Alike(Continue(z), Continue(s), q)
    BY DEF Alike, Continue
  <2>. QED
    BY <2>1, <2>2
<1>3. \A c \in Seq(Byte), x \in Byte : c \in S => Append(c, x) \in S
  <2>1. SUFFICES ASSUME NEW c \in Seq(Byte), NEW x \in Byte, c \in S
                 PROVE  Append(c, x) \in S
    OBVIOUS
  <2>. HIDE DEF z
  <2>2. /\ ProcessBytesRead(z, Append(c, x)) = TakeNext(ProcessBytesRead(z, c), x)
        /\ ProcessBytesRead(s, Append(c, x)) = TakeNext(ProcessBytesRead(s, c), x)
        /\ Append(c, x) \in Seq(Byte)
    BY <1>1, ReadAppend
  <2>3. ProcessBytesRead(z, c) \in Progressed /\ ProcessBytesRead(s, c) \in Progressed
    BY <1>1, ReadType
  <2>4. Alike(ProcessBytesRead(z, c), ProcessBytesRead(s, c), q)
    BY <2>1
  <2>5. Alike(TakeNext(ProcessBytesRead(z, c), x), TakeNext(ProcessBytesRead(s, c), x), q)
    BY <2>3, <2>4, TakeNextAlike
  <2>. QED
    BY <2>2, <2>5
<1>4. Seq(Byte) \subseteq S
  <2>. HIDE DEF S
  <2>. QED
    BY <1>2, <1>3, SeqInduction
<1>. QED
  BY <1>4

\* Reading only adds packets to the buffer.
LEMMA ReadAdds ==
    ASSUME NEW s \in Readers, NEW bytes \in Seq(Byte)
    PROVE  \E q \in Seq(Seq(Byte)) :
              ProcessBytesRead(s, bytes).s.readBuffer = s.readBuffer \o q
<1>. DEFINE z == WithBuffer(s, <<>>)
            u == ProcessBytesRead(z, bytes)
<1>1. s.readBuffer \in Seq(Seq(Byte)) /\ <<>> \in Seq(Seq(Byte))
  BY ReaderTypes
<1>2. z \in Readers /\ z.readBuffer = <<>>
  BY <1>1, WithBufferIs
<1>3. WithBuffer(z, s.readBuffer \o z.readBuffer) = s
  <2>1. s.readBuffer \o z.readBuffer = s.readBuffer
    <3>1. \A q \in Seq(Seq(Byte)) : q \o <<>> = q
      OBVIOUS
    <3>. HIDE DEF z
    <3>. QED
      BY <1>1, <1>2, <3>1, Zenon
  <2>2. WithBuffer(z, s.readBuffer) = WithBuffer(s, s.readBuffer)
    BY SocketWithBuffer DEF WithBuffer
  <2>. QED
    BY <2>1, <2>2, SameBuffer
<1>. HIDE DEF z
<1>4. Alike(ProcessBytesRead(s, bytes), u, s.readBuffer)
  BY <1>1, <1>2, <1>3, ReadAlike
<1>5. u.s \in Readers /\ u.s.readBuffer \in Seq(Seq(Byte))
  BY <1>2, ReadType, ProgressedIs, ReaderTypes
<1>. HIDE DEF u
<1>6. s.readBuffer \o u.s.readBuffer \in Seq(Seq(Byte))
  BY <1>1, <1>5
<1>7. WithBuffer(u.s, s.readBuffer \o u.s.readBuffer).readBuffer = s.readBuffer \o u.s.readBuffer
  BY <1>5, <1>6, WithBufferIs
<1>. QED
  BY <1>4, <1>5, <1>7 DEF Alike
-----------------------------------------------------------------------------
(* The reader on the frame of a packet. *)

\* The reader in front of a byte, and inside an escape sequence.
Plain(q, a, i, f) == Socket(q, a, i, FALSE, <<>>, f)
Escaping(q, a, i, x, f) == Socket(q, a, i, TRUE, x, f)

LEMMA PlainIs ==
    ASSUME NEW q \in Seq(Seq(Byte)), NEW a \in Seq(Byte), NEW i \in BOOLEAN, NEW f \in BOOLEAN
    PROVE  /\ Plain(q, a, i, f) \in Readers
           /\ Plain(q, a, i, f).readBuffer = q /\ Plain(q, a, i, f).accum = a
           /\ Plain(q, a, i, f).inPacket = i /\ Plain(q, a, i, f).eof = f
           /\ ~Plain(q, a, i, f).inEscapeSeq /\ Plain(q, a, i, f).escAccum = <<>>
<1>1. Plain(q, a, i, f) \in Readers
  BY FALSE \in BOOLEAN, SocketReader, Zenon DEF Plain
<1>2. \A e \in BOOLEAN :
         /\ Socket(q, a, i, e, <<>>, f).readBuffer = q /\ Socket(q, a, i, e, <<>>, f).accum = a
         /\ Socket(q, a, i, e, <<>>, f).inPacket = i /\ Socket(q, a, i, e, <<>>, f).eof = f
         /\ Socket(q, a, i, e, <<>>, f).inEscapeSeq = e
         /\ Socket(q, a, i, e, <<>>, f).escAccum = <<>>
  BY SocketGet
<1>. QED
  BY <1>1, <1>2, FALSE \in BOOLEAN, Zenon DEF Plain

LEMMA EscapingIs ==
    ASSUME NEW q \in Seq(Seq(Byte)), NEW a \in Seq(Byte), NEW i \in BOOLEAN, NEW f \in BOOLEAN,
           NEW x \in Seq(Byte), Len(x) <= 3
    PROVE  /\ Escaping(q, a, i, x, f) \in Readers
           /\ Escaping(q, a, i, x, f).readBuffer = q /\ Escaping(q, a, i, x, f).accum = a
           /\ Escaping(q, a, i, x, f).inPacket = i /\ Escaping(q, a, i, x, f).eof = f
           /\ Escaping(q, a, i, x, f).inEscapeSeq /\ Escaping(q, a, i, x, f).escAccum = x
<1>1. Escaping(q, a, i, x, f) \in Readers
  BY TRUE \in BOOLEAN, SocketReader, Zenon DEF Escaping
<1>2. \A e \in BOOLEAN :
         /\ Socket(q, a, i, e, x, f).readBuffer = q /\ Socket(q, a, i, e, x, f).accum = a
         /\ Socket(q, a, i, e, x, f).inPacket = i /\ Socket(q, a, i, e, x, f).eof = f
         /\ Socket(q, a, i, e, x, f).inEscapeSeq = e /\ Socket(q, a, i, e, x, f).escAccum = x
  BY SocketGet
<1>. QED
  BY <1>1, <1>2, TRUE \in BOOLEAN, Zenon DEF Escaping

LEMMA PlainByte ==
    ASSUME NEW q \in Seq(Seq(Byte)), NEW a \in Seq(Byte), NEW i \in BOOLEAN, NEW f \in BOOLEAN,
           NEW b \in Byte
    PROVE  /\ b = ESC => TakeByte(Plain(q, a, i, f), b) = Continue(Escaping(q, a, i, <<>>, f))
           /\ b # ESC /\ i => TakeByte(Plain(q, a, i, f), b) = Continue(Plain(q, Append(a, b), i, f))
<1>. DEFINE s == Plain(q, a, i, f)
<1>1. /\ s \in SockType /\ s.readBuffer = q /\ s.accum = a /\ s.inPacket = i
      /\ ~s.inEscapeSeq /\ s.escAccum = <<>> /\ s.eof = f /\ s.inEscapeSeq \in BOOLEAN
  BY PlainIs, ReaderTypes
<1>. HIDE DEF s
<1>2. b = ESC => TakeByte(s, b) = Continue(Socket(q, a, i, TRUE, <<>>, f))
  BY <1>1, TakeByteDoes, Zenon
<1>3. b # ESC /\ i => TakeByte(s, b) = Continue(Socket(q, Append(a, b), i, FALSE, <<>>, f))
  BY <1>1, TakeByteDoes, Zenon
<1>. QED
  BY <1>2, <1>3, Zenon DEF Plain, Escaping, s

LEMMA EscapingNext ==
    ASSUME NEW q \in Seq(Seq(Byte)), NEW a \in Seq(Byte), NEW i \in BOOLEAN, NEW f \in BOOLEAN,
           NEW x \in Seq(Byte), Len(x) < 2, NEW b \in Byte
    PROVE  TakeByte(Escaping(q, a, i, x, f), b) = Continue(Escaping(q, a, i, Append(x, b), f))
<1>. DEFINE s == Escaping(q, a, i, x, f)
<1>1. Len(x) <= 3 /\ Len(x) \notin {2, 3}
  <2>1. \A n \in Nat : n < 2 => n <= 3 /\ n \notin {2, 3}
    OBVIOUS
  <2>2. Len(x) \in Nat
    OBVIOUS
  <2>. QED
    BY <2>1, <2>2, Zenon
<1>2. /\ s \in SockType /\ s.readBuffer = q /\ s.accum = a /\ s.inPacket = i
      /\ s.inEscapeSeq /\ s.escAccum = x /\ s.eof = f /\ s.inEscapeSeq \in BOOLEAN
  BY <1>1, EscapingIs, ReaderTypes
<1>3. s.inEscapeSeq = TRUE
  BY <1>2
<1>. HIDE DEF s
<1>4. TakeByte(s, b) = Continue(Socket(q, a, i, s.inEscapeSeq, Append(x, b), f))
  BY <1>1, <1>2, TakeByteDoes, Zenon
<1>. QED
  BY <1>3, <1>4, Zenon DEF Escaping, s

LEMMA EscapingLast ==
    ASSUME NEW q \in Seq(Seq(Byte)), NEW a \in Seq(Byte), NEW i \in BOOLEAN, NEW f \in BOOLEAN,
           NEW x \in Seq(Byte), Len(x) <= 2, ~(Len(x) < 2), NEW b \in Byte
    PROVE  TakeByte(Escaping(q, a, i, x, f), b) = ControlWord(Escaping(q, a, i, x, f), Append(x, b))
<1>. DEFINE s == Escaping(q, a, i, x, f)
<1>1. Len(x) <= 3 /\ Len(x) = 2
  <2>1. \A n \in Nat : n <= 2 /\ ~(n < 2) => n <= 3 /\ n = 2
    OBVIOUS
  <2>2. Len(x) \in Nat
    OBVIOUS
  <2>. QED
    BY <2>1, <2>2, Zenon
<1>2. Len(x) <= 3
  BY <1>1, Zenon
<1>3. s \in SockType /\ s.inEscapeSeq /\ s.escAccum = x
  BY <1>2, EscapingIs, ReaderTypes
<1>. HIDE DEF s
<1>4. TakeByte(s, b) = ControlWord(s, Append(x, b))
  BY <1>1, <1>3, TakeByteDoes, Zenon
<1>. QED
  BY <1>4 DEF s

\* The two as relations.
Takes(s, b, r) == TakeByte(s, b) = r
Makes(s, bytes, r) == ProcessBytesRead(s, bytes) = r

LEMMA NextTaken ==
    ASSUME NEW q \in Seq(Seq(Byte)), NEW a \in Seq(Byte), NEW i \in BOOLEAN, NEW f \in BOOLEAN,
           NEW x \in Seq(Byte), Len(x) < 2, NEW b \in Byte
    PROVE  Takes(Escaping(q, a, i, x, f), b, Continue(Escaping(q, a, i, Append(x, b), f)))
  BY EscapingNext DEF Takes

LEMMA LastTaken ==
    ASSUME NEW q \in Seq(Seq(Byte)), NEW a \in Seq(Byte), NEW i \in BOOLEAN, NEW f \in BOOLEAN,
           NEW x \in Seq(Byte), Len(x) <= 2, ~(Len(x) < 2), NEW b \in Byte
    PROVE  Takes(Escaping(q, a, i, x, f), b, ControlWord(Escaping(q, a, i, x, f), Append(x, b)))
  BY EscapingLast DEF Takes

LEMMA WordDoes ==
    ASSUME NEW q \in Seq(Seq(Byte)), NEW a \in Seq(Byte), NEW i \in BOOLEAN, NEW f \in BOOLEAN,
           NEW x \in Seq(Byte), Len(x) <= 3
    PROVE  /\ ControlWord(Escaping(q, a, i, x, f), PKT) = Continue(Plain(q, <<>>, TRUE, f))
           /\ i => ControlWord(Escaping(q, a, i, x, f), END)
                      = Continue(Plain(Append(q, a), <<>>, FALSE, f))
           /\ i => ControlWord(Escaping(q, a, i, x, f), ESCAPED)
                      = Continue(Plain(q, Append(a, ESC), i, f))
<1>. DEFINE s == Escaping(q, a, i, x, f)
<1>1. /\ s \in SockType /\ s.readBuffer = q /\ s.accum = a /\ s.inPacket = i /\ s.eof = f
  BY EscapingIs, ReaderTypes
<1>2. PKT \in Seq(Byte) /\ END \in Seq(Byte) /\ ESCAPED \in Seq(Byte)
  BY DEF PKT, END, ESCAPED, Byte
<1>. HIDE DEF s
<1>3. ControlWord(s, PKT) = Continue(Socket(q, <<>>, TRUE, FALSE, <<>>, f))
  BY <1>1, <1>2, ControlWordDoes, Zenon
<1>4. i => ControlWord(s, END) = Continue(Socket(Append(q, a), <<>>, FALSE, FALSE, <<>>, f))
  BY <1>1, <1>2, ControlWordDoes, Zenon
<1>5. i => ControlWord(s, ESCAPED) = Continue(Socket(q, Append(a, ESC), i, FALSE, <<>>, f))
  BY <1>1, <1>2, ControlWordDoes, Zenon
<1>. QED
  BY <1>3, <1>4, <1>5, Zenon DEF Plain, s

\* The words of a packet's frame, as relations.
Finishes(s, w, r) == ControlWord(s, w) = r

LEMMA PacketWord ==
    ASSUME NEW q \in Seq(Seq(Byte)), NEW a \in Seq(Byte), NEW i \in BOOLEAN, NEW f \in BOOLEAN,
           NEW x \in Seq(Byte), Len(x) <= 3
    PROVE  Finishes(Escaping(q, a, i, x, f), PKT, Continue(Plain(q, <<>>, TRUE, f)))
  BY WordDoes, ZenonT(30) DEF Finishes

LEMMA EndWord ==
    ASSUME NEW q \in Seq(Seq(Byte)), NEW a \in Seq(Byte), NEW i \in BOOLEAN, NEW f \in BOOLEAN,
           NEW x \in Seq(Byte), Len(x) <= 3, i
    PROVE  Finishes(Escaping(q, a, i, x, f), END, Continue(Plain(Append(q, a), <<>>, FALSE, f)))
  BY WordDoes, ZenonT(30) DEF Finishes

LEMMA EscapedWord ==
    ASSUME NEW q \in Seq(Seq(Byte)), NEW a \in Seq(Byte), NEW i \in BOOLEAN, NEW f \in BOOLEAN,
           NEW x \in Seq(Byte), Len(x) <= 3, i
    PROVE  Finishes(Escaping(q, a, i, x, f), ESCAPED, Continue(Plain(q, Append(a, ESC), i, f)))
  BY WordDoes, ZenonT(30) DEF Finishes

LEMMA TakeNextContinues ==
    ASSUME NEW s, NEW b
    PROVE  TakeNext(Continue(s), b) = TakeByte(s, b)
  BY DEF TakeNext, Continue

LEMMA ReadOne ==
    ASSUME NEW s \in Readers, NEW c \in Seq(Byte), NEW t, Makes(s, c, Continue(t)),
           NEW x \in Byte, NEW r, Takes(t, x, r)
    PROVE  Makes(s, Append(c, x), r)
<1>1. ProcessBytesRead(s, Append(c, x)) = TakeNext(ProcessBytesRead(s, c), x)
  BY ReadAppend
<1>2. TakeNext(Continue(t), x) = TakeByte(t, x)
  BY TakeNextContinues
<1>3. ProcessBytesRead(s, c) = Continue(t) /\ TakeByte(t, x) = r
  BY DEF Makes, Takes
<1>. QED
  BY <1>1, <1>2, <1>3, Zenon DEF Makes

\* A control word, taken by a reader in front of its escape byte.
LEMMA PartsRead ==
    ASSUME NEW q \in Seq(Seq(Byte)), NEW a \in Seq(Byte), NEW i \in BOOLEAN, NEW f \in BOOLEAN,
           NEW x \in Byte, NEW y \in Byte, NEW z \in Byte
    PROVE  LET xy   == Append(Append(<<>>, x), y)
               word == Append(Append(Append(<<>>, ESC), x), y)
           IN  /\ word \in Seq(Byte)
               /\ Makes(Plain(q, a, i, f), word, Continue(Escaping(q, a, i, xy, f)))
               /\ Makes(Plain(q, a, i, f), Append(word, z),
                        ControlWord(Escaping(q, a, i, xy, f), Append(xy, z)))
<1>. DEFINE s    == Plain(q, a, i, f)
            xy   == Append(Append(<<>>, x), y)
            word == Append(Append(Append(<<>>, ESC), x), y)
<1>1. s \in Readers
  BY PlainIs
<1>2. ESC \in Byte
  BY DEF Byte
<1>3. <<>> \in Seq(Byte)
  OBVIOUS
<1>4. Len(<<>>) < 2
  OBVIOUS
<1>5. Append(<<>>, x) \in Seq(Byte)
  OBVIOUS
<1>6. Len(Append(<<>>, x)) < 2
  OBVIOUS
<1>7. xy \in Seq(Byte)
  OBVIOUS
<1>8. Len(xy) <= 2 /\ ~(Len(xy) < 2)
  OBVIOUS
<1>9. /\ Append(<<>>, ESC) \in Seq(Byte)
      /\ Append(Append(<<>>, ESC), x) \in Seq(Byte)
      /\ word \in Seq(Byte)
  BY <1>2
<1>10. Takes(s, ESC, Continue(Escaping(q, a, i, <<>>, f)))
  BY <1>2, PlainByte DEF Takes
<1>11. Takes(Escaping(q, a, i, <<>>, f), x, Continue(Escaping(q, a, i, Append(<<>>, x), f)))
  BY <1>3, <1>4, NextTaken, Zenon
<1>12. Takes(Escaping(q, a, i, Append(<<>>, x), f), y, Continue(Escaping(q, a, i, xy, f)))
  BY <1>5, <1>6, NextTaken, Zenon
<1>13. Takes(Escaping(q, a, i, xy, f), z, ControlWord(Escaping(q, a, i, xy, f), Append(xy, z)))
  BY <1>7, <1>8, LastTaken, Zenon
<1>. HIDE DEF s
<1>14. Makes(s, <<>>, Continue(s))
  BY <1>1, ReadNone DEF Makes
<1>15. Makes(s, Append(<<>>, ESC), Continue(Escaping(q, a, i, <<>>, f)))
  BY <1>1, <1>2, <1>3, <1>10, <1>14, ReadOne, Zenon
<1>16. Makes(s, Append(Append(<<>>, ESC), x), Continue(Escaping(q, a, i, Append(<<>>, x), f)))
  BY <1>1, <1>9, <1>11, <1>15, ReadOne, Zenon
<1>17. Makes(s, word, Continue(Escaping(q, a, i, xy, f)))
  BY <1>1, <1>9, <1>12, <1>16, ReadOne, Zenon
<1>18. Makes(s, Append(word, z), ControlWord(Escaping(q, a, i, xy, f), Append(xy, z)))
  BY <1>1, <1>9, <1>13, <1>17, ReadOne, Zenon
<1>. QED
  BY <1>9, <1>17, <1>18, Zenon DEF s

LEMMA WordRead ==
    ASSUME NEW q \in Seq(Seq(Byte)), NEW a \in Seq(Byte), NEW i \in BOOLEAN, NEW f \in BOOLEAN,
           NEW x \in Byte, NEW y \in Byte, NEW z \in Byte
    PROVE  /\ <<ESC, x, y>> \in Seq(Byte)
           /\ Makes(Plain(q, a, i, f), <<ESC, x, y>>, Continue(Escaping(q, a, i, <<x, y>>, f)))
           /\ Makes(Plain(q, a, i, f), <<ESC, x, y, z>>,
                    ControlWord(Escaping(q, a, i, <<x, y>>, f), <<x, y, z>>))
<1>1. <<x, y>> = Append(Append(<<>>, x), y)
  OBVIOUS
<1>2. <<x, y, z>> = Append(<<x, y>>, z)
  OBVIOUS
<1>3. <<ESC, x, y>> = Append(Append(Append(<<>>, ESC), x), y)
  OBVIOUS
<1>4. <<ESC, x, y, z>> = Append(<<ESC, x, y>>, z)
  OBVIOUS
<1>5. LET xy   == Append(Append(<<>>, x), y)
          word == Append(Append(Append(<<>>, ESC), x), y)
      IN  /\ word \in Seq(Byte)
          /\ Makes(Plain(q, a, i, f), word, Continue(Escaping(q, a, i, xy, f)))
          /\ Makes(Plain(q, a, i, f), Append(word, z),
                   ControlWord(Escaping(q, a, i, xy, f), Append(xy, z)))
  BY PartsRead, Zenon
<1>. QED
  BY <1>1, <1>2, <1>3, <1>4, <1>5, Zenon

Joined(p, q, r) == p \o q = r

LEMMA JoinByte ==
    ASSUME NEW p \in Seq(Byte), NEW q \in Seq(Byte), NEW x \in Byte, NEW r, Joined(p, q, r)
    PROVE  Joined(p, Append(q, x), Append(r, x))
<1>1. p \o Append(q, x) = Append(p \o q, x)
  OBVIOUS
<1>. QED
  BY <1>1, Zenon DEF Joined

LEMMA FourBytes ==
    ASSUME NEW a \in Byte, NEW b \in Byte, NEW c \in Byte, NEW d \in Byte
    PROVE  <<a>> \o <<b, c, d>> = <<a, b, c, d>>
<1>1. <<a>> \in Seq(Byte)
  OBVIOUS
<1>2. <<b, c, d>> = Append(Append(Append(<<>>, b), c), d)
  OBVIOUS
<1>3. <<a, b, c, d>> = Append(Append(Append(<<a>>, b), c), d)
  OBVIOUS
<1>4. <<>> \in Seq(Byte) /\ Append(<<>>, b) \in Seq(Byte) /\ Append(Append(<<>>, b), c) \in Seq(Byte)
  OBVIOUS
<1>5. Joined(<<a>>, <<>>, <<a>>)
  BY DEF Joined
<1>6. Joined(<<a>>, Append(<<>>, b), Append(<<a>>, b))
  BY <1>1, <1>4, <1>5, JoinByte, Zenon
<1>7. Joined(<<a>>, Append(Append(<<>>, b), c), Append(Append(<<a>>, b), c))
  BY <1>1, <1>4, <1>6, JoinByte, Zenon
<1>8. Joined(<<a>>, Append(Append(Append(<<>>, b), c), d), Append(Append(Append(<<a>>, b), c), d))
  BY <1>1, <1>4, <1>7, JoinByte, Zenon
<1>. QED
  BY <1>2, <1>3, <1>8, Zenon DEF Joined

\* A byte of a packet, escaped or not.
LEMMA EscapeByteRead ==
    ASSUME NEW q \in Seq(Seq(Byte)), NEW a \in Seq(Byte), NEW i \in BOOLEAN, NEW f \in BOOLEAN,
           NEW b \in Byte, i
    PROVE  /\ EscapeByte(b) \in Seq(Byte)
           /\ Makes(Plain(q, a, i, f), EscapeByte(b), Continue(Plain(q, Append(a, b), i, f)))
<1>1. CASE b = ESC
  <2>1. "E" \in Byte /\ "S" \in Byte /\ "C" \in Byte /\ ESC \in Byte
    BY DEF Byte
  <2>2. ESCAPED = <<"E", "S", "C">>
    BY DEF ESCAPED
  <2>3. EscapeByte(b) = <<ESC, "E", "S", "C">>
    <3>1. <<ESC>> \o <<"E", "S", "C">> = <<ESC, "E", "S", "C">>
      BY <2>1, FourBytes, ZenonT(30)
    <3>. QED
      BY <1>1, <2>2, <3>1, Zenon DEF EscapeByte
  <2>4. <<"E", "S">> \in Seq(Byte) /\ Len(<<"E", "S">>) <= 3 /\ <<ESC, "E", "S", "C">> \in Seq(Byte)
    BY <2>1
  <2>5. Makes(Plain(q, a, i, f), <<ESC, "E", "S", "C">>,
              ControlWord(Escaping(q, a, i, <<"E", "S">>, f), <<"E", "S", "C">>))
    BY <2>1, WordRead, Zenon
  <2>6. Finishes(Escaping(q, a, i, <<"E", "S">>, f), ESCAPED, Continue(Plain(q, Append(a, ESC), i, f)))
    BY <2>4, EscapedWord, Zenon
  <2>. QED
    BY <1>1, <2>2, <2>3, <2>4, <2>5, <2>6, Zenon DEF Finishes
<1>2. CASE b # ESC
  <2>1. EscapeByte(b) = Append(<<>>, b) /\ <<>> \in Seq(Byte) /\ Append(<<>>, b) \in Seq(Byte)
    BY <1>2 DEF EscapeByte
  <2>2. Plain(q, a, i, f) \in Readers
    BY PlainIs
  <2>3. Makes(Plain(q, a, i, f), <<>>, Continue(Plain(q, a, i, f)))
    BY <2>2, ReadNone DEF Makes
  <2>4. Takes(Plain(q, a, i, f), b, Continue(Plain(q, Append(a, b), i, f)))
    BY <1>2, PlainByte DEF Takes
  <2>5. Makes(Plain(q, a, i, f), Append(<<>>, b), Continue(Plain(q, Append(a, b), i, f)))
    BY <2>1, <2>2, <2>3, <2>4, ReadOne, Zenon
  <2>. QED
    BY <2>1, <2>5, Zenon
<1>. QED
  BY <1>1, <1>2

LEMMA EscapeByteType ==
    ASSUME NEW b \in Byte
    PROVE  EscapeByte(b) \in Seq(Byte)
<1>1. <<>> \in Seq(Seq(Byte)) /\ <<>> \in Seq(Byte) /\ TRUE \in BOOLEAN
  OBVIOUS
<1>. QED
  BY <1>1, EscapeByteRead, Zenon

LEMMA MakesConcat ==
    ASSUME NEW s \in Readers, NEW a \in Seq(Byte), NEW b \in Seq(Byte), NEW t, NEW r,
           Makes(s, a, Continue(t)), Makes(t, b, r)
    PROVE  Makes(s, a \o b, r)
<1>. DEFINE u == ProcessBytesRead(s, a)
<1>1. u = Continue(t)
  BY DEF Makes
<1>2. ProcessBytesRead(s, a \o b) = IF u.threw THEN u ELSE ProcessBytesRead(u.s, b)
  BY ReadConcat
<1>3. ~u.threw /\ u.s = t
  BY <1>1, ContinueIs
<1>4. ProcessBytesRead(t, b) = r
  BY DEF Makes
<1>. HIDE DEF u
<1>. QED
  BY <1>2, <1>3, <1>4 DEF Makes

\* The escaped bytes of a packet, p[1] to p[i].
LEMMA EscapedIs ==
    ASSUME NEW p \in Seq(Byte)
    PROVE  \E f : /\ Escaped(p) = f[Len(p)]
                  /\ f[0] = <<>>
                  /\ \A i \in 1 .. Len(p) : f[i] = f[i - 1] \o EscapeByte(p[i])
<1>. DEFINE N == Len(p)
            step == [i \in 1 .. N |-> [w \in Seq(Byte) |-> w \o EscapeByte(p[i])]]
<1>1. N \in Nat /\ \A i \in 1 .. N : p[i] \in Byte
  OBVIOUS
<1>2. \A i \in 1 .. N : [w \in Seq(Byte) |-> w \o EscapeByte(p[i])] \in [Seq(Byte) -> Seq(Byte)]
  <2>1. SUFFICES ASSUME NEW i \in 1 .. N, NEW w \in Seq(Byte)
                 PROVE  w \o EscapeByte(p[i]) \in Seq(Byte)
    OBVIOUS
  <2>2. EscapeByte(p[i]) \in Seq(Byte)
    BY <1>1, EscapeByteType
  <2>. QED
    BY <2>2
<1>3. step \in [1 .. N -> [Seq(Byte) -> Seq(Byte)]]
  BY <1>2
<1>4. PICK g : Solves(g, N, Seq(Byte), <<>>, step)
  <2>1. <<>> \in Seq(Byte)
    OBVIOUS
  <2>2. N \in Nat
    BY <1>1
  <2>. HIDE DEF N, step
  <2>. QED
    BY <1>3, <2>1, <2>2, Recursion, Zenon
<1>5. \A i \in 1 .. N : g[i - 1] \in Seq(Byte)
  BY <1>1, <1>4 DEF Solves
<1>6. \A i \in 1 .. N : g[i] = g[i - 1] \o EscapeByte(p[i])
  BY <1>4, <1>5 DEF Solves
<1>7. g = [i \in 0 .. N |-> IF i = 0 THEN <<>> ELSE g[i - 1] \o EscapeByte(p[i])]
  <2>1. g = [i \in 0 .. N |-> g[i]]
    BY <1>4 DEF Solves
  <2>2. \A i \in 0 .. N : g[i] = IF i = 0 THEN <<>> ELSE g[i - 1] \o EscapeByte(p[i])
    <3>1. g[0] = <<>>
      BY <1>4 DEF Solves
    <3>2. \A i \in 0 .. N : i = 0 \/ i \in 1 .. N
      BY <1>1
    <3>3. \A i \in 1 .. N : i # 0
      OBVIOUS
    <3>. HIDE DEF N
    <3>. QED
      BY <1>6, <3>1, <3>2, <3>3, Zenon
  <2>. HIDE DEF N
  <2>. QED
    BY <2>1, <2>2, Zenon
<1>. DEFINE f == CHOOSE f : f = [i \in 0 .. Len(p) |->
                        IF i = 0 THEN <<>> ELSE f[i - 1] \o EscapeByte(p[i])]
<1>8. f = [i \in 0 .. N |-> IF i = 0 THEN <<>> ELSE f[i - 1] \o EscapeByte(p[i])]
  BY <1>7
<1>9. Escaped(p) = f[N]
  BY DEF Escaped
<1>. HIDE DEF f
<1>10. f[0] = <<>> /\ \A i \in 1 .. N : f[i] = f[i - 1] \o EscapeByte(p[i])
  BY <1>1, <1>8
<1>. QED
  BY <1>9, <1>10

LEMMA EscapedRead ==
    ASSUME NEW p \in Seq(Byte), NEW q \in Seq(Seq(Byte)), NEW i \in BOOLEAN, NEW f \in BOOLEAN, i
    PROVE  /\ Escaped(p) \in Seq(Byte)
           /\ Makes(Plain(q, <<>>, i, f), Escaped(p), Continue(Plain(q, p, i, f)))
<1>1. PICK g : /\ Escaped(p) = g[Len(p)]
               /\ g[0] = <<>>
               /\ \A n \in 1 .. Len(p) : g[n] = g[n - 1] \o EscapeByte(p[n])
  BY EscapedIs
<1>. DEFINE s == Plain(q, <<>>, i, f)
            Good(n) == /\ g[n] \in Seq(Byte)
                       /\ Makes(s, g[n], Continue(Plain(q, SubSeq(p, 1, n), i, f)))
            S == {n \in Nat : n <= Len(p) => Good(n)}
<1>2. s \in Readers
  <2>1. <<>> \in Seq(Byte)
    OBVIOUS
  <2>. QED
    BY <2>1, PlainIs
<1>3. 0 \in S
  <2>1. SubSeq(p, 1, 0) = <<>> /\ <<>> \in Seq(Byte)
    OBVIOUS
  <2>2. Makes(s, <<>>, Continue(s))
    BY <1>2, ReadNone DEF Makes
  <2>3. Good(0)
    BY <1>1, <2>1, <2>2, Zenon
  <2>. QED
    BY <2>3
<1>4. \A n \in Nat : n \in S => n + 1 \in S
  <2>. HIDE DEF Good
  <2>1. SUFFICES ASSUME NEW n \in Nat, n <= Len(p) => Good(n), n + 1 <= Len(p)
                 PROVE  Good(n + 1)
    OBVIOUS
  <2>2. n <= Len(p) /\ p[n + 1] \in Byte /\ SubSeq(p, 1, n) \in Seq(Byte)
    <3>1. n + 1 <= Len(p)
      BY <2>1
    <3>. QED
      BY <3>1
  <2>3. g[n + 1] = g[n] \o EscapeByte(p[n + 1])
    <3>1. n + 1 \in 1 .. Len(p) /\ (n + 1) - 1 = n
      <4>1. n + 1 <= Len(p)
        BY <2>1
      <4>. QED
        BY <4>1
    <3>2. \A m \in 1 .. Len(p) : g[m] = g[m - 1] \o EscapeByte(p[m])
      BY <1>1, Zenon
    <3>. QED
      BY <3>1, <3>2
  <2>4. SubSeq(p, 1, n + 1) = Append(SubSeq(p, 1, n), p[n + 1])
    BY <2>1
  <2>. DEFINE a == SubSeq(p, 1, n)
              b == p[n + 1]
  <2>. HIDE DEF a, b
  <2>5. g[n] \in Seq(Byte) /\ Makes(s, g[n], Continue(Plain(q, a, i, f)))
    BY <2>1, <2>2 DEF a, Good
  <2>6. EscapeByte(b) \in Seq(Byte) /\ Makes(Plain(q, a, i, f), EscapeByte(b), Continue(Plain(q, Append(a, b), i, f)))
    <3>1. a \in Seq(Byte) /\ b \in Byte
      BY <2>2 DEF a, b
    <3>. QED
      BY <3>1, EscapeByteRead, Zenon
  <2>7. Makes(s, g[n] \o EscapeByte(b), Continue(Plain(q, Append(a, b), i, f)))
    <3>. HIDE DEF s
    <3>. QED
      BY <1>2, <2>5, <2>6, MakesConcat, Zenon
  <2>8. g[n] \o EscapeByte(b) \in Seq(Byte)
    BY <2>5, <2>6
  <2>. QED
    BY <2>3, <2>4, <2>7, <2>8, Zenon DEF a, b, Good
<1>5. Nat \subseteq S
  <2>. HIDE DEF S
  <2>. QED
    BY <1>3, <1>4, SetInduction
<1>6. Good(Len(p))
  <2>1. Len(p) \in Nat /\ Len(p) <= Len(p)
    OBVIOUS
  <2>. HIDE DEF Good
  <2>. QED
    BY <1>5, <2>1
<1>7. SubSeq(p, 1, Len(p)) = p
  OBVIOUS
<1>. QED
  BY <1>1, <1>6, <1>7, Zenon

\* A reader in front of the frame of p gets it with the last byte.
Delivers(q, a, f, p) ==
    \E front \in Seq(Byte), b \in Byte, t \in Readers :
        /\ Frame(p) = Append(front, b)
        /\ t.readBuffer = q
        /\ Makes(Plain(q, a, FALSE, f), front, Continue(t))
        /\ Makes(Plain(q, a, FALSE, f), Frame(p), Continue(Plain(Append(q, p), <<>>, FALSE, f)))

LEMMA FrameRead ==
    ASSUME NEW q \in Seq(Seq(Byte)), NEW a \in Seq(Byte), NEW f \in BOOLEAN, NEW p \in Seq(Byte)
    PROVE  Delivers(q, a, f, p)
<1>. DEFINE s == Plain(q, a, FALSE, f)
            head == <<ESC, "P", "K", "T">>
            foot == <<ESC, "E", "N">>
            front == (head \o Escaped(p)) \o foot
            t == Escaping(q, p, TRUE, <<"E", "N">>, f)
<1>1. /\ "P" \in Byte /\ "K" \in Byte /\ "T" \in Byte /\ "E" \in Byte /\ "N" \in Byte
      /\ "D" \in Byte /\ ESC \in Byte
  BY DEF Byte
<1>2. TRUE \in BOOLEAN /\ FALSE \in BOOLEAN /\ TRUE
  OBVIOUS
<1>3. <<>> \in Seq(Byte)
  OBVIOUS
<1>4. /\ <<"P", "K">> \in Seq(Byte) /\ Len(<<"P", "K">>) <= 3
      /\ <<"E", "N">> \in Seq(Byte) /\ Len(<<"E", "N">>) <= 3
      /\ head \in Seq(Byte) /\ <<"E", "N", "D">> \in Seq(Byte) /\ <<ESC>> \in Seq(Byte)
  BY <1>1
<1>5. s \in Readers
  BY <1>2, PlainIs, Zenon
<1>6. Makes(s, head, Continue(Plain(q, <<>>, TRUE, f)))
  <2>1. Makes(s, head, ControlWord(Escaping(q, a, FALSE, <<"P", "K">>, f), <<"P", "K", "T">>))
    BY <1>1, <1>2, WordRead, Zenon
  <2>2. Finishes(Escaping(q, a, FALSE, <<"P", "K">>, f), PKT, Continue(Plain(q, <<>>, TRUE, f)))
    BY <1>2, <1>4, PacketWord, Zenon
  <2>. QED
    BY <2>1, <2>2, Zenon DEF PKT, Finishes
<1>7. Escaped(p) \in Seq(Byte) /\ Makes(Plain(q, <<>>, TRUE, f), Escaped(p), Continue(Plain(q, p, TRUE, f)))
  BY <1>2, EscapedRead, Zenon
<1>8. Plain(q, p, TRUE, f) \in Readers
  BY <1>2, PlainIs, Zenon
<1>9. foot \in Seq(Byte) /\ Makes(Plain(q, p, TRUE, f), foot, Continue(t))
  BY <1>1, <1>2, WordRead, Zenon
<1>10. Makes(Plain(q, p, TRUE, f), <<ESC, "E", "N", "D">>, Continue(Plain(Append(q, p), <<>>, FALSE, f)))
  <2>1. Makes(Plain(q, p, TRUE, f), <<ESC, "E", "N", "D">>, ControlWord(t, <<"E", "N", "D">>))
    BY <1>1, <1>2, WordRead, Zenon
  <2>2. Finishes(t, END, Continue(Plain(Append(q, p), <<>>, FALSE, f)))
    BY <1>2, <1>4, EndWord, Zenon
  <2>. QED
    BY <2>1, <2>2, Zenon DEF END, Finishes
<1>11. t \in Readers /\ t.readBuffer = q
  <2>1. t \in Readers
    BY <1>2, <1>4, EscapingIs, Zenon
  <2>2. t.readBuffer = q
    BY DEF Escaping, Socket
  <2>. QED
    BY <2>1, <2>2
<1>. HIDE DEF t, s
<1>12. head \o Escaped(p) \in Seq(Byte)
  BY <1>4, <1>7
<1>13. Makes(s, head \o Escaped(p), Continue(Plain(q, p, TRUE, f)))
  <2>1. Plain(q, <<>>, TRUE, f) \in Readers
    BY <1>2, <1>3, PlainIs, Zenon
  <2>. HIDE DEF head
  <2>. QED
    BY <1>4, <1>5, <1>6, <1>7, MakesConcat, Zenon
<1>14. Makes(s, front, Continue(t))
  <2>. HIDE DEF head, foot
  <2>. QED
    BY <1>5, <1>9, <1>12, <1>13, MakesConcat, Zenon
<1>15. Makes(s, (head \o Escaped(p)) \o <<ESC, "E", "N", "D">>, Continue(Plain(Append(q, p), <<>>, FALSE, f)))
  <2>1. <<ESC, "E", "N", "D">> \in Seq(Byte)
    BY <1>1
  <2>. HIDE DEF head
  <2>. QED
    BY <1>5, <1>10, <1>12, <1>13, <2>1, MakesConcat, Zenon
<1>16. Frame(p) = (head \o Escaped(p)) \o <<ESC, "E", "N", "D">>
  <2>1. <<ESC>> \o <<"P", "K", "T">> = head
    BY <1>1, FourBytes, ZenonT(30)
  <2>2. <<ESC>> \o <<"E", "N", "D">> = <<ESC, "E", "N", "D">>
    BY <1>1, FourBytes, ZenonT(30)
  <2>3. \A u, v, w \in Seq(Byte) : (u \o v) \o w = u \o (v \o w)
    OBVIOUS
  <2>4. Frame(p) = ((head \o Escaped(p)) \o <<ESC>>) \o <<"E", "N", "D">>
    BY <2>1, Zenon DEF Frame, PKT, END
  <2>5. ((head \o Escaped(p)) \o <<ESC>>) \o <<"E", "N", "D">> = (head \o Escaped(p)) \o (<<ESC>> \o <<"E", "N", "D">>)
    <3>. DEFINE m == head \o Escaped(p)
                x == <<ESC>>
                y == <<"E", "N", "D">>
    <3>1. m \in Seq(Byte) /\ x \in Seq(Byte) /\ y \in Seq(Byte)
      BY <1>4, <1>12
    <3>. HIDE DEF m, x, y
    <3>2. (m \o x) \o y = m \o (x \o y)
      BY <2>3, <3>1, ZenonT(30)
    <3>. QED
      BY <3>2, Zenon DEF m, x, y
  <2>. QED
    BY <2>2, <2>4, <2>5, Zenon
<1>17. Frame(p) = Append(front, "D")
  <2>1. <<ESC, "E", "N", "D">> = Append(foot, "D")
    OBVIOUS
  <2>2. \A u, v \in Seq(Byte), x \in Byte : u \o Append(v, x) = Append(u \o v, x)
    OBVIOUS
  <2>3. (head \o Escaped(p)) \o Append(foot, "D") = Append(front, "D")
    <3>. HIDE DEF head, foot
    <3>. QED
      BY <1>1, <1>9, <1>12, <2>2, Zenon
  <2>. QED
    BY <1>16, <2>1, <2>3, Zenon
<1>18. front \in Seq(Byte)
  <2>. HIDE DEF head, foot
  <2>. QED
    BY <1>9, <1>12
<1>. HIDE DEF front
<1>. QED
  BY <1>1, <1>11, <1>14, <1>15, <1>16, <1>17, <1>18, Zenon DEF s, Delivers
-----------------------------------------------------------------------------
(* What is still to come of a packet that is being sent.                     *)

\* Reader s gets packet p from the bytes: with the last of them, and with
\* nothing of it left over.
Completes(s, bytes, p) ==
    \E front \in Seq(Byte), b \in Byte :
        /\ bytes = Append(front, b)
        /\ ~ProcessBytesRead(s, front).threw
        /\ ProcessBytesRead(s, front).s.readBuffer = s.readBuffer
        /\ ~ProcessBytesRead(s, bytes).threw
        /\ ProcessBytesRead(s, bytes).s.readBuffer = Append(s.readBuffer, p)
        /\ NothingAccumulated(ProcessBytesRead(s, bytes).s)

\* A reader with nothing accumulated gets a packet from its frame.
LEMMA FrameCompletes ==
    ASSUME NEW s \in Readers, NothingAccumulated(s), NEW p \in Seq(Byte)
    PROVE  Completes(s, Frame(p), p) /\ Frame(p) \in Seq(Byte)
<1>. DEFINE q == s.readBuffer
            u == Plain(Append(q, p), <<>>, FALSE, s.eof)
<1>1. /\ q \in Seq(Seq(Byte)) /\ s.accum \in Seq(Byte) /\ s.eof \in BOOLEAN /\ s.inPacket \in BOOLEAN
      /\ s.inEscapeSeq \in BOOLEAN /\ s.escAccum = <<>> /\ s \in SockType
  BY ReaderTypes DEF NothingAccumulated
<1>2. s.inPacket = FALSE /\ s.inEscapeSeq = FALSE
  BY <1>1 DEF NothingAccumulated
<1>3. s = Plain(q, s.accum, FALSE, s.eof)
  <2>1. s = Socket(s.readBuffer, s.accum, s.inPacket, s.inEscapeSeq, s.escAccum, s.eof)
    BY <1>1, SocketFields
  <2>. QED
    BY <1>1, <1>2, <2>1, Zenon DEF Plain
<1>4. Delivers(q, s.accum, s.eof, p)
  BY <1>1, FrameRead, Zenon
<1>5. PICK front \in Seq(Byte), b \in Byte, t \in Readers :
              /\ Frame(p) = Append(front, b)
              /\ t.readBuffer = q
              /\ Makes(Plain(q, s.accum, FALSE, s.eof), front, Continue(t))
              /\ Makes(Plain(q, s.accum, FALSE, s.eof), Frame(p), Continue(u))
  BY <1>4, Zenon DEF Delivers
<1>6. Append(q, p) \in Seq(Seq(Byte)) /\ <<>> \in Seq(Byte) /\ FALSE \in BOOLEAN
  BY <1>1
<1>7. u.readBuffer = Append(q, p) /\ NothingAccumulated(u)
  BY DEF Plain, Socket, NothingAccumulated
<1>. HIDE DEF u
<1>8. ProcessBytesRead(s, front) = Continue(t) /\ ProcessBytesRead(s, Frame(p)) = Continue(u)
  BY <1>3, <1>5, Zenon DEF Makes
<1>9. /\ ~Continue(t).threw /\ Continue(t).s = t
      /\ ~Continue(u).threw /\ Continue(u).s = u
  BY ContinueIs
<1>10. Frame(p) \in Seq(Byte)
  BY <1>5
<1>11. Completes(s, Frame(p), p)
  <2>1. Frame(p) = Append(front, b)
    BY <1>5
  <2>2. ~ProcessBytesRead(s, front).threw /\ ProcessBytesRead(s, front).s.readBuffer = s.readBuffer
    BY <1>5, <1>8, <1>9, Zenon
  <2>3. /\ ~ProcessBytesRead(s, Frame(p)).threw
        /\ ProcessBytesRead(s, Frame(p)).s.readBuffer = Append(s.readBuffer, p)
        /\ NothingAccumulated(ProcessBytesRead(s, Frame(p)).s)
    BY <1>7, <1>8, <1>9, Zenon
  <2>. QED
    BY <2>1, <2>2, <2>3, Zenon DEF Completes
<1>. QED
  BY <1>10, <1>11

\* A reader that has taken some bytes of them is as good.
LEMMA CompletesRest ==
    ASSUME NEW s \in Readers, NEW a \in Seq(Byte), NEW b \in Seq(Byte), b # <<>>, NEW p \in Seq(Byte),
           Completes(s, a \o b, p)
    PROVE  LET r == ProcessBytesRead(s, a)
           IN  ~r.threw /\ r.s.readBuffer = s.readBuffer /\ Completes(r.s, b, p)
<1>. DEFINE r == ProcessBytesRead(s, a)
<1>1. PICK front \in Seq(Byte), x \in Byte :
        /\ a \o b = Append(front, x)
        /\ ~ProcessBytesRead(s, front).threw
        /\ ProcessBytesRead(s, front).s.readBuffer = s.readBuffer
        /\ ~ProcessBytesRead(s, a \o b).threw
        /\ ProcessBytesRead(s, a \o b).s.readBuffer = Append(s.readBuffer, p)
        /\ NothingAccumulated(ProcessBytesRead(s, a \o b).s)
  BY DEF Completes
<1>2. PICK c \in Seq(Byte), y \in Byte : b = Append(c, y)
  <2>. DEFINE m == Len(b) - 1
  <2>1. m \in Nat /\ m + 1 = Len(b) /\ b[Len(b)] \in Byte
    OBVIOUS
  <2>2. SubSeq(b, 1, m) \in Seq(Byte) /\ b = Append(SubSeq(b, 1, m), b[Len(b)])
    BY <2>1
  <2>. QED
    BY <2>1, <2>2
<1>3. front = a \o c /\ x = y /\ a \o c \in Seq(Byte)
  <2>1. a \o b = Append(a \o c, y) /\ a \o c \in Seq(Byte)
    BY <1>2
  <2>. DEFINE ab == a \o b
              Ends(u, k) == u = SubSeq(ab, 1, Len(ab) - 1) /\ k = ab[Len(ab)]
  <2>2. \A u \in Seq(Byte), k \in Byte : ab = Append(u, k) => Ends(u, k)
    OBVIOUS
  <2>3. Ends(front, x) /\ Ends(a \o c, y)
    BY <1>1, <2>1, <2>2, Zenon
  <2>. QED
    BY <2>1, <2>3
<1>4. ProcessBytesRead(s, front) = IF r.threw THEN r ELSE ProcessBytesRead(r.s, c)
  BY <1>3, ReadConcat
<1>5. ProcessBytesRead(s, a \o b) = IF r.threw THEN r ELSE ProcessBytesRead(r.s, b)
  BY ReadConcat
<1>6. r \in Progressed /\ r.s \in Readers
  BY ReadType, ProgressedIs
<1>. HIDE DEF r
<1>7. ~r.threw
  BY <1>1, <1>4
<1>8. r.s.readBuffer = s.readBuffer
  <2>1. PICK u \in Seq(Seq(Byte)) : r.s.readBuffer = s.readBuffer \o u
    BY ReadAdds DEF r
  <2>2. PICK v \in Seq(Seq(Byte)) : ProcessBytesRead(r.s, c).s.readBuffer = r.s.readBuffer \o v
    BY <1>6, ReadAdds
  <2>3. s.readBuffer = (s.readBuffer \o u) \o v
    BY <1>1, <1>4, <1>7, <2>1, <2>2
  <2>4. \A w, m, n \in Seq(Seq(Byte)) : w = (w \o m) \o n => w = w \o m
    <3>1. SUFFICES ASSUME NEW w \in Seq(Seq(Byte)), NEW m \in Seq(Seq(Byte)), NEW n \in Seq(Seq(Byte)),
                          w = (w \o m) \o n
                   PROVE  w = w \o m
      OBVIOUS
    <3>2. Len(w) = Len(w) + Len(m) + Len(n)
      BY <3>1
    <3>3. Len(m) = 0
      BY <3>2
    <3>4. m = <<>>
      BY <3>3
    <3>. QED
      BY <3>4
  <2>5. s.readBuffer \in Seq(Seq(Byte))
    BY ReaderTypes
  <2>. QED
    BY <2>1, <2>3, <2>4, <2>5, Zenon
<1>9. Completes(r.s, b, p)
  <2>1. /\ ~ProcessBytesRead(r.s, c).threw
        /\ ProcessBytesRead(r.s, c).s.readBuffer = r.s.readBuffer
    BY <1>1, <1>4, <1>7, <1>8
  <2>2. /\ ~ProcessBytesRead(r.s, b).threw
        /\ ProcessBytesRead(r.s, b).s.readBuffer = Append(r.s.readBuffer, p)
        /\ NothingAccumulated(ProcessBytesRead(r.s, b).s)
    BY <1>1, <1>5, <1>7, <1>8
  <2>. QED
    BY <1>2, <2>1, <2>2, Zenon DEF Completes
<1>. QED
  BY <1>7, <1>8, <1>9 DEF r

LEMMA CompletesAll ==
    ASSUME NEW s \in Readers, NEW a \in Seq(Byte), NEW p, Completes(s, a, p)
    PROVE  LET r == ProcessBytesRead(s, a)
           IN  ~r.threw /\ r.s.readBuffer = Append(s.readBuffer, p) /\ NothingAccumulated(r.s)
  BY DEF Completes

\* Framing: writeWait()'s control words and escapes and takeSomeEscapeSeq(),
\* takeSomePacket() and processBytesRead() are inverse.  Whatever bytes a packet
\* holds and wherever the stream that brings its frame is cut in two, a reader
\* that is not inside a packet throws at neither piece, hands over nothing with
\* the first unless it is the whole frame, hands over that packet with the last
\* and has nothing accumulated then.
THEOREM FramesAreRead ==
    ASSUME NEW s \in Readers, NothingAccumulated(s), NEW p \in Seq(Byte),
           NEW a \in Seq(Byte), NEW b \in Seq(Byte), Frame(p) = a \o b
    PROVE  LET first == ProcessBytesRead(s, a)
               second == ProcessBytesRead(first.s, b)
           IN  /\ ~first.threw /\ ~second.threw
               /\ b # <<>> => first.s.readBuffer = s.readBuffer
               /\ second.s.readBuffer = Append(s.readBuffer, p)
               /\ NothingAccumulated(second.s)
<1>. DEFINE first == ProcessBytesRead(s, a)
            second == ProcessBytesRead(first.s, b)
<1>1. Completes(s, a \o b, p) /\ a \o b \in Seq(Byte)
  BY FrameCompletes
<1>2. LET whole == ProcessBytesRead(s, a \o b)
      IN  /\ ~whole.threw /\ whole.s.readBuffer = Append(s.readBuffer, p)
          /\ NothingAccumulated(whole.s)
  BY <1>1, CompletesAll
<1>3. ProcessBytesRead(s, a \o b) = IF first.threw THEN first ELSE second
  BY ReadConcat
<1>4. b # <<>> => first.s.readBuffer = s.readBuffer
  BY <1>1, CompletesRest
<1>. HIDE DEF first, second
<1>. QED
  BY <1>2, <1>3, <1>4 DEF first, second
-----------------------------------------------------------------------------
(* A direction of a connection: a reader, the bytes on their way to it, the  *)
(* packets taken and written, and the operation and the state of the writer. *)

Prefix(a, b) == Len(a) <= Len(b) /\ \A i \in 1 .. Len(a) : a[i] = b[i]

Carries(s, bytes, taken, written, o, state) ==
    LET r == ProcessBytesRead(s, bytes)
    IN  /\ ~r.threw
        /\ taken \o r.s.readBuffer = written
        /\ o.op = "write" => Completes(r.s, o.pending, o.packet)
        /\ o.op # "write" /\ state # "closed" => NothingAccumulated(r.s)

LEMMA ReadTypes ==
    ASSUME NEW s \in Readers, NEW bytes \in Seq(Byte)
    PROVE  LET r == ProcessBytesRead(s, bytes)
           IN  r \in Progressed /\ r.s \in Readers /\ r.s.readBuffer \in Seq(Seq(Byte)) /\ r.threw \in BOOLEAN
<1>. DEFINE r == ProcessBytesRead(s, bytes)
<1>1. r \in Progressed
  BY ReadType
<1>. HIDE DEF r
<1>2. r.s \in Readers /\ r.threw \in BOOLEAN
  BY <1>1, ProgressedIs
<1>3. r.s.readBuffer \in Seq(Seq(Byte))
  BY <1>2, ReaderTypes
<1>. QED
  BY <1>1, <1>2, <1>3 DEF r

LEMMA CarriesSame ==
    ASSUME NEW s, NEW bytes, NEW g, NEW w, NEW o, NEW st, Carries(s, bytes, g, w, o, st),
           NEW o2, NEW st2,
           o2.op = "write" => o.op = "write" /\ o2.pending = o.pending /\ o2.packet = o.packet,
           o2.op # "write" /\ st2 # "closed" => o.op # "write" /\ st # "closed"
    PROVE  Carries(s, bytes, g, w, o2, st2)
  BY DEF Carries

LEMMA CarriesStart ==
    ASSUME NEW s \in Readers, NEW bytes \in Seq(Byte), NEW g, NEW w, NEW o, NEW st,
           Carries(s, bytes, g, w, o, st), o.op # "write", st # "closed",
           NEW p \in Seq(Byte), NEW o2, o2.op = "write", o2.pending = Frame(p), o2.packet = p, NEW st2
    PROVE  Carries(s, bytes, g, w, o2, st2)
<1>. DEFINE r == ProcessBytesRead(s, bytes)
<1>1. r.s \in Readers
  BY ReadTypes
<1>2. ~r.threw /\ g \o r.s.readBuffer = w /\ NothingAccumulated(r.s)
  BY DEF Carries
<1>. HIDE DEF r
<1>3. Completes(r.s, Frame(p), p)
  BY <1>1, <1>2, FrameCompletes
<1>. QED
  BY <1>2, <1>3 DEF Carries, r

LEMMA CarriesMore ==
    ASSUME NEW s \in Readers, NEW bytes \in Seq(Byte), NEW g, NEW w, NEW o, NEW st,
           Carries(s, bytes, g, w, o, st), o.op = "write", o.packet \in Seq(Byte),
           NEW a \in Seq(Byte), NEW b \in Seq(Byte), o.pending = a \o b, b # <<>>,
           NEW o2, o2.op = "write", o2.pending = b, o2.packet = o.packet, NEW st2
    PROVE  Carries(s, bytes \o a, g, w, o2, st2)
<1>. DEFINE r == ProcessBytesRead(s, bytes)
            u == ProcessBytesRead(r.s, a)
            p == o.packet
<1>1. r.s \in Readers
  BY ReadTypes
<1>2. ~r.threw /\ g \o r.s.readBuffer = w /\ Completes(r.s, a \o b, p)
  BY DEF Carries
<1>3. ProcessBytesRead(s, bytes \o a) = IF r.threw THEN r ELSE u
  BY ReadConcat
<1>. HIDE DEF r, p
<1>4. ~u.threw /\ u.s.readBuffer = r.s.readBuffer /\ Completes(u.s, b, p)
  BY <1>1, <1>2, CompletesRest DEF p
<1>. HIDE DEF u
<1>5. ProcessBytesRead(s, bytes \o a) = u
  BY <1>2, <1>3
<1>. QED
  BY <1>2, <1>4, <1>5 DEF Carries, p

LEMMA CarriesLast ==
    ASSUME NEW s \in Readers, NEW bytes \in Seq(Byte), NEW g \in Seq(Seq(Byte)), NEW w, NEW o, NEW st,
           Carries(s, bytes, g, w, o, st), o.op = "write", o.packet \in Seq(Byte),
           o.pending \in Seq(Byte), NEW o2, o2.op # "write", NEW st2
    PROVE  Carries(s, bytes \o o.pending, g, Append(w, o.packet), o2, st2)
<1>. DEFINE r == ProcessBytesRead(s, bytes)
            a == o.pending
            u == ProcessBytesRead(r.s, a)
            p == o.packet
<1>1. r.s \in Readers /\ r.s.readBuffer \in Seq(Seq(Byte))
  BY ReadTypes
<1>2. ~r.threw /\ g \o r.s.readBuffer = w /\ Completes(r.s, a, p)
  BY DEF Carries
<1>3. ProcessBytesRead(s, bytes \o a) = IF r.threw THEN r ELSE u
  BY ReadConcat
<1>. HIDE DEF r, p
<1>4. ~u.threw /\ u.s.readBuffer = Append(r.s.readBuffer, p) /\ NothingAccumulated(u.s)
  BY <1>1, <1>2, CompletesAll
<1>. HIDE DEF u
<1>5. ProcessBytesRead(s, bytes \o a) = u
  BY <1>2, <1>3
<1>6. g \o Append(r.s.readBuffer, p) = Append(g \o r.s.readBuffer, p)
  <2>1. p \in Seq(Byte)
    BY DEF p
  <2>2. \A x \in Seq(Seq(Byte)), y \in Seq(Byte) : g \o Append(x, y) = Append(g \o x, y)
    BY SMTT(30)
  <2>. QED
    BY <1>1, <2>1, <2>2, Zenon
<1>. HIDE DEF a
<1>7. g \o u.s.readBuffer = Append(w, p)
  BY <1>2, <1>4, <1>6, Zenon
<1>. QED
  BY <1>4, <1>5, <1>7 DEF Carries, p, a

LEMMA PrefixConcat ==
    ASSUME NEW A, NEW g \in Seq(A), NEW x \in Seq(A), NEW y \in Seq(A)
    PROVE  Prefix(g \o x, g \o (x \o y))
<1>1. Len(g \o x) <= Len(g \o (x \o y))
  OBVIOUS
<1>2. \A i \in 1 .. Len(g \o x) : (g \o x)[i] = (g \o (x \o y))[i]
  OBVIOUS
<1>. QED
  BY <1>1, <1>2 DEF Prefix

LEMMA CarriesRead ==
    ASSUME NEW s \in Readers, NEW a \in Seq(Byte), NEW b \in Seq(Byte),
           NEW g \in Seq(Seq(Byte)), NEW w, NEW o, NEW st,
           Carries(s, a \o b, g, w, o, st)
    PROVE  LET r == ProcessBytesRead(s, a)
           IN  /\ ~r.threw /\ Carries(r.s, b, g, w, o, st)
               /\ ProcessBytesRead(r.s, b) = ProcessBytesRead(s, a \o b)
               /\ Prefix(g \o r.s.readBuffer, w)
<1>. DEFINE r == ProcessBytesRead(s, a)
            u == ProcessBytesRead(s, a \o b)
<1>1. ~u.threw /\ g \o u.s.readBuffer = w
  BY DEF Carries
<1>2. u = IF r.threw THEN r ELSE ProcessBytesRead(r.s, b)
  BY ReadConcat
<1>3. r.s \in Readers /\ r.s.readBuffer \in Seq(Seq(Byte))
  BY ReadTypes
<1>. HIDE DEF r
<1>4. ~r.threw /\ u = ProcessBytesRead(r.s, b)
  <2>. HIDE DEF u
  <2>. QED
    BY <1>1, <1>2
<1>5. Carries(r.s, b, g, w, o, st)
  BY <1>4 DEF Carries
<1>6. Prefix(g \o r.s.readBuffer, w)
  <2>1. PICK y \in Seq(Seq(Byte)) : u.s.readBuffer = r.s.readBuffer \o y
    <3>1. \E y \in Seq(Seq(Byte)) : ProcessBytesRead(r.s, b).s.readBuffer = r.s.readBuffer \o y
      BY <1>3, ReadAdds
    <3>. HIDE DEF u
    <3>. QED
      BY <1>4, <3>1
  <2>2. Prefix(g \o r.s.readBuffer, g \o (r.s.readBuffer \o y))
    BY <1>3, PrefixConcat
  <2>. HIDE DEF u
  <2>. QED
    BY <1>1, <2>1, <2>2, Zenon
<1>. QED
  BY <1>4, <1>5, <1>6 DEF r

\* A reader that has given a packet away is as good as before.
LEMMA WithBufferKeeps ==
    ASSUME NEW s, NEW q
    PROVE  /\ NothingAccumulated(WithBuffer(s, q)) <=> NothingAccumulated(s)
           /\ WithBuffer(s, q).readBuffer = q
  BY DEF NothingAccumulated, WithBuffer, Socket

LEMMA AlikeIs ==
    ASSUME NEW r, NEW u, NEW q, Alike(r, u, q)
    PROVE  /\ r.threw = u.threw
           /\ r.s.readBuffer = q \o u.s.readBuffer
           /\ NothingAccumulated(r.s) <=> NothingAccumulated(u.s)
<1>. DEFINE y == q \o u.s.readBuffer
            z == WithBuffer(u.s, y)
<1>1. r.threw = u.threw /\ r.s = z
  BY DEF Alike
<1>2. z.readBuffer = y /\ (NothingAccumulated(z) <=> NothingAccumulated(u.s))
  BY WithBufferKeeps
<1>. HIDE DEF z
<1>. QED
  BY <1>1, <1>2

LEMMA CompletesAlike ==
    ASSUME NEW x \in Readers, NEW q \in Seq(Seq(Byte)), NEW bytes \in Seq(Byte), NEW p \in Seq(Byte),
           Completes(WithBuffer(x, q \o x.readBuffer), bytes, p)
    PROVE  Completes(x, bytes, p)
<1>. DEFINE z == WithBuffer(x, q \o x.readBuffer)
<1>1. PICK front \in Seq(Byte), b \in Byte :
        /\ bytes = Append(front, b)
        /\ ~ProcessBytesRead(z, front).threw
        /\ ProcessBytesRead(z, front).s.readBuffer = z.readBuffer
        /\ ~ProcessBytesRead(z, bytes).threw
        /\ ProcessBytesRead(z, bytes).s.readBuffer = Append(z.readBuffer, p)
        /\ NothingAccumulated(ProcessBytesRead(z, bytes).s)
  BY DEF Completes
<1>2. z.readBuffer = q \o x.readBuffer
  BY WithBufferKeeps
<1>3. /\ Alike(ProcessBytesRead(z, front), ProcessBytesRead(x, front), q)
      /\ Alike(ProcessBytesRead(z, bytes), ProcessBytesRead(x, bytes), q)
  BY ReadAlike
<1>. DEFINE r == ProcessBytesRead(x, front)
            u == ProcessBytesRead(x, bytes)
<1>4. /\ r.s.readBuffer \in Seq(Seq(Byte)) /\ u.s.readBuffer \in Seq(Seq(Byte))
      /\ x.readBuffer \in Seq(Seq(Byte))
  BY ReadTypes, ReaderTypes
<1>. HIDE DEF z, r, u
<1>5. ~r.threw /\ q \o r.s.readBuffer = q \o x.readBuffer
  <2>1. Alike(ProcessBytesRead(z, front), r, q)
    BY <1>3 DEF r
  <2>. QED
    BY <1>1, <1>2, <2>1, AlikeIs
<1>6. ~u.threw /\ q \o u.s.readBuffer = Append(q \o x.readBuffer, p) /\ NothingAccumulated(u.s)
  <2>1. Alike(ProcessBytesRead(z, bytes), u, q)
    BY <1>3 DEF u
  <2>. QED
    BY <1>1, <1>2, <2>1, AlikeIs
<1>7. \A m, n \in Seq(Seq(Byte)) : q \o m = q \o n => m = n
  <2>1. \A m \in Seq(Seq(Byte)) : SubSeq(q \o m, Len(q) + 1, Len(q \o m)) = m
    OBVIOUS
  <2>. QED
    BY <2>1
<1>8. r.s.readBuffer = x.readBuffer
  BY <1>4, <1>5, <1>7, Zenon
<1>9. u.s.readBuffer = Append(x.readBuffer, p)
  <2>1. q \o Append(x.readBuffer, p) = Append(q \o x.readBuffer, p) /\ Append(x.readBuffer, p) \in Seq(Seq(Byte))
    <3>1. \A m \in Seq(Seq(Byte)) : q \o Append(m, p) = Append(q \o m, p) /\ Append(m, p) \in Seq(Seq(Byte))
      BY SMTT(30)
    <3>. QED
      BY <1>4, <3>1
  <2>. QED
    BY <1>4, <1>6, <1>7, <2>1, Zenon
<1>. QED
  BY <1>1, <1>5, <1>6, <1>8, <1>9 DEF Completes, r, u

LEMMA TakenIs ==
    ASSUME NEW s \in Readers, s.readBuffer # <<>>
    PROVE  LET t == WithBuffer(s, Tail(s.readBuffer))
           IN  /\ [s EXCEPT !.readBuffer = Tail(@)] = t
               /\ t \in Readers
               /\ Head(s.readBuffer) \in Seq(Byte)
               /\ <<Head(s.readBuffer)>> \o t.readBuffer = s.readBuffer
               /\ s = WithBuffer(t, <<Head(s.readBuffer)>> \o t.readBuffer)
<1>. DEFINE q == Tail(s.readBuffer)
            h == Head(s.readBuffer)
            t == WithBuffer(s, q)
<1>1. s.readBuffer \in Seq(Seq(Byte)) /\ s \in SockType
  BY ReaderTypes
<1>2. \A m \in Seq(Seq(Byte)) : m # <<>> =>
         Tail(m) \in Seq(Seq(Byte)) /\ Head(m) \in Seq(Byte) /\ <<Head(m)>> \o Tail(m) = m
  OBVIOUS
<1>3. q \in Seq(Seq(Byte)) /\ h \in Seq(Byte) /\ <<h>> \o q = s.readBuffer
  BY <1>1, <1>2, Zenon
<1>. HIDE DEF q, h
<1>4. t \in Readers /\ t.readBuffer = q
  BY <1>3, WithBufferIs
<1>5. [s EXCEPT !.readBuffer = q] = t
  <2>1. s = Socket(s.readBuffer, s.accum, s.inPacket, s.inEscapeSeq, s.escAccum, s.eof)
    BY <1>1, SocketFields
  <2>. QED
    BY <2>1 DEF Socket, WithBuffer
<1>6. s = WithBuffer(t, s.readBuffer)
  <2>1. WithBuffer(t, s.readBuffer) = WithBuffer(s, s.readBuffer)
    BY SocketWithBuffer DEF WithBuffer
  <2>. QED
    BY <2>1, SameBuffer
<1>. HIDE DEF t
<1>7. s = WithBuffer(t, <<h>> \o t.readBuffer) /\ <<h>> \o t.readBuffer = s.readBuffer
  BY <1>3, <1>4, <1>6, Zenon
<1>. QED
  BY <1>3, <1>4, <1>5, <1>7 DEF q, h, t

LEMMA AppendConcat ==
    ASSUME NEW A, NEW u \in Seq(A), NEW v \in Seq(A), NEW y \in A
    PROVE  Append(u, y) \o v = u \o (<<y>> \o v)
<1>1. Append(u, y) = u \o <<y>> /\ <<y>> \in Seq(A)
  OBVIOUS
<1>2. \A a, b, c \in Seq(A) : (a \o b) \o c = a \o (b \o c)
  OBVIOUS
<1>3. (u \o <<y>>) \o v = u \o (<<y>> \o v)
  BY <1>1, <1>2, Zenon
<1>. QED
  BY <1>1, <1>3, Zenon

LEMMA AppendBuffer ==
    \A g, m \in Seq(Seq(Byte)), h \in Seq(Byte) : Append(g, h) \o m = g \o (<<h>> \o m)
  BY AppendConcat

LEMMA CarriesTake ==
    ASSUME NEW s \in Readers, NEW bytes \in Seq(Byte), NEW g \in Seq(Seq(Byte)), NEW w, NEW o, NEW st,
           Carries(s, bytes, g, w, o, st), s.readBuffer # <<>>,
           o.op = "write" => o.packet \in Seq(Byte) /\ o.pending \in Seq(Byte)
    PROVE  LET t == [s EXCEPT !.readBuffer = Tail(@)]
           IN  /\ Carries(t, bytes, Append(g, Head(s.readBuffer)), w, o, st)
               /\ NothingAccumulated(ProcessBytesRead(t, bytes).s)
                    <=> NothingAccumulated(ProcessBytesRead(s, bytes).s)
<1>. DEFINE t == WithBuffer(s, Tail(s.readBuffer))
            h == Head(s.readBuffer)
            r == ProcessBytesRead(s, bytes)
            u == ProcessBytesRead(t, bytes)
<1>1. /\ [s EXCEPT !.readBuffer = Tail(@)] = t
      /\ t \in Readers
      /\ h \in Seq(Byte)
      /\ s = WithBuffer(t, <<h>> \o t.readBuffer)
  BY TakenIs
<1>2. <<h>> \in Seq(Seq(Byte))
  BY <1>1
<1>. HIDE DEF t, h
<1>3. Alike(r, u, <<h>>)
  BY <1>1, <1>2, ReadAlike
<1>4. ~r.threw /\ g \o r.s.readBuffer = w
  BY DEF Carries
<1>5. u.s \in Readers /\ u.s.readBuffer \in Seq(Seq(Byte))
  BY <1>1, ReadTypes
<1>6. /\ o.op = "write" => Completes(r.s, o.pending, o.packet)
      /\ o.op # "write" /\ st # "closed" => NothingAccumulated(r.s)
  BY DEF Carries
<1>. HIDE DEF r, u
<1>7. /\ r.threw = u.threw /\ r.s = WithBuffer(u.s, <<h>> \o u.s.readBuffer)
      /\ r.s.readBuffer = <<h>> \o u.s.readBuffer
      /\ NothingAccumulated(r.s) <=> NothingAccumulated(u.s)
  <2>1. r.s = WithBuffer(u.s, <<h>> \o u.s.readBuffer)
    BY <1>3 DEF Alike
  <2>. QED
    BY <1>3, <2>1, AlikeIs
<1>8. Append(g, h) \o u.s.readBuffer = w
  <2>1. Append(g, h) \o u.s.readBuffer = g \o (<<h>> \o u.s.readBuffer)
    BY <1>1, <1>5, AppendBuffer, Zenon
  <2>. QED
    BY <1>4, <1>7, <2>1
<1>9. o.op = "write" => Completes(u.s, o.pending, o.packet)
  <2>1. SUFFICES ASSUME o.op = "write" PROVE Completes(u.s, o.pending, o.packet)
    OBVIOUS
  <2>2. o.packet \in Seq(Byte) /\ o.pending \in Seq(Byte)
    BY <2>1
  <2>3. Completes(WithBuffer(u.s, <<h>> \o u.s.readBuffer), o.pending, o.packet)
    BY <1>6, <1>7, <2>1
  <2>. QED
    BY <1>2, <1>5, <2>2, <2>3, CompletesAlike
<1>10. ~u.threw
  BY <1>4, <1>7
<1>11. Carries(t, bytes, Append(g, h), w, o, st)
  BY <1>6, <1>7, <1>8, <1>9, <1>10 DEF Carries, u
<1>. QED
  BY <1>1, <1>7, <1>11, Zenon DEF h, r, u

LEMMA CarriesEof ==
    ASSUME NEW s \in Readers, NEW g, NEW w, NEW o, NEW st, Carries(s, <<>>, g, w, o, st), o.op # "write"
    PROVE  LET t == [s EXCEPT !.eof = TRUE]
           IN  /\ t \in Readers /\ Carries(t, <<>>, g, w, o, st)
               /\ t.readBuffer = s.readBuffer
               /\ NothingAccumulated(t) <=> NothingAccumulated(s)
               /\ ProcessBytesRead(t, <<>>).s = t
<1>. DEFINE t == [s EXCEPT !.eof = TRUE]
<1>1. s \in SockType
  BY DEF Readers
<1>2. t \in Readers
  BY DEF Readers, ReaderOK, SockType
<1>3. t.readBuffer = s.readBuffer /\ (NothingAccumulated(t) <=> NothingAccumulated(s))
  BY <1>1 DEF SockType, NothingAccumulated
<1>. HIDE DEF t
<1>4. /\ ProcessBytesRead(s, <<>>) = Continue(s) /\ ProcessBytesRead(t, <<>>) = Continue(t)
      /\ Continue(s).s = s /\ Continue(t).s = t /\ ~Continue(t).threw
  BY <1>2, ReadNone, ContinueIs
<1>5. g \o s.readBuffer = w /\ (st # "closed" => NothingAccumulated(s))
  BY <1>4 DEF Carries
<1>6. Carries(t, <<>>, g, w, o, st)
  BY <1>3, <1>4, <1>5 DEF Carries
<1>. QED
  BY <1>2, <1>3, <1>4, <1>6, Zenon DEF t

\* Bytes do not make an end of file.
HasEof(r, f) == r.s.eof = f

LEMMA ContinuesWithEof ==
    ASSUME NEW q, NEW a, NEW i, NEW e, NEW x, NEW f
    PROVE  HasEof(Continue(Socket(q, a, i, e, x, f)), f)
  BY DEF Continue, Socket, HasEof

LEMMA ThrowsWithEof ==
    ASSUME NEW q, NEW a, NEW i, NEW e, NEW x, NEW f
    PROVE  HasEof(Throw(Socket(q, a, i, e, x, f)), f)
  BY DEF Throw, Socket, HasEof

LEMMA ControlWordEof ==
    ASSUME NEW s \in SockType, NEW w \in Seq(Byte)
    PROVE  HasEof(ControlWord(s, w), s.eof)
<1>1. \/ ControlWord(s, w) = Continue(Socket(s.readBuffer, s.accum, s.inPacket, FALSE, <<>>, s.eof))
      \/ ControlWord(s, w) = Continue(Socket(s.readBuffer, <<>>, TRUE, FALSE, <<>>, s.eof))
      \/ ControlWord(s, w)
           = Continue(Socket(Append(s.readBuffer, s.accum), <<>>, FALSE, FALSE, <<>>, s.eof))
      \/ ControlWord(s, w)
           = Continue(Socket(s.readBuffer, Append(s.accum, ESC), s.inPacket, FALSE, <<>>, s.eof))
      \/ ControlWord(s, w) = Throw(Socket(s.readBuffer, s.accum, s.inPacket, s.inEscapeSeq, w, s.eof))
  <2>1. w \in {NOP, PKT} => w = NOP \/ w = PKT
    OBVIOUS
  <2>2. w \in {END, ESCAPED} => w = END \/ w = ESCAPED
    OBVIOUS
  <2>. QED
    BY <2>1, <2>2, ControlWordDoes, Zenon
<1>. QED
  BY <1>1, ContinuesWithEof, ThrowsWithEof, Zenon

LEMMA TakeByteEof ==
    ASSUME NEW s \in Readers, NEW b \in Byte
    PROVE  HasEof(TakeByte(s, b), s.eof)
<1>1. s \in SockType /\ s.escAccum \in Seq(Byte)
  BY ReaderTypes
<1>2. Append(s.escAccum, b) \in Seq(Byte)
  BY <1>1
<1>3. CASE s.inEscapeSeq /\ Len(s.escAccum) = 3
  BY <1>1, <1>3, TakeByteDoes, ControlWordEof, Zenon
<1>4. CASE s.inEscapeSeq /\ Len(s.escAccum) = 2
  BY <1>1, <1>2, <1>4, TakeByteDoes, ControlWordEof, Zenon
<1>5. CASE s.inEscapeSeq /\ Len(s.escAccum) \notin {2, 3}
  <2>1. TakeByte(s, b) = Continue(Socket(s.readBuffer, s.accum, s.inPacket, s.inEscapeSeq,
                                         Append(s.escAccum, b), s.eof))
    BY <1>1, <1>5, TakeByteDoes, Zenon
  <2>. QED
    BY <2>1, ContinuesWithEof, Zenon
<1>6. CASE ~s.inEscapeSeq /\ b = ESC
  <2>1. TakeByte(s, b) = Continue(Socket(s.readBuffer, s.accum, s.inPacket, TRUE, s.escAccum, s.eof))
    BY <1>1, <1>6, TakeByteDoes, Zenon
  <2>. QED
    BY <2>1, ContinuesWithEof, Zenon
<1>7. CASE ~s.inEscapeSeq /\ b # ESC /\ s.inPacket
  <2>1. TakeByte(s, b) = Continue(Socket(s.readBuffer, Append(s.accum, b), s.inPacket, s.inEscapeSeq,
                                         s.escAccum, s.eof))
    BY <1>1, <1>7, TakeByteDoes, Zenon
  <2>. QED
    BY <2>1, ContinuesWithEof, Zenon
<1>8. CASE ~s.inEscapeSeq /\ b # ESC /\ ~s.inPacket
  <2>1. TakeByte(s, b) = Throw(s)
    BY <1>1, <1>8, TakeByteDoes, Zenon
  <2>. QED
    BY <2>1 DEF Throw, HasEof
<1>. QED
  BY <1>3, <1>4, <1>5, <1>6, <1>7, <1>8

LEMMA ReadEof ==
    ASSUME NEW s \in Readers, NEW bytes \in Seq(Byte)
    PROVE  ProcessBytesRead(s, bytes).s.eof = s.eof
<1>. DEFINE S == {c \in Seq(Byte) : ProcessBytesRead(s, c).s.eof = s.eof}
<1>1. <<>> \in S
  <2>1. <<>> \in Seq(Byte)
    OBVIOUS
  <2>. QED
    BY <2>1, ReadNone, ContinueIs
<1>2. \A c \in Seq(Byte), x \in Byte : c \in S => Append(c, x) \in S
  <2>1. SUFFICES ASSUME NEW c \in Seq(Byte), NEW x \in Byte, ProcessBytesRead(s, c).s.eof = s.eof
                 PROVE  Append(c, x) \in Seq(Byte) /\ ProcessBytesRead(s, Append(c, x)).s.eof = s.eof
    OBVIOUS
  <2>. DEFINE r == ProcessBytesRead(s, c)
  <2>2. ProcessBytesRead(s, Append(c, x)) = TakeNext(r, x) /\ Append(c, x) \in Seq(Byte)
    BY ReadAppend
  <2>3. r.s \in Readers /\ r.s.eof = s.eof
    BY <2>1, ReadTypes
  <2>. HIDE DEF r
  <2>4. TakeByte(r.s, x).s.eof = s.eof
    BY <2>3, TakeByteEof DEF HasEof
  <2>5. TakeNext(r, x).s.eof = s.eof
    BY <2>3, <2>4 DEF TakeNext
  <2>. QED
    BY <2>2, <2>5
<1>3. Seq(Byte) \subseteq S
  <2>. HIDE DEF S
  <2>. QED
    BY <1>1, <1>2, SeqInduction
<1>. QED
  BY <1>3
=============================================================================
