--------------------------- MODULE RegistryProofs ---------------------------
(***************************************************************************)
(* Proofs about Registry, for every number of threads and every set of      *)
(* calls and programs.                                                      *)
(*                                                                          *)
(* Every place that may hold a reference -- a thread's variable, an entry   *)
(* of its list of references to give back, an item of a value, what the     *)
(* methods keep, what is lost -- is a slot of a ledger, and the invariant   *)
(* says that the ledger balances: a value has as many slots as its count.   *)
(* What a value is made of, where a thread is and what its variables refer  *)
(* to there are the other parts of it.                                      *)
(***************************************************************************)
EXTENDS Registry, FiniteSetTheorems, FunctionTheorems, SequenceTheorems, TLAPS

-----------------------------------------------------------------------------
\* The ledger of references: who refers to a value, and how a step changes that

\* The empty sequence.
LEMMA NoItems == Len(<<>>) = 0 /\ DOMAIN <<>> = {} /\ <<>> \in Seq(Values)
OBVIOUS

\* Whether x is v, as a number.
One(x, v) == IF x = v THEN 1 ELSE 0

Variable == {"params", "list", "results", "result", "args"}
Slot ==
    (Variable \X Threads \X {0}) \cup ({"drop"} \X Threads \X Nat)
    \cup ({"item"} \X Values \X Nat)
    \cup ({"kept"} \X {Null} \X {0}) \cup ({"lost"} \X {Null} \X Nat)

At(q, k) == IF k \in DOMAIN q THEN q[k] ELSE Null
ItemAt(h, v, k) == IF v \in DOMAIN h THEN At(h[v].items, k) ELSE Null
OwnArgs(c) == IF c.list = Null THEN Null ELSE c.args
VarAt(c, x) ==
    CASE x = "params" -> c.params [] x = "list" -> c.list [] x = "results" -> c.results
      [] x = "result" -> c.result [] x = "args" -> OwnArgs(c)

Ledger(c, d, h, k, l) ==
    [s \in Slot |-> CASE s[1] \in Variable -> VarAt(c[s[2]], s[1])
                      [] s[1] = "drop" -> At(d[s[2]], s[3])
                      [] s[1] = "item" -> ItemAt(h, s[2], s[3])
                      [] s[1] = "kept" -> k
                      [] s[1] = "lost" -> At(l, s[3])]

Holders(M, v) == {s \in Slot: M[s] = v}
Held(M, v, n) == IsFiniteSet(Holders(M, v)) /\ Cardinality(Holders(M, v)) = n

\* One reference is set.
LEMMA OneSlot ==
    ASSUME NEW M, NEW M2, NEW z \in Slot, \A s \in Slot: s # z => M2[s] = M[s],
           NEW v, NEW n \in Int, Held(M, v, n)
    PROVE  /\ Held(M2, v, n - One(M[z], v) + One(M2[z], v))
<1> DEFINE H == Holders(M, v)
           H2 == Holders(M2, v)
<1>0. IsFiniteSet(H) /\ Cardinality(H) = n
  BY DEF Held
<1>1. z \in H <=> M[z] = v
  BY DEF Holders
<1>2. CASE M2[z] = v
  <2>1. H2 = H \cup {z}
    BY <1>2 DEF Holders
  <2>2. IsFiniteSet(H2) /\ Cardinality(H2) = IF z \in H THEN Cardinality(H) ELSE Cardinality(H) + 1
    BY <1>0, <2>1, FS_AddElement
  <2>3. Cardinality(H2) = n - One(M[z], v) + One(M2[z], v)
    BY <1>0, <1>1, <1>2, <2>2 DEF One
  <2> QED BY <2>2, <2>3 DEF Held
<1>3. CASE M2[z] # v
  <2>1. H2 = H \ {z}
    BY <1>3 DEF Holders
  <2>2. IsFiniteSet(H2) /\ Cardinality(H2) = IF z \in H THEN Cardinality(H) - 1 ELSE Cardinality(H)
    BY <1>0, <2>1, FS_RemoveElement
  <2>3. Cardinality(H2) = n - One(M[z], v) + One(M2[z], v)
    BY <1>0, <1>1, <1>3, <2>2 DEF One
  <2> QED BY <2>2, <2>3 DEF Held
<1> QED BY <1>2, <1>3

\* The places of the ledger, and what it has at each.
LEMMA SlotCases ==
    ASSUME NEW s \in Slot
    PROVE  \/ \E x \in Variable, t \in Threads: s = <<x, t, 0>>
           \/ \E t \in Threads, k \in Nat: s = <<"drop", t, k>>
           \/ \E v \in Values, k \in Nat: s = <<"item", v, k>>
           \/ s = <<"kept", Null, 0>>
           \/ \E k \in Nat: s = <<"lost", Null, k>>
BY DEF Slot

\* What the ledger has at the places of each kind.
LEMMA LedgerAt ==
    ASSUME NEW c, NEW d, NEW h, NEW k, NEW l
    PROVE  LET M == Ledger(c, d, h, k, l)
           IN /\ \A x \in Variable, t \in Threads:
                    <<x, t, 0>> \in Slot /\ M[<<x, t, 0>>] = VarAt(c[t], x)
              /\ \A t \in Threads, n \in Nat:
                    <<"drop", t, n>> \in Slot /\ M[<<"drop", t, n>>] = At(d[t], n)
              /\ \A v \in Values, n \in Nat:
                    <<"item", v, n>> \in Slot /\ M[<<"item", v, n>>] = ItemAt(h, v, n)
              /\ <<"kept", Null, 0>> \in Slot /\ M[<<"kept", Null, 0>>] = k
              /\ \A n \in Nat:
                    <<"lost", Null, n>> \in Slot /\ M[<<"lost", Null, n>>] = At(l, n)
<1> DEFINE M == Ledger(c, d, h, k, l)
<1>1. ASSUME NEW x \in Variable, NEW t \in Threads
      PROVE  <<x, t, 0>> \in Slot /\ M[<<x, t, 0>>] = VarAt(c[t], x)
  <2>1. <<x, t, 0>> \in Slot
    BY DEF Slot
  <2>2. x \notin {"drop", "item", "kept", "lost"}
    BY DEF Variable
  <2> DEFINE s == <<x, t, 0>>
  <2>3. s[1] = x /\ s[2] = t
    OBVIOUS
  <2>4. s \in Slot
    BY <2>1
  <2> HIDE DEF s
  <2>5. M[s] = VarAt(c[s[2]], s[1])
    BY <2>2, <2>3, <2>4 DEF Ledger
  <2>6. M[s] = VarAt(c[t], x)
    BY <2>3, <2>5
  <2> QED BY <2>1, <2>6 DEF s
<1>2. ASSUME NEW t \in Threads, NEW n \in Nat
      PROVE  <<"drop", t, n>> \in Slot /\ M[<<"drop", t, n>>] = At(d[t], n)
  <2>1. <<"drop", t, n>> \in Slot
    BY DEF Slot
  <2> QED BY <2>1 DEF Ledger, Variable
<1>3. ASSUME NEW v \in Values, NEW n \in Nat
      PROVE  <<"item", v, n>> \in Slot /\ M[<<"item", v, n>>] = ItemAt(h, v, n)
  <2>1. <<"item", v, n>> \in Slot
    BY DEF Slot
  <2> QED BY <2>1 DEF Ledger, Variable
<1>4. <<"kept", Null, 0>> \in Slot /\ M[<<"kept", Null, 0>>] = k
  <2>1. <<"kept", Null, 0>> \in Slot
    BY DEF Slot
  <2> QED BY <2>1 DEF Ledger, Variable
<1>5. ASSUME NEW n \in Nat
      PROVE  <<"lost", Null, n>> \in Slot /\ M[<<"lost", Null, n>>] = At(l, n)
  <2>1. <<"lost", Null, n>> \in Slot
    BY DEF Slot
  <2> QED BY <2>1 DEF Ledger, Variable
<1> QED BY <1>1, <1>2, <1>3, <1>4, <1>5

\* Two ledgers have the same at a place where what they are made from is the same.
LEMMA LedgerSame ==
    ASSUME NEW c, NEW d, NEW h, NEW k, NEW l, NEW c2, NEW d2, NEW h2, NEW k2, NEW l2,
           NEW s \in Slot,
           \A x \in Variable, u \in Threads:
              s = <<x, u, 0>> => VarAt(c2[u], x) = VarAt(c[u], x),
           \A u \in Threads, m \in Nat: s = <<"drop", u, m>> => At(d2[u], m) = At(d[u], m),
           \A w \in Values, m \in Nat: s = <<"item", w, m>> => ItemAt(h2, w, m) = ItemAt(h, w, m),
           s = <<"kept", Null, 0>> => k2 = k,
           \A m \in Nat: s = <<"lost", Null, m>> => At(l2, m) = At(l, m)
    PROVE  Ledger(c2, d2, h2, k2, l2)[s] = Ledger(c, d, h, k, l)[s]
<1> DEFINE M == Ledger(c, d, h, k, l)
           M2 == Ledger(c2, d2, h2, k2, l2)
<1>1. CASE \E x \in Variable, u \in Threads: s = <<x, u, 0>>
  <2>1. PICK x \in Variable, u \in Threads: s = <<x, u, 0>>
    BY <1>1
  <2>2. M[s] = VarAt(c[u], x) /\ M2[s] = VarAt(c2[u], x)
    BY ONLY <2>1, x \in Variable, u \in Threads, LedgerAt
  <2> QED BY <2>1, <2>2
<1>2. CASE \E u \in Threads, m \in Nat: s = <<"drop", u, m>>
  <2>1. PICK u \in Threads, m \in Nat: s = <<"drop", u, m>>
    BY <1>2
  <2>2. M[s] = At(d[u], m) /\ M2[s] = At(d2[u], m)
    BY ONLY <2>1, m \in Nat, u \in Threads, LedgerAt
  <2> QED BY <2>1, <2>2
<1>3. CASE \E w \in Values, m \in Nat: s = <<"item", w, m>>
  <2>1. PICK w \in Values, m \in Nat: s = <<"item", w, m>>
    BY <1>3
  <2>2. M[s] = ItemAt(h, w, m) /\ M2[s] = ItemAt(h2, w, m)
    BY ONLY <2>1, m \in Nat, w \in Values, LedgerAt
  <2> QED BY <2>1, <2>2
<1>4. CASE s = <<"kept", Null, 0>>
  <2>2. M[s] = k /\ M2[s] = k2
    BY ONLY <1>4, LedgerAt
  <2> QED BY <1>4, <2>2
<1>5. CASE \E m \in Nat: s = <<"lost", Null, m>>
  <2>1. PICK m \in Nat: s = <<"lost", Null, m>>
    BY <1>5
  <2>2. M[s] = At(l, m) /\ M2[s] = At(l2, m)
    BY ONLY <2>1, m \in Nat, LedgerAt
  <2> QED BY <2>1, <2>2
<1> QED BY <1>1, <1>2, <1>3, <1>4, <1>5, SlotCases

\* Ledgers that have the same at every place hold the same.
LEMMA SameHolders ==
    ASSUME NEW M, NEW M2, \A s \in Slot: M2[s] = M[s], NEW v, NEW n, Held(M, v, n)
    PROVE  Held(M2, v, n)
<1>1. Holders(M2, v) = Holders(M, v)
  BY DEF Holders
<1> QED BY <1>1 DEF Held

\* One(x, v) is a number.
LEMMA OneInt == \A x, v: One(x, v) \in Int
BY DEF One

Owned(c, v) ==
    One(c.params, v) + One(c.list, v) + One(c.results, v) + One(c.result, v)
    + One(OwnArgs(c), v)

\* A thread's variables change.
LEMMA CallChange ==
    ASSUME NEW c, NEW c2, NEW d, NEW h, NEW k, NEW l, NEW t \in Threads,
           \A u \in Threads: u # t => c2[u] = c[u],
           NEW v, NEW n \in Int, Held(Ledger(c, d, h, k, l), v, n)
    PROVE  Held(Ledger(c2, d, h, k, l), v, n - Owned(c[t], v) + Owned(c2[t], v))
<1> DEFINE M == Ledger(c, d, h, k, l)
           M2 == Ledger(c2, d, h, k, l)
           s1 == <<"params", t, 0>>
           s2 == <<"list", t, 0>>
           s3 == <<"results", t, 0>>
           s4 == <<"result", t, 0>>
           s5 == <<"args", t, 0>>
           N1 == [s \in Slot |-> IF s = s1 THEN M2[s] ELSE M[s]]
           N2 == [s \in Slot |-> IF s = s2 THEN M2[s] ELSE N1[s]]
           N3 == [s \in Slot |-> IF s = s3 THEN M2[s] ELSE N2[s]]
           N4 == [s \in Slot |-> IF s = s4 THEN M2[s] ELSE N3[s]]
           N5 == [s \in Slot |-> IF s = s5 THEN M2[s] ELSE N4[s]]
<1>1. s1 \in Slot /\ s2 \in Slot /\ s3 \in Slot /\ s4 \in Slot /\ s5 \in Slot
  BY DEF Slot, Variable
<1>2. /\ s1 # s2 /\ s1 # s3 /\ s1 # s4 /\ s1 # s5 /\ s2 # s3 /\ s2 # s4 /\ s2 # s5
      /\ s3 # s4 /\ s3 # s5 /\ s4 # s5
  OBVIOUS
<1>3. \A s \in Slot: s \notin {s1, s2, s3, s4, s5} => M2[s] = M[s]
  <2> SUFFICES ASSUME NEW s \in Slot, s \notin {s1, s2, s3, s4, s5}
               PROVE  M2[s] = M[s]
    OBVIOUS
  <2>1. ASSUME NEW x \in Variable, NEW u \in Threads, s = <<x, u, 0>>
        PROVE  VarAt(c2[u], x) = VarAt(c[u], x)
    <3>1. u # t
      BY <2>1 DEF Variable
    <3> QED BY <3>1
  <2> QED BY <2>1, LedgerSame
<1>4. /\ M[s1] = c[t].params /\ M[s2] = c[t].list /\ M[s3] = c[t].results
      /\ M[s4] = c[t].result /\ M[s5] = OwnArgs(c[t])
      /\ M2[s1] = c2[t].params /\ M2[s2] = c2[t].list /\ M2[s3] = c2[t].results
      /\ M2[s4] = c2[t].result /\ M2[s5] = OwnArgs(c2[t])
  <2>1. \A x \in Variable: M[<<x, t, 0>>] = VarAt(c[t], x) /\ M2[<<x, t, 0>>] = VarAt(c2[t], x)
    BY LedgerAt
  <2> HIDE DEF M, M2
  <2> QED BY <2>1 DEF Variable, VarAt
<1> HIDE DEF M, M2, s1, s2, s3, s4, s5
<1>5. Held(N1, v, n - One(M[s1], v) + One(M2[s1], v))
  <2>1. \A s \in Slot: s # s1 => N1[s] = M[s]
    OBVIOUS
  <2>2. N1[s1] = M2[s1]
    BY <1>1
  <2> HIDE DEF N1
  <2> QED BY <1>1, <2>1, <2>2, OneSlot DEF M
<1>6. PICK n1 \in Int: n1 = n - One(M[s1], v) + One(M2[s1], v)
  BY OneInt
<1>7. Held(N2, v, n1 - One(M[s2], v) + One(M2[s2], v))
  <2>1. \A s \in Slot: s # s2 => N2[s] = N1[s]
    BY DEF N2
  <2>2. N2[s2] = M2[s2] /\ N1[s2] = M[s2]
    BY <1>1, <1>2
  <2> HIDE DEF N1, N2
  <2> QED BY <1>1, <1>5, <1>6, <2>1, <2>2, OneSlot
<1>8. PICK n2 \in Int: n2 = n1 - One(M[s2], v) + One(M2[s2], v)
  BY OneInt
<1>9. Held(N3, v, n2 - One(M[s3], v) + One(M2[s3], v))
  <2>1. \A s \in Slot: s # s3 => N3[s] = N2[s]
    BY DEF N3
  <2>2. N3[s3] = M2[s3] /\ N2[s3] = M[s3]
    BY <1>1, <1>2
  <2> HIDE DEF N2, N3
  <2> QED BY <1>1, <1>7, <1>8, <2>1, <2>2, OneSlot
<1>10. PICK n3 \in Int: n3 = n2 - One(M[s3], v) + One(M2[s3], v)
  BY OneInt
<1>11. Held(N4, v, n3 - One(M[s4], v) + One(M2[s4], v))
  <2>1. \A s \in Slot: s # s4 => N4[s] = N3[s]
    BY DEF N4
  <2>2. N4[s4] = M2[s4] /\ N3[s4] = M[s4]
    BY <1>1, <1>2
  <2> HIDE DEF N3, N4
  <2> QED BY <1>1, <1>9, <1>10, <2>1, <2>2, OneSlot
<1>12. PICK n4 \in Int: n4 = n3 - One(M[s4], v) + One(M2[s4], v)
  BY OneInt
<1>13. Held(N5, v, n4 - One(M[s5], v) + One(M2[s5], v))
  <2>1. \A s \in Slot: s # s5 => N5[s] = N4[s]
    BY DEF N5
  <2>2. N5[s5] = M2[s5] /\ N4[s5] = M[s5]
    BY <1>1, <1>2
  <2> HIDE DEF N4, N5
  <2> QED BY <1>1, <1>11, <1>12, <2>1, <2>2, OneSlot
<1>14. \A s \in Slot: M2[s] = N5[s]
  BY <1>3
<1>15. Held(M2, v, n4 - One(M[s5], v) + One(M2[s5], v))
  <2> HIDE DEF N5
  <2> QED BY <1>13, <1>14, SameHolders
<1>16. n4 - One(M[s5], v) + One(M2[s5], v) = n - Owned(c[t], v) + Owned(c2[t], v)
  BY <1>4, <1>6, <1>8, <1>10, <1>12, OneInt DEF Owned
<1> QED BY <1>15, <1>16 DEF M2

\* A sequence that grows has at its end what is appended, and nobody was there.
LEMMA AppendAt ==
    ASSUME NEW S, NEW q \in Seq(S), NEW a \in S
    PROVE  /\ \A k \in Nat: k # Len(q) + 1 => At(Append(q, a), k) = At(q, k)
           /\ At(Append(q, a), Len(q) + 1) = a /\ At(q, Len(q) + 1) = Null
           /\ Len(q) + 1 \in Nat
<1>1. /\ Len(q) \in Nat /\ Append(q, a) \in Seq(S) /\ Len(Append(q, a)) = Len(q) + 1
      /\ Append(q, a)[Len(q) + 1] = a
      /\ \A k \in 1..Len(q): Append(q, a)[k] = q[k]
  OBVIOUS
<1>2. DOMAIN q = 1..Len(q) /\ DOMAIN Append(q, a) = 1..Len(q) + 1
  BY <1>1
<1> DEFINE p == Append(q, a)
<1> HIDE DEF p
<1>3. ASSUME NEW k \in Nat, k # Len(q) + 1
      PROVE  At(p, k) = At(q, k)
  <2>1. k \in DOMAIN p <=> k \in DOMAIN q
    BY <1>1, <1>2, <1>3 DEF p
  <2>2. k \in DOMAIN q => p[k] = q[k]
    BY <1>1, <1>2 DEF p
  <2> QED BY <2>1, <2>2 DEF At
<1>4. At(p, Len(q) + 1) = a /\ At(q, Len(q) + 1) = Null
  <2>1. Len(q) + 1 \in DOMAIN p /\ Len(q) + 1 \notin DOMAIN q
    BY <1>1, <1>2 DEF p
  <2>2. p[Len(q) + 1] = a
    BY <1>1 DEF p
  <2> QED BY <2>1, <2>2 DEF At
<1> QED BY <1>1, <1>3, <1>4 DEF p

\* A thread has one reference more to give back.
LEMMA DropAppended ==
    ASSUME NEW c, NEW d, NEW d2, NEW h, NEW k, NEW l, NEW t \in Threads,
           \A u \in Threads: u # t => d2[u] = d[u],
           NEW a \in Values, d[t] \in Seq(Values), d2[t] = Append(d[t], a),
           NEW v \in Values, NEW n \in Int, Held(Ledger(c, d, h, k, l), v, n)
    PROVE  Held(Ledger(c, d2, h, k, l), v, n + One(a, v))
<1> DEFINE M == Ledger(c, d, h, k, l)
           M2 == Ledger(c, d2, h, k, l)
           j == Len(d[t]) + 1
           z == <<"drop", t, j>>
<1>1. /\ \A m \in Nat: m # j => At(d2[t], m) = At(d[t], m)
      /\ At(d2[t], j) = a /\ At(d[t], j) = Null /\ j \in Nat
  BY AppendAt
<1> HIDE DEF j
<1>2. z \in Slot /\ M[z] = Null /\ M2[z] = a
  <2>1. z \in Slot /\ M[z] = At(d[t], j)
    BY <1>1, LedgerAt
  <2>2. M2[z] = At(d2[t], j)
    BY ONLY <1>1, t \in Threads, LedgerAt
  <2> QED BY <1>1, <2>1, <2>2
<1>3. \A s \in Slot: s # z => M2[s] = M[s]
  <2> SUFFICES ASSUME NEW s \in Slot, s # z
               PROVE  M2[s] = M[s]
    OBVIOUS
  <2>1. ASSUME NEW u \in Threads, NEW m \in Nat, s = <<"drop", u, m>>
        PROVE  At(d2[u], m) = At(d[u], m)
    <3>1. u # t \/ m # j
      BY <2>1
    <3> QED BY <1>1, <3>1
  <2> HIDE DEF z
  <2> QED BY <2>1, LedgerSame
<1> HIDE DEF M, M2, z
<1>4. Held(M2, v, n - One(M[z], v) + One(M2[z], v))
  BY <1>2, <1>3, OneSlot DEF M
<1>5. n - One(M[z], v) + One(M2[z], v) = n + One(a, v)
  BY <1>2, ValuesAssumption, OneInt DEF One
<1> QED BY <1>4, <1>5 DEF M2

\* Where the items are the same, the ledgers are.
LEMMA LedgerSameItems ==
    ASSUME NEW c, NEW d, NEW h, NEW k, NEW l, NEW h2, NEW s \in Slot,
           \A w \in Values, m \in Nat: s = <<"item", w, m>> => ItemAt(h2, w, m) = ItemAt(h, w, m)
    PROVE  Ledger(c, d, h2, k, l)[s] = Ledger(c, d, h, k, l)[s]
<1>1. \A x \in Variable, u \in Threads: s = <<x, u, 0>> => VarAt(c[u], x) = VarAt(c[u], x)
  OBVIOUS
<1>2. \A u \in Threads, m \in Nat: s = <<"drop", u, m>> => At(d[u], m) = At(d[u], m)
  OBVIOUS
<1>3. \A m \in Nat: s = <<"lost", Null, m>> => At(l, m) = At(l, m)
  OBVIOUS
<1> QED BY <1>1, <1>2, <1>3, LedgerSame

\* One place of a value's items changes, ...
LEMMA ItemChange ==
    ASSUME NEW c, NEW d, NEW h, NEW h2, NEW k, NEW l, NEW f \in Values, NEW j \in Nat,
           \A w \in Values, m \in Nat: w # f \/ m # j => ItemAt(h2, w, m) = ItemAt(h, w, m),
           NEW v, NEW n \in Int, Held(Ledger(c, d, h, k, l), v, n)
    PROVE  Held(Ledger(c, d, h2, k, l), v, n - One(ItemAt(h, f, j), v) + One(ItemAt(h2, f, j), v))
<1> DEFINE M == Ledger(c, d, h, k, l)
           M2 == Ledger(c, d, h2, k, l)
           z == <<"item", f, j>>
<1>1. z \in Slot /\ M[z] = ItemAt(h, f, j) /\ M2[z] = ItemAt(h2, f, j)
  BY LedgerAt
<1>2. \A s \in Slot: s # z => M2[s] = M[s]
  <2> SUFFICES ASSUME NEW s \in Slot, s # z
               PROVE  M2[s] = M[s]
    OBVIOUS
  <2>1. ASSUME NEW w \in Values, NEW m \in Nat, s = <<"item", w, m>>
        PROVE  ItemAt(h2, w, m) = ItemAt(h, w, m)
    <3>1. w # f \/ m # j
      BY <2>1
    <3> QED BY <3>1
  <2> QED BY ONLY <2>1, s \in Slot, LedgerSameItems
<1> HIDE DEF M, M2, z
<1>3. Held(M2, v, n - One(M[z], v) + One(M2[z], v))
  BY <1>1, <1>2, OneSlot DEF M
<1> QED BY <1>1, <1>3 DEF M2

\* ... or none.
LEMMA ItemsSame ==
    ASSUME NEW c, NEW d, NEW h, NEW h2, NEW k, NEW l,
           \A w \in Values, m \in Nat: ItemAt(h2, w, m) = ItemAt(h, w, m),
           NEW v, NEW n, Held(Ledger(c, d, h, k, l), v, n)
    PROVE  Held(Ledger(c, d, h2, k, l), v, n)
<1> DEFINE M == Ledger(c, d, h, k, l)
           M2 == Ledger(c, d, h2, k, l)
<1>1. ASSUME NEW s \in Slot PROVE M2[s] = M[s]
  <2>1. \A w \in Values, m \in Nat: ItemAt(h2, w, m) = ItemAt(h, w, m)
    OBVIOUS
  <2> QED BY ONLY <2>1, s \in Slot, LedgerSameItems
<1> HIDE DEF M, M2
<1> QED BY <1>1, SameHolders DEF M, M2

\* What the methods keep changes.
LEMMA KeptChange ==
    ASSUME NEW c, NEW d, NEW h, NEW k, NEW k2, NEW l,
           NEW v, NEW n \in Int, Held(Ledger(c, d, h, k, l), v, n)
    PROVE  Held(Ledger(c, d, h, k2, l), v, n - One(k, v) + One(k2, v))
<1> DEFINE M == Ledger(c, d, h, k, l)
           M2 == Ledger(c, d, h, k2, l)
           z == <<"kept", Null, 0>>
<1>1. z \in Slot /\ M[z] = k /\ M2[z] = k2
  BY LedgerAt
<1>2. \A s \in Slot: s # z => M2[s] = M[s]
  <2> SUFFICES ASSUME NEW s \in Slot, s # z
               PROVE  M2[s] = M[s]
    OBVIOUS
  <2>1. s # <<"kept", Null, 0>>
    OBVIOUS
  <2> QED BY ONLY <2>1, s \in Slot, LedgerSame
<1> HIDE DEF M, M2, z
<1>3. Held(M2, v, n - One(M[z], v) + One(M2[z], v))
  BY <1>1, <1>2, OneSlot DEF M
<1> QED BY <1>1, <1>3 DEF M2

\* A reference is lost.
LEMMA LostAppended ==
    ASSUME NEW c, NEW d, NEW h, NEW k, NEW l \in Seq(Values), NEW a \in Values,
           NEW v \in Values, NEW n \in Int, Held(Ledger(c, d, h, k, l), v, n)
    PROVE  Held(Ledger(c, d, h, k, Append(l, a)), v, n + One(a, v))
<1> DEFINE l2 == Append(l, a)
           M == Ledger(c, d, h, k, l)
           M2 == Ledger(c, d, h, k, l2)
           j == Len(l) + 1
           z == <<"lost", Null, j>>
<1>1. /\ \A m \in Nat: m # j => At(l2, m) = At(l, m)
      /\ At(l2, j) = a /\ At(l, j) = Null /\ j \in Nat
  BY AppendAt
<1> HIDE DEF j, l2
<1>2. z \in Slot /\ M[z] = Null /\ M2[z] = a
  BY <1>1, LedgerAt
<1>3. \A s \in Slot: s # z => M2[s] = M[s]
  <2> SUFFICES ASSUME NEW s \in Slot, s # z
               PROVE  M2[s] = M[s]
    OBVIOUS
  <2>1. ASSUME NEW m \in Nat, s = <<"lost", Null, m>>
        PROVE  At(l2, m) = At(l, m)
    <3>1. m # j
      BY <2>1
    <3> QED BY <1>1, <3>1
  <2> QED BY ONLY <2>1, s \in Slot, LedgerSame
<1> HIDE DEF M, M2, z
<1>4. Held(M2, v, n - One(M[z], v) + One(M2[z], v))
  BY <1>2, <1>3, OneSlot DEF M
<1>5. n - One(M[z], v) + One(M2[z], v) = n + One(a, v)
  BY <1>2, ValuesAssumption, OneInt DEF One
<1> QED BY <1>4, <1>5 DEF M2, l2

\* One and two references to give back.
LEMMA DropsSet ==
    ASSUME NEW c, NEW d \in [Threads -> Seq(Values)], NEW h, NEW k, NEW l, NEW t \in Threads,
           d[t] = <<>>, NEW a \in Values, NEW b \in Values,
           NEW v \in Values, NEW n \in Int, Held(Ledger(c, d, h, k, l), v, n)
    PROVE  /\ Held(Ledger(c, [d EXCEPT ![t] = <<a>>], h, k, l), v, n + One(a, v))
           /\ Held(Ledger(c, [d EXCEPT ![t] = <<a, b>>], h, k, l), v, n + One(a, v) + One(b, v))
<1> DEFINE d1 == [d EXCEPT ![t] = <<a>>]
           d2 == [d EXCEPT ![t] = <<a, b>>]
<1>1. /\ d1[t] = <<a>> /\ d2[t] = <<a, b>>
      /\ \A u \in Threads: u # t => d1[u] = d[u] /\ d2[u] = d1[u]
  OBVIOUS
<1>2. <<a>> \in Seq(Values) /\ <<>> \in Seq(Values)
      /\ <<a>> = Append(<<>>, a) /\ <<a, b>> = Append(<<a>>, b)
  OBVIOUS
<1> HIDE DEF d1, d2
<1>3. Held(Ledger(c, d1, h, k, l), v, n + One(a, v))
  BY <1>1, <1>2, DropAppended
<1>4. PICK m \in Int: m = n + One(a, v)
  BY OneInt
<1>5. Held(Ledger(c, d2, h, k, l), v, m + One(b, v))
  <2>1. d1[t] \in Seq(Values) /\ d2[t] = Append(d1[t], b)
    BY <1>1, <1>2
  <2>2. \A u \in Threads: u # t => d2[u] = d1[u]
    BY <1>1
  <2>3. Held(Ledger(c, d1, h, k, l), v, m)
    BY <1>3, <1>4
  <2> QED
    BY ONLY <1>4, <2>1, <2>2, <2>3, t \in Threads, b \in Values, v \in Values, DropAppended
<1> QED BY <1>3, <1>4, <1>5 DEF d1, d2

\* The heap

HeapType(h) == DOMAIN h \subseteq Values /\ h \in [DOMAIN h -> ValueType]
RefsOf(h, v) == IF v \in DOMAIN h THEN h[v].refs ELSE 0

\* The values of both heaps have the same items and tags, but for r's items.
Stable(h, h2, r) ==
    \A v \in DOMAIN h \cap DOMAIN h2:
       h2[v].tag = h[v].tag /\ (v # r => h2[v].items = h[v].items)

\* h2 is h with one more reference to x.
Increfed(h, h2, x) ==
    /\ HeapType(h2) /\ DOMAIN h2 = DOMAIN h
    /\ Stable(h, h2, Null)
    /\ \A v \in DOMAIN h: h2[v].tag = h[v].tag /\ h2[v].items = h[v].items
    /\ \A w, m: ItemAt(h2, w, m) = ItemAt(h, w, m)
    /\ \A v: RefsOf(h2, v) = RefsOf(h, v) + One(x, v)

\* xmlrpc_INCREF() adds one reference to the count and changes nothing else.
LEMMA IncrefCounts ==
    ASSUME NEW h, HeapType(h), NEW x \in DOMAIN h
    PROVE  Increfed(h, Incref(h, x), x)
<1> DEFINE h2 == Incref(h, x)
<1>1. h2 = [h EXCEPT ![x] = [h[x] EXCEPT !.refs = h[x].refs + 1]]
  BY DEF Incref
<1>2. h[x] \in ValueType
  BY DEF HeapType
<1>3. [h[x] EXCEPT !.refs = h[x].refs + 1] \in ValueType
  BY <1>2 DEF ValueType
<1>4. DOMAIN h2 = DOMAIN h /\ h2 \in [DOMAIN h -> ValueType]
  BY <1>1, <1>3 DEF HeapType
<1>5. ASSUME NEW v \in DOMAIN h
      PROVE  /\ h2[v].tag = h[v].tag /\ h2[v].items = h[v].items
             /\ h2[v].refs = h[v].refs + One(x, v)
  <2>1. CASE v = x
    <3>1. h2[v] = [h[x] EXCEPT !.refs = h[x].refs + 1]
      BY <1>1, <2>1
    <3> QED BY <1>2, <2>1, <3>1 DEF ValueType, One
  <2>2. CASE v # x
    <3>1. h2[v] = h[v] /\ h[v] \in ValueType
      BY <1>1, <2>2 DEF HeapType
    <3> QED BY <2>2, <3>1 DEF ValueType, One
  <2> QED BY <2>1, <2>2
<1> HIDE DEF h2
<1>6. HeapType(h2)
  BY <1>4 DEF HeapType
<1>7. Stable(h, h2, Null)
  BY <1>4, <1>5 DEF Stable
<1>8. ASSUME NEW w, NEW m PROVE ItemAt(h2, w, m) = ItemAt(h, w, m)
  BY <1>4, <1>5 DEF ItemAt
<1>9. ASSUME NEW v PROVE RefsOf(h2, v) = RefsOf(h, v) + One(x, v)
  <2>1. CASE v \in DOMAIN h
    BY <1>4, <1>5, <2>1 DEF RefsOf
  <2>2. CASE v \notin DOMAIN h
    <3>1. x # v
      BY <2>2
    <3> QED BY <1>4, <2>2, <3>1 DEF RefsOf, One
  <2> QED BY <2>1, <2>2
<1> QED BY <1>4, <1>5, <1>6, <1>7, <1>8, <1>9 DEF h2, Increfed

\* A thread's new value is in a place of its own that was free.
LEMMA FreshPlace ==
    ASSUME NEW t \in Threads, Room(t, 1)
    PROVE  /\ Fresh(t) \in {t} \X (1..MaxValues) /\ Fresh(t) \in Values
           /\ Fresh(t) \notin DOMAIN heap
<1>1. Base(t, 1) \in Gaps(t, 1)
  BY DEF Base, Room
<1> DEFINE b == Base(t, 1)
<1>2. b \in 0..MaxValues - 1 /\ \A k \in b + 1..b + 1: <<t, k>> \notin DOMAIN heap
  BY <1>1 DEF Gaps
<1> HIDE DEF b
<1>3. b + 1 \in 1..MaxValues /\ b + 1 \in b + 1..b + 1
  BY <1>2, BoundsAssumption
<1>4. Fresh(t) = <<t, b + 1>>
  BY DEF Fresh, b
<1> QED BY <1>2, <1>3, <1>4 DEF Values

\* h2 is h with a new value f, of these items and this tag.
Allocated(h, h2, f, items, tag) ==
    /\ HeapType(h2) /\ DOMAIN h2 = DOMAIN h \cup {f}
    /\ Stable(h, h2, Null)
    /\ \A v \in DOMAIN h: h2[v] = h[v]
    /\ h2[f].items = items /\ h2[f].tag = tag
    /\ \A w, m: w # f => ItemAt(h2, w, m) = ItemAt(h, w, m)
    /\ \A m: ItemAt(h2, f, m) = At(items, m) /\ ItemAt(h, f, m) = Null
    /\ \A v: RefsOf(h2, v) = RefsOf(h, v) + One(f, v)

\* A new value is counted for one reference, and no other value changes.
LEMMA AllocCounts ==
    ASSUME NEW t \in Threads, NEW h, HeapType(h), Fresh(t) \in Values, Fresh(t) \notin DOMAIN h,
           NEW items \in Seq(Values), NEW tag \in Tags
    PROVE  Allocated(h, Alloc(t, h, items, tag), Fresh(t), items, tag)
<1> DEFINE h2 == Alloc(t, h, items, tag)
           f == Fresh(t)
<1>1. h2 = [v \in DOMAIN h \cup {f} |-> IF v = f THEN New(items, tag) ELSE h[v]]
  BY DEF Alloc
<1>2. New(items, tag) \in ValueType /\ New(items, tag).items = items
      /\ New(items, tag).tag = tag /\ New(items, tag).refs = 1
  BY DEF New, ValueType
<1> HIDE DEF h2, f
<1>3. DOMAIN h2 = DOMAIN h \cup {f}
  BY <1>1
<1>4. ASSUME NEW v \in DOMAIN h PROVE h2[v] = h[v] /\ h[v] \in ValueType
  BY <1>1 DEF f, HeapType
<1>5. h2[f] = New(items, tag)
  BY <1>1
<1>6. HeapType(h2)
  <2>1. DOMAIN h2 \subseteq Values
    BY <1>3 DEF HeapType, f
  <2>2. ASSUME NEW v \in DOMAIN h2 PROVE h2[v] \in ValueType
    BY <1>2, <1>3, <1>4, <1>5
  <2>3. h2 = [v \in DOMAIN h2 |-> h2[v]]
    BY <1>1
  <2>4. h2 \in [DOMAIN h2 -> ValueType]
    BY <2>2, <2>3
  <2> QED BY <2>1, <2>4 DEF HeapType
<1>7. Stable(h, h2, Null)
  BY <1>3, <1>4 DEF Stable
<1>8. ASSUME NEW w, NEW m, w # f PROVE ItemAt(h2, w, m) = ItemAt(h, w, m)
  BY <1>3, <1>4, <1>8 DEF ItemAt
<1>9. ASSUME NEW m PROVE ItemAt(h2, f, m) = At(items, m) /\ ItemAt(h, f, m) = Null
  BY <1>2, <1>3, <1>5 DEF ItemAt, f
<1>10. ASSUME NEW v PROVE RefsOf(h2, v) = RefsOf(h, v) + One(f, v)
  <2>1. CASE v \in DOMAIN h
    <3>1. f # v /\ h[v].refs \in Nat
      BY <1>4, <2>1 DEF f, ValueType
    <3> QED BY <1>3, <1>4, <2>1, <3>1 DEF RefsOf, One
  <2>2. CASE v = f
    BY <1>2, <1>3, <1>5, <2>2 DEF RefsOf, One, f
  <2>3. CASE v \notin DOMAIN h /\ v # f
    BY <1>3, <2>3 DEF RefsOf, One
  <2> QED BY <2>1, <2>2, <2>3
<1> QED BY <1>2, <1>3, <1>4, <1>5, <1>6, <1>7, <1>8, <1>9, <1>10 DEF Allocated, h2, f

-----------------------------------------------------------------------------
\* The inductive invariant

\* What a multicall's results tell, outcome by outcome, is what its calls returned.
Recorded(h, v, ran) ==
    /\ Len(h[v].items) = Len(ran)
    /\ \A k \in DOMAIN ran:
          LET w == h[v].items[k]
          IN IF ran[k].outcome = "fault"
             THEN h[w].tag = "fault"
             ELSE h[w].tag = "array" /\ h[h[w].items[1]].tag = ran[k].outcome

\* The server's own values, which no method gets or returns, ...
Internal == {"fault", "results"}

\* The values of the heap are made as the code makes them.
WellMade(h, v) ==
    /\ h[v].tag \in {"array", "call"} => Len(h[v].items) = 1
    /\ h[v].tag = "array" => h[h[v].items[1]].tag \notin Internal
    /\ h[v].tag = "call" => h[h[v].items[1]].tag = "array"

HeapShape(h, k) ==
    /\ \A v \in DOMAIN h: WellMade(h, v)
    /\ h[k].tag \notin Internal

\* The names of the methods run are a prefix of the multicall's, and the reply
\* tells all the outcomes.
Progress(c) ==
    c.shape.kind = "multi" =>
       /\ Len(c.ran) <= Len(c.shape.elems)
       /\ \A k \in DOMAIN c.ran:
             c.ran[k].name = c.shape.elems[k] /\ c.ran[k].name # "system.multicall"
       /\ c.reply.kind = "result" =>
             /\ c.pc = "over"
             /\ Len(c.ran) = Len(c.shape.elems)
             /\ c.reply.items = [k \in DOMAIN c.ran |-> c.ran[k].outcome]

\* What a thread's variables are where it is ...
Control(c) ==
    /\ c.pc \in {"idle", "over"} =>
          /\ c.params = Null /\ c.list = Null /\ c.results = Null
          /\ c.result = Null /\ c.args = Null
    /\ c.list = Null <=> c.results = Null
    /\ c.pc \in {"loop", "end"} =>
          c.list # Null /\ c.args = Null /\ c.result = Null /\ (c.fault <=> c.pc = "end")
    /\ c.pc = "dispatch" =>
          /\ c.args # Null /\ c.result = Null /\ ~c.fault
          /\ c.list = Null => c.args = c.params
          /\ (c.list = Null /\ c.shape.kind = "multi") =>
                c.name = "system.multicall" /\ c.ran = <<>>
    /\ c.pc = "returned" =>
          (c.fault <=> c.result = Null) /\ (c.list # Null => c.args # Null)
    /\ c.list # Null =>
          /\ c.shape.kind = "multi"
          /\ c.pc \in {"dispatch", "returned"} =>
                /\ c.i \in 1..Len(c.shape.elems) /\ c.name = c.shape.elems[c.i]
                /\ c.name # "system.multicall"
          /\ c.pc # "end" => c.i = Len(c.ran) + 1

\* ... and what the values are that they refer to.
OwnResults(t, h, v) == v \in {t} \X (1..MaxValues) /\ h[v].tag = "results"

Holding(t, c, h) ==
    /\ c.pc = "dispatch" => h[c.args].tag = "array"
    /\ (c.pc = "dispatch" /\ c.list = Null) =>
          LET l == h[c.args].items[1]
          IN h[l].tag = "list" =>
                c.shape.kind = "multi" /\ Len(h[l].items) = Len(c.shape.elems)
    /\ (c.pc = "returned" /\ ~c.fault /\ (c.list # Null \/ c.shape.kind # "multi")) =>
          h[c.result].tag \notin Internal
    /\ c.list # Null =>
          /\ h[c.list].tag = "list" /\ Len(h[c.list].items) = Len(c.shape.elems)
          /\ OwnResults(t, h, c.results)
          /\ c.pc # "end" => Recorded(h, c.results, c.ran)
    /\ (c.pc = "returned" /\ c.list = Null /\ ~c.fault /\ c.shape.kind = "multi") =>
          /\ Len(c.ran) = Len(c.shape.elems)
          /\ OwnResults(t, h, c.result) /\ Recorded(h, c.result, c.ran)

Balanced(c, d, h, k, l) == \A v \in Values: Held(Ledger(c, d, h, k, l), v, RefsOf(h, v))

\* The values that a value refers to are alive.
Closed(h) == \A v \in DOMAIN h: \A j \in DOMAIN h[v].items: h[v].items[j] \in DOMAIN h

\* A thread's variables refer to values of S.
Refers(c, S) == \A x \in Variable: VarAt(c, x) # Null => VarAt(c, x) \in S

\* A value with a reference is counted, and so it is alive.
LEMMA HeldIsAlive ==
    ASSUME NEW c, NEW d, NEW h, NEW k, NEW l, Balanced(c, d, h, k, l),
           NEW s \in Slot, NEW v \in Values, Ledger(c, d, h, k, l)[s] = v
    PROVE  v \in DOMAIN h
<1> DEFINE M == Ledger(c, d, h, k, l)
<1>1. Held(M, v, RefsOf(h, v))
  BY DEF Balanced
<1>2. s \in Holders(M, v)
  BY DEF Holders
<1> HIDE DEF M
<1>3. IsFiniteSet(Holders(M, v)) /\ Cardinality(Holders(M, v)) # 0
  BY <1>1, <1>2, FS_EmptySet DEF Held
<1>4. RefsOf(h, v) # 0
  BY <1>1, <1>3 DEF Held
<1> QED BY <1>4 DEF RefsOf

\* In balance, everything that has a reference is alive.
LEMMA Alive ==
    ASSUME NEW c \in [Threads -> CallType], NEW d \in [Threads -> Seq(Values)], NEW h, HeapType(h),
           NEW k, NEW l \in Seq(Values), Balanced(c, d, h, k, l)
    PROVE  /\ Closed(h)
           /\ \A t \in Threads: Refers(c[t], DOMAIN h)
           /\ \A t \in Threads: \A j \in DOMAIN d[t]: d[t][j] \in DOMAIN h
           /\ k \in Values => k \in DOMAIN h
           /\ \A j \in DOMAIN l: l[j] \in DOMAIN h
<1> DEFINE M == Ledger(c, d, h, k, l)
<1>0. ASSUME NEW s \in Slot, M[s] \in Values PROVE M[s] \in DOMAIN h
  BY <1>0, HeldIsAlive
<1>1. ASSUME NEW v \in DOMAIN h, NEW j \in DOMAIN h[v].items
      PROVE  h[v].items[j] \in DOMAIN h
  <2>1. v \in Values /\ h[v].items \in Seq(Values)
    BY DEF HeapType, ValueType
  <2>2. j \in Nat /\ h[v].items[j] \in Values
    BY <2>1
  <2>3. ItemAt(h, v, j) = h[v].items[j]
    BY DEF ItemAt, At
  <2>4. <<"item", v, j>> \in Slot /\ M[<<"item", v, j>>] = ItemAt(h, v, j)
    BY ONLY <2>1, <2>2, LedgerAt
  <2> HIDE DEF M
  <2> QED BY <1>0, <2>2, <2>3, <2>4
<1>2. ASSUME NEW t \in Threads, NEW x \in Variable, VarAt(c[t], x) # Null
      PROVE  VarAt(c[t], x) \in DOMAIN h
  <2>1. c[t] \in CallType
    OBVIOUS
  <2>2. VarAt(c[t], x) \in Values
    BY <1>2, <2>1 DEF Variable, VarAt, OwnArgs, CallType
  <2>3. <<x, t, 0>> \in Slot /\ M[<<x, t, 0>>] = VarAt(c[t], x)
    BY ONLY t \in Threads, x \in Variable, LedgerAt
  <2> HIDE DEF M
  <2> QED BY <1>0, <2>2, <2>3
<1>3. ASSUME NEW t \in Threads, NEW j \in DOMAIN d[t]
      PROVE  d[t][j] \in DOMAIN h
  <2>1. d[t] \in Seq(Values)
    OBVIOUS
  <2>2. j \in Nat /\ d[t][j] \in Values
    BY <2>1
  <2>3. <<"drop", t, j>> \in Slot /\ M[<<"drop", t, j>>] = At(d[t], j)
    BY ONLY t \in Threads, <2>2, LedgerAt
  <2> HIDE DEF M
  <2> QED BY <1>0, <2>2, <2>3 DEF At
<1>4. ASSUME k \in Values PROVE k \in DOMAIN h
  <2>1. <<"kept", Null, 0>> \in Slot /\ M[<<"kept", Null, 0>>] = k
    BY LedgerAt
  <2> HIDE DEF M
  <2> QED BY <1>0, <1>4, <2>1
<1>5. ASSUME NEW j \in DOMAIN l PROVE l[j] \in DOMAIN h
  <2>2. j \in Nat /\ l[j] \in Values
    OBVIOUS
  <2>3. <<"lost", Null, j>> \in Slot /\ M[<<"lost", Null, j>>] = At(l, j)
    BY ONLY <2>2, LedgerAt
  <2> HIDE DEF M
  <2> QED BY <1>0, <2>2, <2>3 DEF At
<1> QED BY <1>1, <1>2, <1>3, <1>4, <1>5 DEF Closed, Refers

\* What a value's record of the calls says does not change under other steps.
LEMMA RecordedStable ==
    ASSUME NEW h, NEW h2, HeapType(h), HeapType(h2), Closed(h), Closed(h2),
           \A v \in DOMAIN h: WellMade(h, v),
           NEW r, Stable(h, h2, r), r \in DOMAIN h => h[r].tag = "results",
           NEW v \in DOMAIN h, v \in DOMAIN h2, v # r,
           NEW ran \in Seq([name : Names, outcome : Tags]), Recorded(h, v, ran)
    PROVE  Recorded(h2, v, ran)
<1>1. h2[v].items = h[v].items
  BY DEF Stable
<1>2. h[v].items \in Seq(Values) /\ Len(h[v].items) = Len(ran)
  BY DEF HeapType, ValueType, Recorded
<1>3. ASSUME NEW j \in DOMAIN ran
      PROVE  LET w == h2[v].items[j]
             IN IF ran[j].outcome = "fault" THEN h2[w].tag = "fault"
                ELSE h2[w].tag = "array" /\ h2[h2[w].items[1]].tag = ran[j].outcome
  <2> DEFINE w == h[v].items[j]
  <2>1. j \in DOMAIN h[v].items /\ j \in DOMAIN h2[v].items
    BY <1>1, <1>2
  <2>2. w \in DOMAIN h /\ w \in DOMAIN h2
    BY <1>1, <2>1 DEF Closed
  <2>3. IF ran[j].outcome = "fault" THEN h[w].tag = "fault"
        ELSE h[w].tag = "array" /\ h[h[w].items[1]].tag = ran[j].outcome
    BY DEF Recorded
  <2> HIDE DEF w
  <2>4. h2[w].tag = h[w].tag
    BY <2>2 DEF Stable
  <2>5. CASE ran[j].outcome = "fault"
    BY <1>1, <2>3, <2>4, <2>5 DEF w
  <2>6. CASE ran[j].outcome # "fault"
    <3>1. h[w].tag = "array" /\ h[h[w].items[1]].tag = ran[j].outcome
      BY <2>3, <2>6
    <3>2. h2[w].items = h[w].items
      BY <2>2, <3>1 DEF Stable
    <3>3. Len(h[w].items) = 1 /\ h[w].items \in Seq(Values)
      BY <2>2, <3>1 DEF WellMade, HeapType, ValueType
    <3>4. 1 \in DOMAIN h[w].items
      BY <3>3
    <3>5. h[w].items[1] \in DOMAIN h /\ h[w].items[1] \in DOMAIN h2
      BY <2>2, <3>2, <3>4 DEF Closed
    <3>6. h2[h[w].items[1]].tag = h[h[w].items[1]].tag
      BY <3>5 DEF Stable
    <3> QED BY <1>1, <2>4, <2>6, <3>1, <3>2, <3>6 DEF w
  <2> QED BY <2>5, <2>6
<1> QED BY <1>1, <1>2, <1>3 DEF Recorded

\* A live value stays well made under other steps.
LEMMA WellMadeStable ==
    ASSUME NEW h, NEW h2, HeapType(h), HeapType(h2), Closed(h), Closed(h2),
           NEW r, Stable(h, h2, r), r \in DOMAIN h => h[r].tag = "results",
           NEW v \in DOMAIN h, v \in DOMAIN h2, WellMade(h, v)
    PROVE  WellMade(h2, v)
<1>1. h2[v].tag = h[v].tag
  BY DEF Stable
<1>2. CASE h[v].tag \notin {"array", "call"}
  BY <1>1, <1>2 DEF WellMade
<1>3. CASE h[v].tag \in {"array", "call"}
  <2>1. h2[v].items = h[v].items
    BY <1>3 DEF Stable
  <2>2. Len(h[v].items) = 1 /\ h[v].items \in Seq(Values)
    BY <1>3 DEF WellMade, HeapType, ValueType
  <2>3. 1 \in DOMAIN h[v].items
    BY <2>2
  <2>4. h[v].items[1] \in DOMAIN h /\ h[v].items[1] \in DOMAIN h2
    BY <2>1, <2>3 DEF Closed
  <2>5. h2[h[v].items[1]].tag = h[h[v].items[1]].tag
    BY <2>4 DEF Stable
  <2> QED BY <1>1, <2>1, <2>2, <2>5 DEF WellMade
<1> QED BY <1>2, <1>3

\* The parameters of the method that runs are alive.
LEMMA ArgsAlive ==
    ASSUME NEW c \in CallType, Control(c), NEW S, Refers(c, S), Null \notin S,
           c.pc = "dispatch" \/ (c.pc = "returned" /\ c.list # Null)
    PROVE  c.args \in S
<1>1. VarAt(c, "params") = c.params /\ VarAt(c, "args") = OwnArgs(c)
  BY DEF VarAt
<1>2. /\ c.params # Null => c.params \in S
      /\ OwnArgs(c) # Null => OwnArgs(c) \in S
  BY <1>1 DEF Refers, Variable
<1>3. c.args # Null /\ (c.list = Null => c.args = c.params)
  BY DEF Control
<1> QED BY <1>2, <1>3 DEF OwnArgs

\* The values that a thread's variables refer to are alive.
LEMMA VarsAlive ==
    ASSUME NEW c, NEW S, Refers(c, S)
    PROVE  /\ c.list # Null => c.list \in S
           /\ c.results # Null => c.results \in S
           /\ c.result # Null => c.result \in S
           /\ c.params # Null => c.params \in S
           /\ OwnArgs(c) # Null => OwnArgs(c) \in S
<1>1. /\ VarAt(c, "list") = c.list /\ VarAt(c, "results") = c.results
      /\ VarAt(c, "result") = c.result /\ VarAt(c, "params") = c.params
      /\ VarAt(c, "args") = OwnArgs(c)
  BY DEF VarAt
<1> QED BY <1>1 DEF Refers, Variable

\* What a thread's variables refer to stays what it is under other steps.
LEMMA HoldingStable ==
    ASSUME NEW h, NEW h2, HeapType(h), HeapType(h2), Closed(h), Closed(h2),
           \A v \in DOMAIN h: WellMade(h, v),
           NEW r, Stable(h, h2, r), r \in DOMAIN h => h[r].tag = "results",
           NEW u \in Threads, r \notin {u} \X (1..MaxValues),
           NEW c \in CallType, Control(c), Refers(c, DOMAIN h), Refers(c, DOMAIN h2),
           Holding(u, c, h)
    PROVE  Holding(u, c, h2)
<1>0. Null \notin DOMAIN h /\ Null \notin DOMAIN h2
  BY ValuesAssumption DEF HeapType
<1>1. ASSUME c.pc = "dispatch"
      PROVE  /\ h2[c.args].tag = "array" /\ h2[c.args].items = h[c.args].items
             /\ h[c.args].items[1] \in DOMAIN h /\ h[c.args].items[1] \in DOMAIN h2
  <2>1. c.args \in DOMAIN h /\ c.args \in DOMAIN h2
    BY <1>0, <1>1, ArgsAlive
  <2>2. h[c.args].tag = "array"
    BY <1>1 DEF Holding
  <2>3. h2[c.args].tag = "array" /\ h2[c.args].items = h[c.args].items
    BY <2>1, <2>2 DEF Stable
  <2>4. Len(h[c.args].items) = 1 /\ h[c.args].items \in Seq(Values)
    BY <2>1, <2>2 DEF WellMade, HeapType, ValueType
  <2>5. 1 \in DOMAIN h[c.args].items
    BY <2>4
  <2> QED BY <2>1, <2>3, <2>5 DEF Closed
<1>2. ASSUME c.pc = "dispatch" /\ c.list = Null
      PROVE  LET l == h2[c.args].items[1]
             IN h2[l].tag = "list" =>
                   c.shape.kind = "multi" /\ Len(h2[l].items) = Len(c.shape.elems)
  <2> DEFINE l == h[c.args].items[1]
  <2>1. h[l].tag = "list" => c.shape.kind = "multi" /\ Len(h[l].items) = Len(c.shape.elems)
    BY <1>2 DEF Holding
  <2>2. l \in DOMAIN h /\ l \in DOMAIN h2 /\ l = h2[c.args].items[1]
    BY <1>1, <1>2
  <2> HIDE DEF l
  <2>3. h2[l].tag = h[l].tag /\ (h[l].tag = "list" => h2[l].items = h[l].items)
    BY <2>2 DEF Stable
  <2> QED BY <2>1, <2>2, <2>3
<1>3. ASSUME c.pc = "returned", ~c.fault, c.list # Null \/ c.shape.kind # "multi"
      PROVE  h2[c.result].tag \notin Internal
  <2>1. c.result # Null
    BY <1>3 DEF Control
  <2>2. c.result \in DOMAIN h /\ c.result \in DOMAIN h2
    BY <2>1, VarsAlive
  <2> QED BY <1>3, <2>2 DEF Stable, Holding
<1>4. ASSUME c.list # Null
      PROVE  /\ h2[c.list].tag = "list" /\ Len(h2[c.list].items) = Len(c.shape.elems)
             /\ OwnResults(u, h2, c.results)
             /\ c.pc # "end" => Recorded(h2, c.results, c.ran)
  <2>1. /\ c.list \in DOMAIN h /\ c.list \in DOMAIN h2
        /\ c.results \in DOMAIN h /\ c.results \in DOMAIN h2
    <3>1. c.results # Null
      BY <1>4 DEF Control
    <3> QED BY <1>4, <3>1, VarsAlive
  <2>2. /\ h[c.list].tag = "list" /\ Len(h[c.list].items) = Len(c.shape.elems)
        /\ OwnResults(u, h, c.results)
        /\ c.pc # "end" => Recorded(h, c.results, c.ran)
    BY <1>4 DEF Holding
  <2>3. h2[c.list].tag = h[c.list].tag /\ h2[c.list].items = h[c.list].items
    BY <2>1, <2>2 DEF Stable
  <2>4. OwnResults(u, h2, c.results) /\ c.results # r
    BY <2>1, <2>2 DEF OwnResults, Stable
  <2>5. c.ran \in Seq([name : Names, outcome : Tags])
    BY DEF CallType
  <2>6. c.pc # "end" => Recorded(h2, c.results, c.ran)
    BY <2>1, <2>2, <2>4, <2>5, RecordedStable
  <2> QED BY <2>2, <2>3, <2>4, <2>6
<1>5. ASSUME c.pc = "returned" /\ c.list = Null /\ ~c.fault /\ c.shape.kind = "multi"
      PROVE  /\ Len(c.ran) = Len(c.shape.elems)
             /\ OwnResults(u, h2, c.result) /\ Recorded(h2, c.result, c.ran)
  <2>1. c.result # Null
    BY <1>5 DEF Control
  <2>2. c.result \in DOMAIN h /\ c.result \in DOMAIN h2
    BY <2>1, VarsAlive
  <2>3. /\ Len(c.ran) = Len(c.shape.elems)
        /\ OwnResults(u, h, c.result) /\ Recorded(h, c.result, c.ran)
    BY <1>5 DEF Holding
  <2>4. OwnResults(u, h2, c.result) /\ c.result # r
    BY <2>2, <2>3 DEF OwnResults, Stable
  <2>5. c.ran \in Seq([name : Names, outcome : Tags])
    BY DEF CallType
  <2>6. Recorded(h2, c.result, c.ran)
    BY <2>2, <2>3, <2>4, <2>5, RecordedStable
  <2> QED BY <2>3, <2>4, <2>6
<1> QED BY <1>1, <1>2, <1>3, <1>4, <1>5 DEF Holding

\* The inductive invariant.
IInv ==
    /\ Typed
    /\ SystemMethods \subseteq methods
    /\ Balanced(call, drops, heap, kept, lost)
    /\ HeapShape(heap, kept)
    /\ \A t \in Threads: Progress(call[t]) /\ Control(call[t]) /\ Holding(t, call[t], heap)

\* What the invariant says of the heap, the calls and the references to give back.
LEMMA InvFacts ==
    ASSUME IInv
    PROVE  /\ HeapType(heap) /\ Closed(heap) /\ kept \in Values /\ kept \in DOMAIN heap
           /\ Null \notin DOMAIN heap
           /\ call \in [Threads -> CallType] /\ drops \in [Threads -> Seq(Values)]
           /\ lost \in Seq(Values)
           /\ \A t \in Threads: Refers(call[t], DOMAIN heap)
           /\ \A v \in DOMAIN heap: WellMade(heap, v)
           /\ heap[kept].tag \notin Internal
           /\ \A t \in Threads: \A j \in DOMAIN drops[t]: drops[t][j] \in DOMAIN heap
<1>1. /\ HeapType(heap) /\ call \in [Threads -> CallType] /\ drops \in [Threads -> Seq(Values)]
      /\ lost \in Seq(Values) /\ kept \in DOMAIN heap
  BY DEF IInv, Typed, HeapType
<1>2. kept \in Values /\ Null \notin DOMAIN heap
  BY <1>1, ValuesAssumption DEF HeapType
<1>3. Balanced(call, drops, heap, kept, lost) /\ HeapShape(heap, kept)
  BY DEF IInv
<1>4. /\ Closed(heap) /\ \A t \in Threads: Refers(call[t], DOMAIN heap)
      /\ \A t \in Threads: \A j \in DOMAIN drops[t]: drops[t][j] \in DOMAIN heap
  BY <1>1, <1>3, Alive
<1> QED BY <1>1, <1>2, <1>3, <1>4 DEF HeapShape

\* A step of one thread keeps the invariant if it keeps the types and the
\* balance, changes no item but of the thread's own results, makes new values
\* well, and leaves the thread in order.
LEMMA ThreadStep ==
    ASSUME IInv, Typed', UNCHANGED methods, NEW t \in Threads, NEW r,
           \A u \in Threads: u # t => call'[u] = call[u],
           Balanced(call', drops', heap', kept', lost'),
           Stable(heap, heap', r),
           r \in DOMAIN heap => r \in {t} \X (1..MaxValues) /\ heap[r].tag = "results",
           \A v \in DOMAIN heap' \ DOMAIN heap: WellMade(heap', v),
           heap'[kept'].tag \notin Internal,
           Progress(call'[t]), Control(call'[t]), Holding(t, call'[t], heap')
    PROVE  IInv'
<1>1. /\ HeapType(heap') /\ call' \in [Threads -> CallType] /\ drops' \in [Threads -> Seq(Values)]
      /\ lost' \in Seq(Values)
  BY DEF Typed, HeapType
<1>2. Closed(heap') /\ \A u \in Threads: Refers(call'[u], DOMAIN heap')
  BY <1>1, Alive
<1>3. HeapShape(heap', kept')
  <2>1. ASSUME NEW v \in DOMAIN heap' PROVE WellMade(heap', v)
    <3>1. CASE v \in DOMAIN heap
      BY <1>1, <1>2, <3>1, InvFacts, WellMadeStable
    <3>2. CASE v \notin DOMAIN heap
      BY <3>2
    <3> QED BY <3>1, <3>2
  <2> QED BY <2>1 DEF HeapShape
<1>4. ASSUME NEW u \in Threads
      PROVE  Progress(call'[u]) /\ Control(call'[u]) /\ Holding(u, call'[u], heap')
  <2>1. CASE u = t
    BY <2>1
  <2>2. CASE u # t
    <3>1. /\ call'[u] = call[u] /\ call[u] \in CallType
          /\ Progress(call[u]) /\ Control(call[u]) /\ Holding(u, call[u], heap)
      BY <2>2, InvFacts DEF IInv
    <3>2. /\ Refers(call[u], DOMAIN heap) /\ Refers(call[u], DOMAIN heap')
      BY <1>2, <3>1, InvFacts
    <3>3. Holding(u, call[u], heap')
      <4>1. CASE r \in DOMAIN heap
        <5>1. r \notin {u} \X (1..MaxValues)
          BY <2>2, <4>1
        <5> QED BY <1>1, <1>2, <3>1, <3>2, <4>1, <5>1, InvFacts, HoldingStable
      <4>2. CASE r \notin DOMAIN heap
        <5>1. Stable(heap, heap', Null)
          BY <4>2 DEF Stable
        <5>2. Null \notin {u} \X (1..MaxValues) /\ Null \notin DOMAIN heap
          BY ValuesAssumption, InvFacts DEF Values
        <5> QED BY <1>1, <1>2, <3>1, <3>2, <5>1, <5>2, InvFacts, HoldingStable
      <4> QED BY <4>1, <4>2
    <3> QED BY <3>1, <3>3
  <2> QED BY <2>1, <2>2
<1>5. (SystemMethods \subseteq methods)'
  BY DEF IInv
<1> QED BY <1>3, <1>4, <1>5 DEF IInv

-----------------------------------------------------------------------------
\* What every step of a thread has in common

\* The counts of a heap are numbers.
LEMMA RefsInt == ASSUME NEW h, HeapType(h) PROVE \A v: RefsOf(h, v) \in Int
BY DEF RefsOf, HeapType, ValueType

\* The number of a thread's own references is a number.
LEMMA OwnedInt == \A c, v: Owned(c, v) \in Int
BY OneInt DEF Owned

\* The types after a step that leaves the registry's setup alone.
LEMMA TypeStep ==
    ASSUME Typed, UNCHANGED setup, HeapType(heap'), kept' \in DOMAIN heap',
           call' \in [Threads -> CallType], drops' \in [Threads -> Seq(Values)],
           lost' \in Seq(Values), begun' \in 0..MaxCalls, failures' \in 0..MaxFailures
    PROVE  Typed' /\ UNCHANGED methods
BY DEF Typed, HeapType, setup

\* The thread's own variables refer to the same under a step that changes no items.
LEMMA OwnHolding ==
    ASSUME IInv, NEW t \in Threads, HeapType(heap'), Closed(heap'), Stable(heap, heap', Null),
           Refers(call[t], DOMAIN heap')
    PROVE  Holding(t, call[t], heap')
<1>1. Null \notin {t} \X (1..MaxValues) /\ Null \notin DOMAIN heap
  BY ValuesAssumption, InvFacts DEF Values
<1>2. call[t] \in CallType /\ Control(call[t]) /\ Holding(t, call[t], heap)
  BY InvFacts DEF IInv
<1> QED BY <1>1, <1>2, InvFacts, HoldingStable

\* A method returns a value.
LEMMA ReturnedCall ==
    ASSUME NEW c \in CallType, c.pc = "dispatch", Progress(c), Control(c), NEW x \in Values,
           c.shape.kind = "multi" => c.list # Null
    PROVE  LET c2 == [c EXCEPT !.pc = "returned", !.result = x]
           IN /\ c2 \in CallType /\ Progress(c2) /\ Control(c2)
              /\ \A v \in Values: Owned(c2, v) = Owned(c, v) + One(x, v)
              /\ \A t, h: Holding(t, c, h) /\ h[x].tag \notin Internal => Holding(t, c2, h)
<1> DEFINE c2 == [c EXCEPT !.pc = "returned", !.result = x]
<1>1. /\ c2 \in CallType /\ c2.pc = "returned" /\ c2.result = x
      /\ c2.shape = c.shape /\ c2.i = c.i /\ c2.name = c.name /\ c2.args = c.args
      /\ c2.params = c.params /\ c2.list = c.list /\ c2.results = c.results
      /\ c2.fault = c.fault /\ c2.ran = c.ran /\ c2.reply = c.reply
  BY DEF CallType
<1>2. x # Null
  BY ValuesAssumption
<1>3. c.result = Null /\ ~c.fault
  BY DEF Control
<1> HIDE DEF c2
<1>4. Progress(c2)
  BY <1>1 DEF Progress
<1>5. Control(c2)
  BY <1>1, <1>2, <1>3 DEF Control
<1>6. ASSUME NEW t, NEW h, Holding(t, c, h), h[x].tag \notin Internal
      PROVE  Holding(t, c2, h)
  BY <1>1, <1>6 DEF Holding
<1>7. ASSUME NEW v \in Values PROVE Owned(c2, v) = Owned(c, v) + One(x, v)
  <2>1. OwnArgs(c2) = OwnArgs(c)
    BY <1>1 DEF OwnArgs
  <2>2. One(Null, v) = 0
    BY ValuesAssumption DEF One
  <2> QED BY <1>1, <1>3, <2>1, <2>2, OneInt DEF Owned
<1> QED BY <1>1, <1>4, <1>5, <1>6, <1>7 DEF c2

\* A method ends with a fault.
LEMMA FaultedCall ==
    ASSUME NEW c \in CallType, c.pc = "dispatch", Progress(c), Control(c)
    PROVE  LET c2 == [c EXCEPT !.pc = "returned", !.fault = TRUE, !.result = Null]
           IN /\ c2 \in CallType /\ Progress(c2) /\ Control(c2)
              /\ \A v \in Values: Owned(c2, v) = Owned(c, v)
              /\ \A t, h: Holding(t, c, h) => Holding(t, c2, h)
<1> DEFINE c2 == [c EXCEPT !.pc = "returned", !.fault = TRUE, !.result = Null]
<1>1. /\ c2 \in CallType /\ c2.pc = "returned" /\ c2.result = Null
      /\ c2.shape = c.shape /\ c2.i = c.i /\ c2.name = c.name /\ c2.args = c.args
      /\ c2.params = c.params /\ c2.list = c.list /\ c2.results = c.results
      /\ c2.fault = TRUE /\ c2.ran = c.ran /\ c2.reply = c.reply
  BY DEF CallType
<1>2. c.result = Null
  BY DEF Control
<1> HIDE DEF c2
<1>3. Progress(c2)
  BY <1>1 DEF Progress
<1>4. Control(c2)
  BY <1>1, <1>2 DEF Control
<1>5. ASSUME NEW t, NEW h, Holding(t, c, h) PROVE Holding(t, c2, h)
  BY <1>1, <1>5 DEF Holding
<1>6. ASSUME NEW v \in Values PROVE Owned(c2, v) = Owned(c, v)
  <2>1. OwnArgs(c2) = OwnArgs(c)
    BY <1>1 DEF OwnArgs
  <2> QED BY <1>1, <1>2, <2>1 DEF Owned
<1> QED BY <1>1, <1>3, <1>4, <1>5, <1>6 DEF c2

\* What a thread's own step makes of the calls.
LEMMA GoFacts ==
    ASSUME IInv, NEW t \in Threads, NEW c2 \in CallType, Go(t, c2)
    PROVE  /\ call'[t] = c2 /\ call' \in [Threads -> CallType]
           /\ \A u \in Threads: u # t => call'[u] = call[u]
BY InvFacts DEF Go

\* What the invariant says of one thread and of the counts.
LEMMA ThreadFacts ==
    ASSUME IInv, NEW t \in Threads
    PROVE  /\ call[t] \in CallType /\ Progress(call[t]) /\ Control(call[t])
           /\ Holding(t, call[t], heap)
           /\ \A v \in Values: Held(Ledger(call, drops, heap, kept, lost), v, RefsOf(heap, v))
BY InvFacts DEF IInv, Balanced

\* A heap is stable against itself.
LEMMA StableSame == ASSUME NEW h PROVE Stable(h, h, Null)
BY DEF Stable

\* What follows from the balance after a step.
LEMMA NextFacts ==
    ASSUME HeapType(heap'), call' \in [Threads -> CallType],
           drops' \in [Threads -> Seq(Values)], lost' \in Seq(Values),
           Balanced(call', drops', heap', kept', lost')
    PROVE  Closed(heap') /\ \A u \in Threads: Refers(call'[u], DOMAIN heap')
BY Alive

\* Values of a set are values of a larger one.
LEMMA RefersMore ==
    ASSUME NEW c, NEW S, NEW S2, Refers(c, S), S \subseteq S2
    PROVE  Refers(c, S2)
BY DEF Refers

\* A step of a thread in which no value dies and no items change.
LEMMA GrowStep ==
    ASSUME IInv, NEW t \in Threads, NEW c2 \in CallType, Go(t, c2), UNCHANGED setup,
           HeapType(heap'), DOMAIN heap \subseteq DOMAIN heap', Stable(heap, heap', Null),
           kept' \in DOMAIN heap', heap'[kept'].tag \notin Internal,
           drops' \in [Threads -> Seq(Values)], lost' \in Seq(Values),
           begun' \in 0..MaxCalls, failures' \in 0..MaxFailures,
           \A v \in Values: Held(Ledger(call', drops', heap', kept', lost'), v, RefsOf(heap', v)),
           \A v \in DOMAIN heap' \ DOMAIN heap: WellMade(heap', v),
           Progress(c2), Control(c2),
           Closed(heap') /\ Holding(t, call[t], heap') => Holding(t, c2, heap')
    PROVE  IInv'
<1>1. /\ call'[t] = c2 /\ call' \in [Threads -> CallType]
      /\ \A u \in Threads: u # t => call'[u] = call[u]
  BY GoFacts
<1>2. Typed' /\ UNCHANGED methods
  BY <1>1, TypeStep DEF IInv
<1>3. Balanced(call', drops', heap', kept', lost')
  BY DEF Balanced
<1>4. Closed(heap')
  BY <1>1, <1>3, NextFacts
<1>5. Refers(call[t], DOMAIN heap')
  BY InvFacts, RefersMore
<1>6. Holding(t, call'[t], heap')
  BY <1>1, <1>4, <1>5, OwnHolding
<1>7. Null \notin DOMAIN heap
  BY InvFacts
<1> QED BY <1>1, <1>2, <1>3, <1>6, <1>7, ThreadStep

\* The balance before a step, as a number.
LEMMA CountBefore ==
    ASSUME IInv, NEW v \in Values
    PROVE  \E n \in Int: n = RefsOf(heap, v) /\ Held(Ledger(call, drops, heap, kept, lost), v, n)
<1>1. RefsOf(heap, v) \in Int
  BY RefsInt, InvFacts
<1>2. Held(Ledger(call, drops, heap, kept, lost), v, RefsOf(heap, v))
  BY DEF IInv, Balanced
<1> QED BY <1>1, <1>2

\* The bounds of the counters of calls and of failures.
LEMMA Bounds == ASSUME IInv PROVE begun \in 0..MaxCalls /\ failures \in 0..MaxFailures
BY DEF IInv, Typed

\* A fault that changes nothing but the thread's call.
LEMMA FaultKeeps ==
    ASSUME IInv, NEW t \in Threads, Ready(t, "dispatch"), Faults(t),
           UNCHANGED <<Shared, heap, drops, failures>>
    PROVE  IInv'
<1> DEFINE c == call[t]
           c2 == [c EXCEPT !.pc = "returned", !.fault = TRUE, !.result = Null]
<1>1. UNCHANGED <<setup, heap, drops, kept, lost, begun, failures>> /\ Go(t, c2)
  BY DEF Shared, Faults
<1>2. c.pc = "dispatch"
  BY DEF Ready
<1>3. c \in CallType /\ Progress(c) /\ Control(c)
  BY ThreadFacts
<1>4. /\ c2 \in CallType /\ Progress(c2) /\ Control(c2)
      /\ \A v \in Values: Owned(c2, v) = Owned(c, v)
      /\ \A u, h: Holding(u, c, h) => Holding(u, c2, h)
  <2> HIDE DEF c
  <2> QED BY <1>2, <1>3, FaultedCall
<1> HIDE DEF c2
<1>5. ASSUME NEW v \in Values
      PROVE  Held(Ledger(call', drops', heap', kept', lost'), v, RefsOf(heap', v))
  <2>1. PICK n \in Int: n = RefsOf(heap, v) /\ Held(Ledger(call, drops, heap, kept, lost), v, n)
    BY CountBefore
  <2>2. Held(Ledger(call', drops, heap, kept, lost), v, n - Owned(c, v) + Owned(c2, v))
    BY <1>1, <1>4, <2>1, GoFacts, CallChange
  <2>3. n - Owned(c, v) + Owned(c2, v) = n
    BY <1>4, <2>1, OwnedInt
  <2> QED BY <1>1, <2>1, <2>2, <2>3
<1>6. Stable(heap, heap', Null)
  BY <1>1, StableSame
<1> QED BY <1>1, <1>4, <1>5, <1>6, InvFacts, Bounds, GrowStep

-----------------------------------------------------------------------------
\* The methods

\* A method returns a value that it has made.
LEMMA ReturnsNewKeeps ==
    ASSUME IInv, NEW t \in Threads, Ready(t, "dispatch"), Room(t, 1),
           call[t].shape.kind = "multi" => call[t].list # Null,
           NEW tag \in Tags, tag \notin {"array", "call"} \cup Internal,
           heap' = Alloc(t, heap, <<>>, tag), Returns(t, Fresh(t)),
           UNCHANGED <<Shared, drops, failures>>
    PROVE  IInv'
<1> DEFINE c == call[t]
           f == Fresh(t)
           c2 == [c EXCEPT !.pc = "returned", !.result = f]
<1>1. UNCHANGED <<setup, drops, kept, lost, begun, failures>> /\ Go(t, c2)
  BY DEF Shared, Returns
<1>2. c.pc = "dispatch"
  BY DEF Ready
<1>3. c \in CallType /\ Progress(c) /\ Control(c)
  BY ThreadFacts
<1>4. f \in Values /\ f \notin DOMAIN heap
  BY FreshPlace
<1>5. /\ c2 \in CallType /\ Progress(c2) /\ Control(c2)
      /\ \A v \in Values: Owned(c2, v) = Owned(c, v) + One(f, v)
      /\ \A u, h: Holding(u, c, h) /\ h[f].tag \notin Internal => Holding(u, c2, h)
  <2>1. c.shape.kind = "multi" => c.list # Null
    OBVIOUS
  <2> HIDE DEF c, f
  <2> QED BY <1>2, <1>3, <1>4, <2>1, ReturnedCall
<1>6. /\ HeapType(heap') /\ DOMAIN heap' = DOMAIN heap \cup {f}
      /\ Stable(heap, heap', Null)
      /\ \A v \in DOMAIN heap: heap'[v] = heap[v]
      /\ heap'[f].tag = tag
      /\ \A w, m: w # f => ItemAt(heap', w, m) = ItemAt(heap, w, m)
      /\ \A m: ItemAt(heap', f, m) = At(<<>>, m) /\ ItemAt(heap, f, m) = Null
      /\ \A v: RefsOf(heap', v) = RefsOf(heap, v) + One(f, v)
  <2>1. <<>> \in Seq(Values)
    BY ONLY NoItems
  <2>2. Allocated(heap, heap', f, <<>>, tag)
    BY <1>4, <2>1, InvFacts, AllocCounts
  <2> HIDE DEF f
  <2> QED BY <2>2 DEF Allocated
<1> HIDE DEF c2, f
<1>7. ASSUME NEW v \in Values
      PROVE  Held(Ledger(call', drops', heap', kept', lost'), v, RefsOf(heap', v))
  <2>1. PICK n \in Int: n = RefsOf(heap, v) /\ Held(Ledger(call, drops, heap, kept, lost), v, n)
    BY CountBefore
  <2>0. call'[t] = c2 /\ \A u \in Threads: u # t => call'[u] = call[u]
    BY <1>1, <1>5, GoFacts
  <2>2. Held(Ledger(call', drops, heap, kept, lost), v, n - Owned(c, v) + Owned(c2, v))
    BY <2>0, <2>1, CallChange
  <2>3. n - Owned(c, v) + Owned(c2, v) = RefsOf(heap', v)
    BY <1>5, <1>6, <2>1, OwnedInt, OneInt
  <2>4. \A w, m: ItemAt(heap', w, m) = ItemAt(heap, w, m)
    <3>1. \A m: At(<<>>, m) = Null
      BY DEF At
    <3> QED BY <1>6, <3>1
  <2>5. Held(Ledger(call', drops, heap', kept, lost), v, RefsOf(heap', v))
    BY <2>2, <2>3, <2>4, ItemsSame
  <2> QED BY <1>1, <2>5
<1>8. kept' \in DOMAIN heap' /\ heap'[kept'].tag \notin Internal
  BY <1>1, <1>6, InvFacts
<1>9. \A v \in DOMAIN heap' \ DOMAIN heap: WellMade(heap', v)
  BY <1>6 DEF WellMade
<1>10. Holding(t, c, heap') => Holding(t, c2, heap')
  BY <1>5, <1>6
<1> QED BY <1>1, <1>5, <1>6, <1>7, <1>8, <1>9, <1>10, InvFacts, Bounds, GrowStep

\* A method hands out the value that it keeps.
LEMMA CallGetKeeps ==
    ASSUME IInv, NEW t \in Threads, CallGet(t)
    PROVE  IInv'
<1> DEFINE c == call[t]
           c2 == [c EXCEPT !.pc = "returned", !.result = kept]
<1>1. /\ UNCHANGED <<setup, drops, kept, lost, begun, failures>> /\ Go(t, c2)
      /\ heap' = Incref(heap, kept)
  BY DEF CallGet, Shared, Returns
<1>2. c.pc = "dispatch" /\ c.name = "get"
  BY DEF CallGet, Ready
<1>3. c \in CallType /\ Progress(c) /\ Control(c)
  BY ThreadFacts
<1>4. /\ c2 \in CallType /\ Progress(c2) /\ Control(c2)
      /\ \A v \in Values: Owned(c2, v) = Owned(c, v) + One(kept, v)
      /\ \A u, h: Holding(u, c, h) /\ h[kept].tag \notin Internal => Holding(u, c2, h)
  <2>1. c.shape.kind = "multi" => c.list # Null
    BY <1>2, <1>3 DEF Control
  <2> HIDE DEF c
  <2> QED BY <1>2, <1>3, <2>1, InvFacts, ReturnedCall
<1>5. /\ HeapType(heap') /\ DOMAIN heap' = DOMAIN heap
      /\ Stable(heap, heap', Null)
      /\ \A v \in DOMAIN heap: heap'[v].tag = heap[v].tag
      /\ \A w, m: ItemAt(heap', w, m) = ItemAt(heap, w, m)
      /\ \A v: RefsOf(heap', v) = RefsOf(heap, v) + One(kept, v)
  <2>1. Increfed(heap, heap', kept)
    BY <1>1, InvFacts, IncrefCounts
  <2> QED BY <2>1 DEF Increfed
<1> HIDE DEF c2
<1>6. ASSUME NEW v \in Values
      PROVE  Held(Ledger(call', drops', heap', kept', lost'), v, RefsOf(heap', v))
  <2>1. PICK n \in Int: n = RefsOf(heap, v) /\ Held(Ledger(call, drops, heap, kept, lost), v, n)
    BY CountBefore
  <2>2. Held(Ledger(call', drops, heap, kept, lost), v, n - Owned(c, v) + Owned(c2, v))
    BY <1>1, <1>4, <2>1, GoFacts, CallChange
  <2>3. n - Owned(c, v) + Owned(c2, v) = RefsOf(heap', v)
    BY <1>4, <1>5, <2>1, OwnedInt, OneInt
  <2>4. Held(Ledger(call', drops, heap', kept, lost), v, RefsOf(heap', v))
    BY <1>5, <2>2, <2>3, ItemsSame
  <2> QED BY <1>1, <2>4
<1>7. kept' \in DOMAIN heap' /\ heap'[kept'].tag \notin Internal /\ heap'[kept].tag \notin Internal
  BY <1>1, <1>5, InvFacts
<1>8. \A v \in DOMAIN heap' \ DOMAIN heap: WellMade(heap', v)
  BY <1>5
<1>9. Holding(t, c, heap') => Holding(t, c2, heap')
  BY <1>4, <1>7
<1> QED BY <1>1, <1>4, <1>5, <1>6, <1>7, <1>8, <1>9, InvFacts, Bounds, GrowStep

\* The default method makes a value of its own or fails (xmlrpc_dispatchCall()).
LEMMA CallDefaultKeeps ==
    ASSUME IInv, NEW t \in Threads, CallDefault(t)
    PROVE  IInv'
<1>1. /\ Ready(t, "dispatch") /\ call[t].name \notin methods
      /\ UNCHANGED <<Shared, drops, failures>>
  BY DEF CallDefault
<1>2. call[t].shape.kind = "multi" => call[t].list # Null
  <2>1. "system.multicall" \in methods
    BY DEF IInv, SystemMethods
  <2>2. call[t].pc = "dispatch" /\ Control(call[t])
    BY <1>1, ThreadFacts DEF Ready
  <2> QED BY <1>1, <2>1, <2>2 DEF Control
<1>3. CASE Room(t, 1) /\ heap' = Alloc(t, heap, <<>>, "default") /\ Returns(t, Fresh(t))
  <2>1. "default" \in Tags
    BY DEF Tags
  <2>2. "default" \notin {"array", "call"} \cup Internal
    BY DEF Internal
  <2> QED BY <1>1, <1>2, <1>3, <2>1, <2>2, ReturnsNewKeeps
<1>4. CASE Faults(t) /\ UNCHANGED heap
  BY <1>1, <1>4, FaultKeeps
<1> QED BY <1>3, <1>4 DEF CallDefault

\* system.shutdown returns zero, or a fault (system_shutdown()).
LEMMA CallShutdownKeeps ==
    ASSUME IInv, NEW t \in Threads, CallShutdown(t)
    PROVE  IInv'
<1>1. /\ Ready(t, "dispatch") /\ call[t].name = "system.shutdown"
      /\ UNCHANGED <<Shared, drops, failures>>
  BY DEF CallShutdown
<1>2. call[t].shape.kind = "multi" => call[t].list # Null
  <2>2. call[t].pc = "dispatch" /\ Control(call[t])
    BY <1>1, ThreadFacts DEF Ready
  <2> QED BY <1>1, <2>2 DEF Control
<1>3. CASE Room(t, 1) /\ heap' = Alloc(t, heap, <<>>, "zero") /\ Returns(t, Fresh(t))
  <2>1. "zero" \in Tags
    BY DEF Tags
  <2>2. "zero" \notin {"array", "call"} \cup Internal
    BY DEF Internal
  <2> QED BY <1>1, <1>2, <1>3, <2>1, <2>2, ReturnsNewKeeps
<1>4. CASE Faults(t) /\ UNCHANGED heap
  BY <1>1, <1>4, FaultKeeps
<1> QED BY <1>3, <1>4 DEF CallShutdown

\* A call that is refused, is of no method, or fails makes a fault (xmlrpc_dispatchCall()).
LEMMA RefusalsKeep ==
    ASSUME IInv, NEW t \in Threads, PreinvokeRefuses(t) \/ NoSuchMethod(t) \/ CallFails(t)
    PROVE  IInv'
BY FaultKeeps DEF PreinvokeRefuses, NoSuchMethod, CallFails

\* The parameters of the method that runs: an array, with the first of them.
LEMMA ArgsFacts ==
    ASSUME IInv, NEW t \in Threads, call[t].pc = "dispatch"
    PROVE  /\ call[t].args \in DOMAIN heap
           /\ heap[call[t].args].items[1] \in DOMAIN heap
           /\ heap[heap[call[t].args].items[1]].tag \notin Internal
<1> DEFINE c == call[t]
<1>1. c \in CallType /\ Control(c) /\ Holding(t, c, heap) /\ Refers(c, DOMAIN heap)
  BY ThreadFacts, InvFacts
<1>2. c.args \in DOMAIN heap
  BY <1>1, InvFacts, ArgsAlive
<1>3. heap[c.args].tag = "array"
  BY <1>1 DEF Holding
<1>4. /\ Len(heap[c.args].items) = 1 /\ heap[c.args].items \in Seq(Values)
      /\ heap[heap[c.args].items[1]].tag \notin Internal
  BY <1>2, <1>3, InvFacts DEF WellMade, HeapType, ValueType
<1>5. 1 \in DOMAIN heap[c.args].items
  BY <1>4
<1>6. heap[c.args].items[1] \in DOMAIN heap
  BY <1>2, <1>5, InvFacts DEF Closed
<1> QED BY <1>2, <1>4, <1>6

\* A method keeps the caller's parameter in place of what it kept.
LEMMA CallPutKeeps ==
    ASSUME IInv, NEW t \in Threads, CallPut(t)
    PROVE  IInv'
<1> DEFINE c == call[t]
           f == Fresh(t)
           new == heap[c.args].items[1]
           h1 == Incref(heap, new)
           c2 == [c EXCEPT !.pc = "returned", !.result = f]
<1>1. /\ UNCHANGED <<setup, lost, begun, failures>> /\ Go(t, c2)
      /\ heap' = Alloc(t, h1, <<>>, "done") /\ kept' = new
      /\ drops' = [drops EXCEPT ![t] = <<kept>>]
  BY DEF CallPut, Returns
<1>2. c.pc = "dispatch" /\ c.name = "put" /\ drops[t] = <<>> /\ Room(t, 1)
  BY DEF CallPut, Ready
<1>3. c \in CallType /\ Progress(c) /\ Control(c)
  BY ThreadFacts
<1>4. f \in Values /\ f \notin DOMAIN heap
  BY <1>2, FreshPlace
<1>5. new \in DOMAIN heap /\ heap[new].tag \notin Internal
  BY <1>2, ArgsFacts
<1> HIDE DEF new
<1>6. /\ c2 \in CallType /\ Progress(c2) /\ Control(c2)
      /\ \A v \in Values: Owned(c2, v) = Owned(c, v) + One(f, v)
      /\ \A u, h: Holding(u, c, h) /\ h[f].tag \notin Internal => Holding(u, c2, h)
  <2>1. c.shape.kind = "multi" => c.list # Null
    BY <1>2, <1>3 DEF Control
  <2> HIDE DEF c, f
  <2> QED BY <1>2, <1>3, <1>4, <2>1, ReturnedCall
<1>7. /\ HeapType(h1) /\ DOMAIN h1 = DOMAIN heap
      /\ Stable(heap, h1, Null)
      /\ \A v \in DOMAIN heap: h1[v].tag = heap[v].tag /\ h1[v].items = heap[v].items
      /\ \A w, m: ItemAt(h1, w, m) = ItemAt(heap, w, m)
      /\ \A v: RefsOf(h1, v) = RefsOf(heap, v) + One(new, v)
  <2>1. Increfed(heap, h1, new)
    BY <1>5, InvFacts, IncrefCounts
  <2> HIDE DEF h1
  <2> QED BY <2>1 DEF Increfed
<1> HIDE DEF h1
<1>8. Allocated(h1, heap', f, <<>>, "done")
  <2>1. <<>> \in Seq(Values)
    BY ONLY NoItems
  <2>2. "done" \in Tags
    BY DEF Tags
  <2> QED BY <1>1, <1>4, <1>7, <2>1, <2>2, AllocCounts
<1> HIDE DEF c2, f
<1>9. /\ HeapType(heap') /\ DOMAIN heap' = DOMAIN heap \cup {f}
      /\ \A v \in DOMAIN heap: heap'[v].tag = heap[v].tag /\ heap'[v].items = heap[v].items
      /\ heap'[f].tag = "done"
      /\ \A w, m: ItemAt(heap', w, m) = ItemAt(heap, w, m)
      /\ \A v: RefsOf(heap', v) = RefsOf(heap, v) + One(new, v) + One(f, v)
  <2>1. /\ HeapType(heap') /\ DOMAIN heap' = DOMAIN h1 \cup {f}
        /\ \A v \in DOMAIN h1: heap'[v] = h1[v]
        /\ heap'[f].tag = "done"
        /\ \A w, m: w # f => ItemAt(heap', w, m) = ItemAt(h1, w, m)
        /\ \A m: ItemAt(heap', f, m) = At(<<>>, m) /\ ItemAt(h1, f, m) = Null
        /\ \A v: RefsOf(heap', v) = RefsOf(h1, v) + One(f, v)
    BY <1>8 DEF Allocated
  <2>2. \A m: At(<<>>, m) = Null
    BY DEF At
  <2> QED BY <1>7, <2>1, <2>2
<1>10. Stable(heap, heap', Null)
  BY <1>9 DEF Stable
<1>11. ASSUME NEW v \in Values
       PROVE  Held(Ledger(call', drops', heap', kept', lost'), v, RefsOf(heap', v))
  <2>1. PICK n \in Int: n = RefsOf(heap, v) /\ Held(Ledger(call, drops, heap, kept, lost), v, n)
    BY CountBefore
  <2>2. call'[t] = c2 /\ \A u \in Threads: u # t => call'[u] = call[u]
    BY <1>1, <1>6, GoFacts
  <2>3. Held(Ledger(call', drops, heap, kept, lost), v, n - Owned(c, v) + Owned(c2, v))
    BY <2>1, <2>2, CallChange
  <2>4. PICK m \in Int: m = n + One(f, v) /\ m = n - Owned(c, v) + Owned(c2, v)
    BY <1>6, <2>1, OwnedInt, OneInt
  <2>5. Held(Ledger(call', drops, heap', kept, lost), v, m)
    BY <1>9, <2>3, <2>4, ItemsSame
  <2>6. Held(Ledger(call', drops, heap', new, lost), v, m - One(kept, v) + One(new, v))
    BY <2>4, <2>5, KeptChange
  <2>7. PICK j \in Int: j = m - One(kept, v) + One(new, v)
    BY <2>4, OneInt
  <2>8. Held(Ledger(call', drops, heap', new, lost), v, j)
    BY <2>6, <2>7
  <2>9. Held(Ledger(call', drops', heap', new, lost), v, j + One(kept, v))
    BY <1>1, <1>2, <2>7, <2>8, InvFacts, DropsSet
  <2>10. j + One(kept, v) = RefsOf(heap', v)
    BY <1>9, <2>1, <2>4, <2>7, OneInt
  <2> QED BY <1>1, <2>9, <2>10
<1>12. kept' \in DOMAIN heap' /\ heap'[kept'].tag \notin Internal
  BY <1>1, <1>5, <1>9
<1>13. \A v \in DOMAIN heap' \ DOMAIN heap: WellMade(heap', v)
  BY <1>9 DEF WellMade
<1>14. Holding(t, c, heap') => Holding(t, c2, heap')
  BY <1>6, <1>9 DEF Internal
<1>15. drops' \in [Threads -> Seq(Values)]
  BY <1>1, InvFacts
<1> QED
  BY <1>1, <1>6, <1>9, <1>10, <1>11, <1>12, <1>13, <1>14, <1>15, InvFacts, Bounds, GrowStep

-----------------------------------------------------------------------------
\* A multicall begins

\* A multicall whose array of results cannot be made: its list is never given back.
LEMMA MulticallLosesKeeps ==
    ASSUME IInv, NEW t \in Threads, Ready(t, "dispatch"), failures < MaxFailures,
           NEW list \in DOMAIN heap, heap' = Incref(heap, list), lost' = Append(lost, list),
           Faults(t), failures' = failures + 1, UNCHANGED <<setup, kept, begun, drops>>
    PROVE  IInv'
<1> DEFINE c == call[t]
           c2 == [c EXCEPT !.pc = "returned", !.fault = TRUE, !.result = Null]
<1>1. Go(t, c2) /\ c.pc = "dispatch"
  BY DEF Faults, Ready
<1>2. c \in CallType /\ Progress(c) /\ Control(c)
  BY ThreadFacts
<1>3. /\ c2 \in CallType /\ Progress(c2) /\ Control(c2)
      /\ \A v \in Values: Owned(c2, v) = Owned(c, v)
      /\ \A u, h: Holding(u, c, h) => Holding(u, c2, h)
  <2> HIDE DEF c
  <2> QED BY <1>1, <1>2, FaultedCall
<1> HIDE DEF c2
<1>4. /\ HeapType(heap') /\ DOMAIN heap' = DOMAIN heap
      /\ Stable(heap, heap', Null)
      /\ \A v \in DOMAIN heap: heap'[v].tag = heap[v].tag
      /\ \A w, m: ItemAt(heap', w, m) = ItemAt(heap, w, m)
      /\ \A v: RefsOf(heap', v) = RefsOf(heap, v) + One(list, v)
  <2>1. Increfed(heap, heap', list)
    BY InvFacts, IncrefCounts
  <2> QED BY <2>1 DEF Increfed
<1>5. list \in Values
  BY InvFacts DEF HeapType
<1>6. ASSUME NEW v \in Values
      PROVE  Held(Ledger(call', drops', heap', kept', lost'), v, RefsOf(heap', v))
  <2>1. PICK n \in Int: n = RefsOf(heap, v) /\ Held(Ledger(call, drops, heap, kept, lost), v, n)
    BY CountBefore
  <2>2. call'[t] = c2 /\ \A u \in Threads: u # t => call'[u] = call[u]
    BY <1>1, <1>3, GoFacts
  <2>3. Held(Ledger(call', drops, heap, kept, lost), v, n - Owned(c, v) + Owned(c2, v))
    BY <2>1, <2>2, CallChange
  <2>4. n - Owned(c, v) + Owned(c2, v) = n
    BY <1>3, <2>1, OwnedInt
  <2>5. Held(Ledger(call', drops, heap', kept, lost), v, n)
    BY <1>4, <2>3, <2>4, ItemsSame
  <2>6. Held(Ledger(call', drops, heap', kept, lost'), v, n + One(list, v))
    BY <1>5, <2>1, <2>5, InvFacts, LostAppended
  <2>7. n + One(list, v) = RefsOf(heap', v)
    BY <1>4, <2>1
  <2> QED BY <2>6, <2>7
<1>7. kept' \in DOMAIN heap' /\ heap'[kept'].tag \notin Internal
  BY <1>4, InvFacts
<1>8. lost' \in Seq(Values)
  BY <1>5, InvFacts
<1>9. failures' \in 0..MaxFailures /\ begun' \in 0..MaxCalls
  BY Bounds, BoundsAssumption
<1> QED BY <1>1, <1>3, <1>4, <1>6, <1>7, <1>8, <1>9, InvFacts, GrowStep

\* A multicall begins.
LEMMA MulticallBeginsKeeps ==
    ASSUME IInv, NEW t \in Threads, Ready(t, "dispatch"), call[t].name = "system.multicall",
           Room(t, 1), heap[heap[call[t].args].items[1]].tag = "list",
           heap' = Incref(Alloc(t, heap, <<>>, "results"), heap[call[t].args].items[1]),
           Go(t, [call[t] EXCEPT !.pc = "loop", !.i = 1, !.args = Null,
                                 !.list = heap[call[t].args].items[1], !.results = Fresh(t)]),
           UNCHANGED <<setup, kept, begun, drops, lost, failures>>
    PROVE  IInv'
<1> DEFINE c == call[t]
           f == Fresh(t)
           list == heap[c.args].items[1]
           h1 == Alloc(t, heap, <<>>, "results")
           c2 == [c EXCEPT !.pc = "loop", !.i = 1, !.args = Null, !.list = list, !.results = f]
<1>1. Go(t, c2) /\ c.pc = "dispatch" /\ heap' = Incref(h1, list) /\ heap[list].tag = "list"
  BY DEF Ready
<1>2. c \in CallType /\ Progress(c) /\ Control(c) /\ Holding(t, c, heap)
  BY ThreadFacts
<1>3. f \in Values /\ f \notin DOMAIN heap /\ f \in {t} \X (1..MaxValues)
  BY FreshPlace
<1>4. list \in DOMAIN heap
  BY <1>1, ArgsFacts
<1>5. list \in Values /\ list # Null /\ f # Null
  BY <1>3, <1>4, InvFacts, ValuesAssumption DEF HeapType
<1>6. /\ c.list = Null /\ c.results = Null /\ c.result = Null /\ ~c.fault
      /\ c.shape.kind = "multi" /\ Len(heap[list].items) = Len(c.shape.elems)
      /\ c.ran = <<>>
  <2>1. c.list = Null
    BY <1>1, <1>2 DEF Control
  <2>2. c.shape.kind = "multi" /\ Len(heap[list].items) = Len(c.shape.elems)
    BY <1>1, <1>2, <2>1 DEF Holding
  <2> HIDE DEF list
  <2>3. c.results = Null /\ c.result = Null /\ ~c.fault /\ c.ran = <<>>
    BY <1>1, <1>2, <2>1, <2>2 DEF Control
  <2> QED BY <2>1, <2>2, <2>3
<1> HIDE DEF list, f
<1>7. /\ c2 \in CallType /\ c2.pc = "loop" /\ c2.i = 1 /\ c2.args = Null /\ c2.list = list
      /\ c2.results = f /\ c2.shape = c.shape /\ c2.params = c.params /\ c2.result = c.result
      /\ c2.fault = c.fault /\ c2.ran = c.ran /\ c2.reply = c.reply
  <2> HIDE DEF c
  <2> QED BY <1>2, <1>3, <1>5 DEF CallType
<1> HIDE DEF c2
<1>8. Progress(c2)
  BY ONLY <1>1, <1>2, <1>6, <1>7 DEF Progress
<1>9. Control(c2)
  BY ONLY <1>5, <1>6, <1>7 DEF Control
<1>10. ASSUME NEW v \in Values PROVE Owned(c2, v) = Owned(c, v) + One(list, v) + One(f, v)
  <2>1. OwnArgs(c2) = Null /\ OwnArgs(c) = Null
    BY <1>6, <1>7 DEF OwnArgs
  <2>2. One(Null, v) = 0
    BY ValuesAssumption DEF One
  <2> QED BY ONLY <1>6, <1>7, <2>1, <2>2, OneInt DEF Owned
<1>11. Allocated(heap, h1, f, <<>>, "results")
  <2>1. <<>> \in Seq(Values)
    BY ONLY NoItems
  <2>2. "results" \in Tags
    BY DEF Tags
  <2> QED BY <1>3, <2>1, <2>2, InvFacts, AllocCounts DEF f
<1> HIDE DEF h1
<1>12. /\ HeapType(h1) /\ DOMAIN h1 = DOMAIN heap \cup {f}
       /\ \A v \in DOMAIN heap: h1[v] = heap[v]
       /\ h1[f].tag = "results" /\ h1[f].items = <<>>
       /\ \A w, m: ItemAt(h1, w, m) = ItemAt(heap, w, m)
       /\ \A v: RefsOf(h1, v) = RefsOf(heap, v) + One(f, v)
  <2>1. /\ HeapType(h1) /\ DOMAIN h1 = DOMAIN heap \cup {f}
        /\ \A v \in DOMAIN heap: h1[v] = heap[v]
        /\ h1[f].tag = "results" /\ h1[f].items = <<>>
        /\ \A w, m: w # f => ItemAt(h1, w, m) = ItemAt(heap, w, m)
        /\ \A m: ItemAt(h1, f, m) = At(<<>>, m) /\ ItemAt(heap, f, m) = Null
        /\ \A v: RefsOf(h1, v) = RefsOf(heap, v) + One(f, v)
    BY <1>11 DEF Allocated
  <2>2. \A m: At(<<>>, m) = Null
    <3>1. DOMAIN <<>> = {}
      OBVIOUS
    <3> QED BY ONLY <3>1 DEF At
  <2> QED BY ONLY <2>1, <2>2
<1>13. /\ HeapType(heap') /\ DOMAIN heap' = DOMAIN h1
       /\ \A v \in DOMAIN h1: heap'[v].tag = h1[v].tag /\ heap'[v].items = h1[v].items
       /\ \A w, m: ItemAt(heap', w, m) = ItemAt(h1, w, m)
       /\ \A v: RefsOf(heap', v) = RefsOf(h1, v) + One(list, v)
  <2>1. list \in DOMAIN h1
    BY <1>4, <1>12
  <2>2. Increfed(h1, heap', list)
    BY <1>1, <1>12, <2>1, IncrefCounts
  <2> QED BY ONLY <2>2 DEF Increfed
<1>14. /\ DOMAIN heap' = DOMAIN heap \cup {f}
       /\ \A v \in DOMAIN heap: heap'[v].tag = heap[v].tag /\ heap'[v].items = heap[v].items
       /\ heap'[f].tag = "results" /\ heap'[f].items = <<>>
       /\ \A w, m: ItemAt(heap', w, m) = ItemAt(heap, w, m)
       /\ \A v: RefsOf(heap', v) = RefsOf(heap, v) + One(f, v) + One(list, v)
  <2>1. DOMAIN heap' = DOMAIN heap \cup {f}
    BY <1>12, <1>13
  <2>2. \A v \in DOMAIN heap: heap'[v].tag = heap[v].tag /\ heap'[v].items = heap[v].items
    BY <1>12, <1>13
  <2>3. heap'[f].tag = "results" /\ heap'[f].items = <<>>
    BY <1>12, <1>13
  <2>4. \A w, m: ItemAt(heap', w, m) = ItemAt(heap, w, m)
    BY ONLY <1>12, <1>13
  <2>5. \A v: RefsOf(heap', v) = RefsOf(heap, v) + One(f, v) + One(list, v)
    BY <1>12, <1>13
  <2> QED BY <2>1, <2>2, <2>3, <2>4, <2>5
<1>15. Stable(heap, heap', Null)
  BY <1>14 DEF Stable
<1>16. ASSUME NEW v \in Values
       PROVE  Held(Ledger(call', drops', heap', kept', lost'), v, RefsOf(heap', v))
  <2>1. PICK n \in Int: n = RefsOf(heap, v) /\ Held(Ledger(call, drops, heap, kept, lost), v, n)
    BY CountBefore
  <2>2. call'[t] = c2 /\ \A u \in Threads: u # t => call'[u] = call[u]
    BY <1>1, <1>7, GoFacts
  <2>3. Held(Ledger(call', drops, heap, kept, lost), v, n - Owned(c, v) + Owned(c2, v))
    BY <2>1, <2>2, CallChange
  <2>4. n - Owned(c, v) + Owned(c2, v) = RefsOf(heap', v)
    <3>1. Owned(c2, v) = Owned(c, v) + One(list, v) + One(f, v)
      BY <1>10
    <3>2. RefsOf(heap', v) = RefsOf(heap, v) + One(f, v) + One(list, v)
      BY <1>14
    <3> QED BY ONLY <3>1, <3>2, <2>1, OwnedInt, OneInt
  <2>5. Held(Ledger(call', drops, heap', kept, lost), v, RefsOf(heap', v))
    <3>1. \A w, m: ItemAt(heap', w, m) = ItemAt(heap, w, m)
      BY <1>14
    <3> QED BY ONLY <2>3, <2>4, <3>1, ItemsSame
  <2> QED BY <2>5
<1>17. kept' \in DOMAIN heap' /\ heap'[kept'].tag \notin Internal
  BY <1>14, InvFacts
<1>18. \A v \in DOMAIN heap' \ DOMAIN heap: WellMade(heap', v)
  BY <1>14 DEF WellMade
<1>19. Holding(t, c2, heap')
  <2>1. heap'[list].tag = "list" /\ Len(heap'[list].items) = Len(c.shape.elems)
    BY <1>1, <1>4, <1>6, <1>14
  <2>2. OwnResults(t, heap', f)
    BY <1>3, <1>14 DEF OwnResults
  <2>3. Recorded(heap', f, <<>>)
    <3>1. Len(<<>>) = 0 /\ DOMAIN <<>> = {}
      BY ONLY NoItems
    <3>2. heap'[f].items = <<>>
      BY <1>14
    <3> QED BY <3>1, <3>2 DEF Recorded
  <2> QED BY <1>5, <1>6, <1>7, <2>1, <2>2, <2>3 DEF Holding
<1> QED
  BY <1>1, <1>7, <1>8, <1>9, <1>13, <1>14, <1>15, <1>16, <1>17, <1>18, <1>19, InvFacts, Bounds,
     GrowStep

\* A multicall begins, or ends at once with a fault (system_multicall()).
LEMMA CallMulticallKeeps ==
    ASSUME IInv, NEW t \in Threads, CallMulticall(t)
    PROVE  IInv'
<1> DEFINE list == heap[call[t].args].items[1]
<1>1. /\ Ready(t, "dispatch") /\ call[t].name = "system.multicall"
      /\ UNCHANGED <<setup, kept, begun, drops>>
  BY DEF CallMulticall
<1>2. list \in DOMAIN heap
  BY <1>1, ArgsFacts DEF Ready
<1>3. CASE Faults(t) /\ UNCHANGED <<heap, lost, failures>>
  BY <1>1, <1>3, FaultKeeps DEF Shared
<1>4. CASE /\ failures < MaxFailures /\ failures' = failures + 1 /\ heap' = Incref(heap, list)
           /\ lost' = Append(lost, list) /\ Faults(t)
  BY <1>1, <1>2, <1>4, MulticallLosesKeeps
<1>5. CASE /\ heap[list].tag = "list" /\ Room(t, 1)
           /\ heap' = Incref(Alloc(t, heap, <<>>, "results"), list)
           /\ Go(t, [call[t] EXCEPT !.pc = "loop", !.i = 1, !.args = Null, !.list = list,
                                    !.results = Fresh(t)])
           /\ UNCHANGED <<lost, failures>>
  BY <1>1, <1>5, MulticallBeginsKeeps
<1> QED BY <1>3, <1>4, <1>5 DEF CallMulticall

-----------------------------------------------------------------------------
\* The elements of a multicall

\* An element of a multicall, while there is one.
LEMMA ElementFacts ==
    ASSUME IInv, NEW t \in Threads, call[t].pc = "loop", InList(t)
    PROVE  /\ call[t].i \in 1..Len(call[t].shape.elems)
           /\ heap[call[t].list].items[call[t].i] \in DOMAIN heap
<1> DEFINE c == call[t]
<1>1. c \in CallType /\ Control(c) /\ Holding(t, c, heap) /\ Refers(c, DOMAIN heap)
  BY ThreadFacts, InvFacts
<1>2. c.list # Null
  BY <1>1 DEF Control
<1>3. c.list \in DOMAIN heap
  BY <1>1, <1>2, VarsAlive
<1>4. Len(heap[c.list].items) = Len(c.shape.elems)
  BY <1>1, <1>2 DEF Holding
<1>5. heap[c.list].items \in Seq(Values)
  BY <1>3, InvFacts DEF HeapType, ValueType
<1>6. c.i \in DOMAIN heap[c.list].items
  BY DEF InList
<1>7. heap[c.list].items[c.i] \in DOMAIN heap
  BY <1>3, <1>6, InvFacts DEF Closed
<1> QED BY <1>4, <1>5, <1>6, <1>7

\* A bad element ends the loop of a multicall (callOneMethod()).
LEMMA BadElementKeeps ==
    ASSUME IInv, NEW t \in Threads, BadElement(t)
    PROVE  IInv'
<1> DEFINE c == call[t]
           c2 == [c EXCEPT !.pc = "end", !.fault = TRUE]
<1>1. UNCHANGED <<setup, heap, drops, kept, lost, begun, failures>> /\ Go(t, c2) /\ c.pc = "loop"
  BY DEF BadElement, Shared, Ready
<1>2. c \in CallType /\ Progress(c) /\ Control(c)
  BY ThreadFacts
<1>3. /\ c2 \in CallType /\ c2.pc = "end" /\ c2.i = c.i /\ c2.args = c.args /\ c2.list = c.list
      /\ c2.results = c.results /\ c2.shape = c.shape /\ c2.params = c.params
      /\ c2.result = c.result /\ c2.fault = TRUE /\ c2.ran = c.ran /\ c2.reply = c.reply
  <2> HIDE DEF c
  <2> QED BY <1>2 DEF CallType
<1> HIDE DEF c2
<1>4. Progress(c2)
  BY <1>1, <1>2, <1>3 DEF Progress
<1>5. Control(c2)
  BY <1>1, <1>2, <1>3 DEF Control
<1>6. ASSUME NEW v \in Values PROVE Owned(c2, v) = Owned(c, v)
  <2>1. OwnArgs(c2) = OwnArgs(c)
    BY <1>3 DEF OwnArgs
  <2> QED BY <1>3, <2>1 DEF Owned
<1>7. ASSUME NEW v \in Values
      PROVE  Held(Ledger(call', drops', heap', kept', lost'), v, RefsOf(heap', v))
  <2>1. PICK n \in Int: n = RefsOf(heap, v) /\ Held(Ledger(call, drops, heap, kept, lost), v, n)
    BY CountBefore
  <2>2. call'[t] = c2 /\ \A u \in Threads: u # t => call'[u] = call[u]
    BY <1>1, <1>3, GoFacts
  <2>3. Held(Ledger(call', drops, heap, kept, lost), v, n - Owned(c, v) + Owned(c2, v))
    BY <2>1, <2>2, CallChange
  <2>4. n - Owned(c, v) + Owned(c2, v) = n
    BY <1>6, <2>1, OwnedInt
  <2> QED BY <1>1, <2>1, <2>3, <2>4
<1>8. Stable(heap, heap', Null)
  BY <1>1, StableSame
<1>9. Holding(t, c, heap') => Holding(t, c2, heap')
  BY <1>1, <1>2, <1>3 DEF Holding, Control
<1> QED BY <1>1, <1>3, <1>4, <1>5, <1>7, <1>8, <1>9, InvFacts, Bounds, GrowStep

\* An element is dispatched with a reference to its parameters (callOneMethod()).
LEMMA DispatchElementKeeps ==
    ASSUME IInv, NEW t \in Threads, DispatchElement(t)
    PROVE  IInv'
<1> DEFINE c == call[t]
           elem == heap[c.list].items[c.i]
           args == heap[elem].items[1]
           name == c.shape.elems[c.i]
           c2 == [c EXCEPT !.pc = "dispatch", !.name = name, !.args = args]
<1>1. /\ UNCHANGED <<setup, drops, kept, lost, begun, failures>> /\ Go(t, c2) /\ c.pc = "loop"
      /\ heap[elem].tag = "call" /\ name # "system.multicall" /\ heap' = Incref(heap, args)
      /\ InList(t)
  BY DEF DispatchElement, Shared, Ready, Forbidden
<1>2. c \in CallType /\ Progress(c) /\ Control(c)
  BY ThreadFacts
<1>3. c.i \in 1..Len(c.shape.elems) /\ elem \in DOMAIN heap
  BY <1>1, ElementFacts
<1> HIDE DEF elem
<1>4. args \in DOMAIN heap /\ heap[args].tag = "array"
  <2>1. /\ Len(heap[elem].items) = 1 /\ heap[elem].items \in Seq(Values)
        /\ heap[heap[elem].items[1]].tag = "array"
    BY <1>1, <1>3, InvFacts DEF WellMade, HeapType, ValueType
  <2>2. 1 \in DOMAIN heap[elem].items
    BY <2>1
  <2>3. heap[elem].items[1] \in DOMAIN heap
    BY <1>3, <2>2, InvFacts DEF Closed
  <2> QED BY <2>1, <2>3
<1>5. args \in Values /\ args # Null
  BY <1>4, InvFacts, ValuesAssumption DEF HeapType
<1>6. name \in Names
  <2>1. c.shape.elems \in Seq(Names)
    BY <1>2 DEF CallType, Shape
  <2> QED BY <1>3, <2>1
<1> HIDE DEF args
<1>7. /\ c2 \in CallType /\ c2.pc = "dispatch" /\ c2.name = name /\ c2.i = c.i /\ c2.args = args
      /\ c2.list = c.list /\ c2.results = c.results /\ c2.shape = c.shape
      /\ c2.params = c.params /\ c2.result = c.result /\ c2.fault = c.fault /\ c2.ran = c.ran
      /\ c2.reply = c.reply
  <2> HIDE DEF c, name
  <2> QED BY <1>2, <1>5, <1>6 DEF CallType
<1>8. c.list # Null /\ c.args = Null /\ c.result = Null /\ ~c.fault
  BY <1>1, <1>2 DEF Control
<1> HIDE DEF c2
<1>9. Progress(c2)
  BY <1>1, <1>2, <1>7 DEF Progress
<1>10. Control(c2)
  BY <1>1, <1>2, <1>3, <1>5, <1>7, <1>8 DEF Control
<1>11. ASSUME NEW v \in Values PROVE Owned(c2, v) = Owned(c, v) + One(args, v)
  <2>1. OwnArgs(c2) = args /\ OwnArgs(c) = Null
    BY <1>7, <1>8 DEF OwnArgs
  <2>2. One(Null, v) = 0
    BY ValuesAssumption DEF One
  <2> QED BY <1>7, <2>1, <2>2, OneInt DEF Owned
<1>12. /\ HeapType(heap') /\ DOMAIN heap' = DOMAIN heap
       /\ Stable(heap, heap', Null)
       /\ \A v \in DOMAIN heap: heap'[v].tag = heap[v].tag
       /\ \A w, m: ItemAt(heap', w, m) = ItemAt(heap, w, m)
       /\ \A v: RefsOf(heap', v) = RefsOf(heap, v) + One(args, v)
  <2>1. Increfed(heap, heap', args)
    BY <1>1, <1>4, InvFacts, IncrefCounts
  <2> QED BY <2>1 DEF Increfed
<1>13. ASSUME NEW v \in Values
       PROVE  Held(Ledger(call', drops', heap', kept', lost'), v, RefsOf(heap', v))
  <2>1. PICK n \in Int: n = RefsOf(heap, v) /\ Held(Ledger(call, drops, heap, kept, lost), v, n)
    BY CountBefore
  <2>2. call'[t] = c2 /\ \A u \in Threads: u # t => call'[u] = call[u]
    BY <1>1, <1>7, GoFacts
  <2>3. Held(Ledger(call', drops, heap, kept, lost), v, n - Owned(c, v) + Owned(c2, v))
    BY <2>1, <2>2, CallChange
  <2>4. n - Owned(c, v) + Owned(c2, v) = RefsOf(heap', v)
    BY <1>11, <1>12, <2>1, OwnedInt, OneInt
  <2>5. Held(Ledger(call', drops, heap', kept, lost), v, RefsOf(heap', v))
    BY <1>12, <2>3, <2>4, ItemsSame
  <2> QED BY <1>1, <2>5
<1>14. kept' \in DOMAIN heap' /\ heap'[kept'].tag \notin Internal
  BY <1>1, <1>12, InvFacts
<1>15. heap'[args].tag = "array"
  BY <1>4, <1>12
<1>16. Holding(t, c, heap') => Holding(t, c2, heap')
  BY <1>1, <1>7, <1>8, <1>15 DEF Holding
<1> QED
  BY <1>1, <1>7, <1>9, <1>10, <1>12, <1>13, <1>14, <1>16, InvFacts, Bounds, GrowStep

\* A thread without a call has variables of the right types.
LEMMA NoCallType == NoCall \in CallType
<1>1. <<>> \in Seq(Names) /\ <<>> \in Seq(Tags) /\ <<>> \in Seq([name : Names, outcome : Tags])
  OBVIOUS
<1> QED BY <1>1 DEF NoCall, NoReply, CallType, Shape

\* A thread is done with its call.
LEMMA FinishKeeps ==
    ASSUME IInv, NEW t \in Threads, Finish(t)
    PROVE  IInv'
<1> DEFINE c == call[t]
<1>1. /\ UNCHANGED <<setup, heap, drops, kept, lost, begun, failures>> /\ Go(t, NoCall)
      /\ c.pc = "over"
  BY DEF Finish, Shared, Ready
<1>2. c \in CallType /\ Control(c)
  BY ThreadFacts
<1>3. /\ NoCall.pc = "idle" /\ NoCall.i = 0 /\ NoCall.args = Null /\ NoCall.list = Null
      /\ NoCall.results = Null /\ NoCall.shape.kind = "bad" /\ NoCall.params = Null
      /\ NoCall.result = Null
  BY DEF NoCall
<1>4. NoCall \in CallType
  BY NoCallType
<1>5. Progress(NoCall)
  BY <1>3 DEF Progress
<1>6. Control(NoCall)
  BY <1>3 DEF Control
<1>7. ASSUME NEW v \in Values PROVE Owned(NoCall, v) = Owned(c, v)
  <2>1. OwnArgs(NoCall) = Null /\ OwnArgs(c) = Null
    BY <1>1, <1>2, <1>3 DEF OwnArgs, Control
  <2>2. c.params = Null /\ c.list = Null /\ c.results = Null /\ c.result = Null
    BY <1>1, <1>2 DEF Control
  <2> QED BY <1>3, <2>1, <2>2 DEF Owned
<1>8. ASSUME NEW v \in Values
      PROVE  Held(Ledger(call', drops', heap', kept', lost'), v, RefsOf(heap', v))
  <2>1. PICK n \in Int: n = RefsOf(heap, v) /\ Held(Ledger(call, drops, heap, kept, lost), v, n)
    BY CountBefore
  <2>2. call'[t] = NoCall /\ \A u \in Threads: u # t => call'[u] = call[u]
    BY <1>1, <1>4, GoFacts
  <2>3. Held(Ledger(call', drops, heap, kept, lost), v, n - Owned(c, v) + Owned(NoCall, v))
    BY <2>1, <2>2, CallChange
  <2>4. n - Owned(c, v) + Owned(NoCall, v) = n
    BY <1>7, <2>1, OwnedInt
  <2> QED BY <1>1, <2>1, <2>3, <2>4
<1>9. Stable(heap, heap', Null)
  BY <1>1, StableSame
<1>10. Holding(t, NoCall, heap')
  BY <1>3 DEF Holding
<1> QED BY <1>1, <1>4, <1>5, <1>6, <1>8, <1>9, <1>10, InvFacts, Bounds, GrowStep

-----------------------------------------------------------------------------
\* A multicall ends

\* The references to the values of two variables, to give back.
Both(a, b) == (IF a = Null THEN <<>> ELSE <<a>>) \o (IF b = Null THEN <<>> ELSE <<b>>)

\* The three forms of what two optional references make.
LEMMA BothCases ==
    ASSUME NEW a \in Values \cup {Null}, NEW b \in Values \cup {Null}
    PROVE  /\ Both(a, b) \in Seq(Values)
           /\ a = Null /\ b = Null => Both(a, b) = <<>>
           /\ a = Null /\ b # Null => Both(a, b) = <<b>>
           /\ a # Null /\ b = Null => Both(a, b) = <<a>>
           /\ a # Null /\ b # Null => Both(a, b) = <<a, b>>
<1>1. CASE a = Null /\ b = Null
  BY <1>1 DEF Both
<1>2. CASE a = Null /\ b # Null
  BY <1>2 DEF Both
<1>3. CASE a # Null /\ b = Null
  BY <1>3 DEF Both
<1>4. CASE a # Null /\ b # Null
  <2>0. Both(a, b) = <<a>> \o <<b>>
    BY <1>4 DEF Both
  <2>3. a \in Values /\ b \in Values
    BY <1>4
  <2>4. <<a>> \o <<b>> = <<a, b>>
    <3>1. <<a>> \in Seq(Values) /\ <<a, b>> = Append(<<a>>, b)
      BY ONLY <2>3
    <3> QED BY <2>3, <3>1, AppendIsConcat
  <2>1. Both(a, b) = <<a, b>>
    BY <2>0, <2>4
  <2>2. <<a, b>> \in Seq(Values)
    BY <1>4
  <2> QED BY <1>4, <2>1, <2>2
<1> QED BY <1>1, <1>2, <1>3, <1>4

\* Two references, each of which there may be, are the thread's to give back.
LEMMA BothDropped ==
    ASSUME NEW c, NEW d \in [Threads -> Seq(Values)], NEW h, NEW k, NEW l, NEW t \in Threads,
           d[t] = <<>>, NEW a \in Values \cup {Null}, NEW b \in Values \cup {Null},
           NEW v \in Values, NEW n \in Int, Held(Ledger(c, d, h, k, l), v, n)
    PROVE  Held(Ledger(c, [d EXCEPT ![t] = Both(a, b)], h, k, l), v, n + One(a, v) + One(b, v))
<1>0. One(Null, v) = 0 /\ One(a, v) \in Int /\ One(b, v) \in Int
  BY ValuesAssumption DEF One
<1>1. CASE a = Null /\ b = Null
  <2>1. [d EXCEPT ![t] = Both(a, b)] = d
    BY <1>1, BothCases
  <2>2. n + One(a, v) + One(b, v) = n
    BY <1>0, <1>1
  <2> QED BY <2>1, <2>2
<1>2. CASE a = Null /\ b # Null
  <2>1. Both(a, b) = <<b>> /\ b \in Values
    BY <1>2, BothCases
  <2>2. Held(Ledger(c, [d EXCEPT ![t] = <<b>>], h, k, l), v, n + One(b, v))
    BY <2>1, DropsSet
  <2>3. n + One(a, v) + One(b, v) = n + One(b, v)
    BY <1>0, <1>2
  <2> QED BY <2>1, <2>2, <2>3
<1>3. CASE a # Null /\ b = Null
  <2>1. Both(a, b) = <<a>> /\ a \in Values
    BY <1>3, BothCases
  <2>2. Held(Ledger(c, [d EXCEPT ![t] = <<a>>], h, k, l), v, n + One(a, v))
    BY <2>1, DropsSet
  <2>3. n + One(a, v) + One(b, v) = n + One(a, v)
    BY <1>0, <1>3
  <2> QED BY <2>1, <2>2, <2>3
<1>4. CASE a # Null /\ b # Null
  <2>1. Both(a, b) = <<a, b>> /\ a \in Values /\ b \in Values
    BY <1>4, BothCases
  <2>2. Held(Ledger(c, [d EXCEPT ![t] = <<a, b>>], h, k, l), v, n + One(a, v) + One(b, v))
    BY <2>1, DropsSet
  <2> QED BY <2>1, <2>2
<1> QED BY <1>1, <1>2, <1>3, <1>4

\* A multicall ends.
LEMMA EndMulticallKeeps ==
    ASSUME IInv, NEW t \in Threads, EndMulticall(t)
    PROVE  IInv'
<1> DEFINE c == call[t]
           a == IF c.fault THEN c.results ELSE Null
           x == IF c.fault THEN Null ELSE c.results
           c2 == [c EXCEPT !.pc = "returned", !.list = Null, !.results = Null, !.result = x]
<1>1. /\ UNCHANGED <<setup, heap, kept, lost, begun, failures>> /\ Go(t, c2)
      /\ drops' = [drops EXCEPT ![t] = NotReturned(c)] /\ drops[t] = <<>>
      /\ (c.pc = "loop" /\ ~InList(t)) \/ c.pc = "end"
  BY DEF EndMulticall, Shared, Ready
<1>2. c \in CallType /\ Progress(c) /\ Control(c) /\ Holding(t, c, heap)
  BY ThreadFacts
<1>3. /\ c.list # Null /\ c.results # Null /\ c.args = Null /\ c.result = Null
      /\ c.fault <=> c.pc = "end"
      /\ c.shape.kind = "multi"
  BY <1>1, <1>2 DEF Control
<1>4. /\ c.list \in Values /\ c.results \in Values
      /\ a \in Values \cup {Null} /\ x \in Values \cup {Null}
  BY <1>2, <1>3 DEF CallType
<1>5. NotReturned(c) = Both(a, c.list)
  BY <1>3 DEF NotReturned, Both
<1>6. drops' = [drops EXCEPT ![t] = Both(a, c.list)] /\ drops' \in [Threads -> Seq(Values)]
  <2>1. drops \in [Threads -> Seq(Values)] /\ t \in Threads
    BY InvFacts
  <2>2. drops' = [drops EXCEPT ![t] = Both(a, c.list)]
    BY ONLY <1>1, <1>5
  <2>3. Both(a, c.list) \in Seq(Values)
    BY ONLY <1>4, BothCases
  <2> QED BY ONLY <2>1, <2>2, <2>3
<1> HIDE DEF x
<1>7. /\ c2 \in CallType /\ c2.pc = "returned" /\ c2.i = c.i /\ c2.args = c.args /\ c2.list = Null
      /\ c2.results = Null /\ c2.shape = c.shape /\ c2.params = c.params
      /\ c2.result = x /\ c2.fault = c.fault /\ c2.ran = c.ran /\ c2.reply = c.reply
  <2> HIDE DEF c
  <2> QED BY <1>2, <1>4 DEF CallType
<1> HIDE DEF c2
<1>8. Progress(c2)
  BY <1>1, <1>2, <1>7 DEF Progress
<1>9. Control(c2)
  BY <1>3, <1>7 DEF Control, x
<1>10. ASSUME NEW v \in Values
       PROVE  Owned(c, v) = Owned(c2, v) + One(a, v) + One(c.list, v)
  <2>1. OwnArgs(c2) = Null /\ OwnArgs(c) = Null
    BY <1>3, <1>7 DEF OwnArgs
  <2>2. One(Null, v) = 0
    BY ValuesAssumption DEF One
  <2>3. One(c.results, v) = One(a, v) + One(x, v)
    BY <2>2, OneInt DEF x
  <2> QED BY <1>3, <1>7, <2>1, <2>2, <2>3, OneInt DEF Owned
<1>11. ASSUME NEW v \in Values
       PROVE  Held(Ledger(call', drops', heap', kept', lost'), v, RefsOf(heap', v))
  <2>1. PICK n \in Int: n = RefsOf(heap, v) /\ Held(Ledger(call, drops, heap, kept, lost), v, n)
    BY CountBefore
  <2>2. call'[t] = c2 /\ \A u \in Threads: u # t => call'[u] = call[u]
    BY <1>1, <1>7, GoFacts
  <2>3. Held(Ledger(call', drops, heap, kept, lost), v, n - Owned(c, v) + Owned(c2, v))
    BY <2>1, <2>2, CallChange
  <2>4. PICK m \in Int: m = n - Owned(c, v) + Owned(c2, v)
    BY <2>1, OwnedInt
  <2>5. Held(Ledger(call', drops', heap, kept, lost), v, m + One(a, v) + One(c.list, v))
    <3>1. Held(Ledger(call', drops, heap, kept, lost), v, m)
      BY <2>3, <2>4
    <3>2. drops \in [Threads -> Seq(Values)] /\ c.list \in Values \cup {Null}
      BY <1>4, InvFacts
    <3>3. drops[t] = <<>>
      BY <1>1
    <3> HIDE DEF c, a
    <3>4. Held(Ledger(call', [drops EXCEPT ![t] = Both(a, c.list)], heap, kept, lost), v,
               m + One(a, v) + One(c.list, v))
      BY ONLY <1>4, <2>4, <3>1, <3>2, <3>3, t \in Threads, v \in Values, BothDropped
    <3> QED BY <1>6, <3>4
  <2>6. m + One(a, v) + One(c.list, v) = n
    BY <1>10, <2>1, <2>4, OwnedInt, OneInt
  <2> QED BY <1>1, <2>1, <2>5, <2>6
<1>12. Stable(heap, heap', Null)
  BY <1>1, StableSame
<1>13. Holding(t, c2, heap')
  <2>1. CASE c.fault
    BY <1>7, <2>1 DEF Holding
  <2>2. CASE ~c.fault
    <3>1. /\ OwnResults(t, heap, c.results) /\ Recorded(heap, c.results, c.ran)
          /\ Len(heap[c.list].items) = Len(c.shape.elems)
      BY <1>2, <1>3, <2>2 DEF Holding
    <3>2. c.list \in DOMAIN heap
      BY <1>3, VarsAlive, InvFacts
    <3>3. heap[c.list].items \in Seq(Values)
      BY <3>2, InvFacts DEF HeapType, ValueType
    <3>4. c.i \notin 1..Len(c.shape.elems)
      BY <1>1, <1>3, <2>2, <3>1, <3>3 DEF InList
    <3>5. c.i = Len(c.ran) + 1 /\ Len(c.ran) <= Len(c.shape.elems)
      BY <1>2, <1>3, <2>2 DEF Control, Progress
    <3>6. Len(c.ran) \in Nat /\ Len(c.shape.elems) \in Nat
      <4>1. c.ran \in Seq([name : Names, outcome : Tags])
        BY <1>2 DEF CallType
      <4>2. c.shape.elems \in Seq(Names)
        BY <1>2 DEF CallType, Shape
      <4> HIDE DEF c
      <4> QED BY <4>1, <4>2
    <3>7. Len(c.ran) = Len(c.shape.elems)
      BY <3>4, <3>5, <3>6
    <3>8. x = c.results
      BY <2>2 DEF x
    <3> QED BY <1>1, <1>3, <1>7, <2>2, <3>1, <3>7, <3>8 DEF Holding
  <2> QED BY <2>1, <2>2
<1> QED
  BY <1>1, <1>6, <1>7, <1>8, <1>9, <1>11, <1>12, <1>13, InvFacts, Bounds, GrowStep

-----------------------------------------------------------------------------
\* The response

ReplyType == [kind : {"none", "nothing", "fault", "result"}, items : Seq(Tags)]

\* The reply with a result is what the calls of a multicall returned.
Faithful(c, reply) ==
    (c.shape.kind = "multi" /\ reply.kind = "result") =>
       /\ Len(c.ran) = Len(c.shape.elems)
       /\ reply.items = [k \in DOMAIN c.ran |-> c.ran[k].outcome]

\* What the client reads in the results of a multicall.
LEMMA TextOfResults ==
    ASSUME HeapType(heap), NEW v \in DOMAIN heap, heap[v].tag = "results",
           NEW ran \in Seq([name : Names, outcome : Tags]), Recorded(heap, v, ran)
    PROVE  Text(v) = [k \in DOMAIN ran |-> ran[k].outcome] /\ Text(v) \in Seq(Tags)
<1>1. DOMAIN heap[v].items = DOMAIN ran
  <2>1. heap[v].items \in Seq(Values)
    BY DEF HeapType, ValueType
  <2>2. Len(heap[v].items) = Len(ran)
    BY DEF Recorded
  <2> QED BY <2>1, <2>2
<1>2. ASSUME NEW k \in DOMAIN ran
      PROVE  (LET w == heap[v].items[k]
              IN IF heap[w].tag = "fault" THEN "fault" ELSE heap[heap[w].items[1]].tag)
             = ran[k].outcome
  <2> DEFINE w == heap[v].items[k]
  <2>1. IF ran[k].outcome = "fault" THEN heap[w].tag = "fault"
        ELSE heap[w].tag = "array" /\ heap[heap[w].items[1]].tag = ran[k].outcome
    BY DEF Recorded
  <2> HIDE DEF w
  <2>2. (IF heap[w].tag = "fault" THEN "fault" ELSE heap[heap[w].items[1]].tag) = ran[k].outcome
    BY <2>1
  <2> QED BY <2>2 DEF w
<1>3. Text(v) = [k \in DOMAIN heap[v].items |->
                    LET w == heap[v].items[k]
                    IN IF heap[w].tag = "fault" THEN "fault" ELSE heap[heap[w].items[1]].tag]
  BY DEF Text
<1>4. Text(v) = [k \in DOMAIN ran |-> ran[k].outcome]
  BY <1>1, <1>2, <1>3
<1>5. [k \in DOMAIN ran |-> ran[k].outcome] \in Seq(Tags)
  <2>1. DOMAIN ran = 1..Len(ran) /\ Len(ran) \in Nat
    OBVIOUS
  <2>2. ASSUME NEW k \in 1..Len(ran) PROVE ran[k].outcome \in Tags
    <3>1. ran[k] \in [name : Names, outcome : Tags]
      BY ONLY ran \in Seq([name : Names, outcome : Tags]), k \in 1..Len(ran), ElementOfSeq
    <3> QED BY <3>1
  <2> QED BY <2>1, <2>2
<1> QED BY <1>4, <1>5

\* The call's end, whatever is answered.
LEMMA RespondStep ==
    ASSUME IInv, NEW t \in Threads, Ready(t, "returned"), call[t].list = Null,
           NEW reply \in ReplyType, Faithful(call[t], reply),
           Go(t, [NoCall EXCEPT !.pc = "over", !.shape = call[t].shape, !.ran = call[t].ran,
                                !.reply = reply]),
           drops' = [drops EXCEPT ![t] =
                (IF call[t].fault THEN <<>> ELSE <<call[t].result>>)
                \o (IF call[t].params = Null THEN <<>> ELSE <<call[t].params>>)],
           failures' \in 0..MaxFailures, UNCHANGED <<Shared, heap>>
    PROVE  IInv'
<1> DEFINE c == call[t]
           c2 == [NoCall EXCEPT !.pc = "over", !.shape = c.shape, !.ran = c.ran, !.reply = reply]
<1>1. /\ UNCHANGED <<setup, heap, kept, lost, begun>> /\ Go(t, c2)
      /\ drops[t] = <<>> /\ c.pc = "returned"
  BY DEF Shared, Ready
<1>2. c \in CallType /\ Progress(c) /\ Control(c)
  BY ThreadFacts
<1>3. c.fault <=> c.result = Null
  BY <1>1, <1>2 DEF Control
<1>4. c.result \in Values \cup {Null} /\ c.params \in Values \cup {Null}
  BY <1>2 DEF CallType
<1>5. drops' = [drops EXCEPT ![t] = Both(c.result, c.params)]
  BY <1>3 DEF Both
<1>6. drops' \in [Threads -> Seq(Values)]
  BY <1>4, <1>5, BothCases, InvFacts
<1>7. /\ c2 \in CallType /\ c2.pc = "over" /\ c2.args = Null /\ c2.list = Null
      /\ c2.results = Null /\ c2.shape = c.shape /\ c2.params = Null
      /\ c2.result = Null /\ c2.ran = c.ran /\ c2.reply = reply
  <2>1. c.shape \in Shape /\ c.ran \in Seq([name : Names, outcome : Tags])
    BY <1>2 DEF CallType
  <2> HIDE DEF c
  <2>2. NoCall \in CallType
    BY NoCallType
  <2>3. c2 \in CallType
    BY <2>1, <2>2 DEF CallType, ReplyType
  <2>4. /\ NoCall.args = Null /\ NoCall.list = Null /\ NoCall.results = Null
        /\ NoCall.params = Null /\ NoCall.result = Null
    BY DEF NoCall
  <2> QED BY <2>2, <2>3, <2>4 DEF CallType
<1> HIDE DEF c2
<1>8. Progress(c2)
  BY <1>2, <1>7 DEF Progress, Faithful
<1>9. Control(c2)
  BY <1>7 DEF Control
<1>10. ASSUME NEW v \in Values
       PROVE  Owned(c, v) = Owned(c2, v) + One(c.result, v) + One(c.params, v)
  <2>1. OwnArgs(c2) = Null /\ OwnArgs(c) = Null /\ c.list = Null /\ c.results = Null
    BY <1>2, <1>7 DEF OwnArgs, Control
  <2>2. One(Null, v) = 0
    BY ValuesAssumption DEF One
  <2> QED BY <1>7, <2>1, <2>2, OneInt DEF Owned
<1>11. ASSUME NEW v \in Values
       PROVE  Held(Ledger(call', drops', heap', kept', lost'), v, RefsOf(heap', v))
  <2>1. PICK n \in Int: n = RefsOf(heap, v) /\ Held(Ledger(call, drops, heap, kept, lost), v, n)
    BY CountBefore
  <2>2. call'[t] = c2 /\ \A u \in Threads: u # t => call'[u] = call[u]
    BY <1>1, <1>7, GoFacts
  <2>3. Held(Ledger(call', drops, heap, kept, lost), v, n - Owned(c, v) + Owned(c2, v))
    BY <2>1, <2>2, CallChange
  <2>4. PICK m \in Int: m = n - Owned(c, v) + Owned(c2, v)
    BY <2>1, OwnedInt
  <2>5. Held(Ledger(call', drops', heap, kept, lost), v, m + One(c.result, v) + One(c.params, v))
    <3>1. Held(Ledger(call', drops, heap, kept, lost), v, m)
      BY <2>3, <2>4
    <3>2. drops \in [Threads -> Seq(Values)]
      BY InvFacts
    <3>3. drops[t] = <<>>
      BY <1>1
    <3> HIDE DEF c
    <3>4. Held(Ledger(call', [drops EXCEPT ![t] = Both(c.result, c.params)], heap, kept, lost), v,
               m + One(c.result, v) + One(c.params, v))
      BY ONLY <1>4, <2>4, <3>1, <3>2, <3>3, t \in Threads, v \in Values, BothDropped
    <3> QED BY <1>5, <3>4
  <2>6. m + One(c.result, v) + One(c.params, v) = n
    BY ONLY <1>10, <2>1, <2>4, OwnedInt, OneInt, v \in Values
  <2> QED BY <1>1, <2>1, <2>5, <2>6
<1>12. Stable(heap, heap', Null)
  BY <1>1, StableSame
<1>13. Holding(t, c2, heap')
  BY <1>7 DEF Holding
<1> QED
  BY <1>1, <1>6, <1>7, <1>8, <1>9, <1>11, <1>12, <1>13, InvFacts, Bounds, GrowStep

\* The response is written, and the references go back (xmlrpc_registry_process_call2()).
LEMMA RespondKeeps ==
    ASSUME IInv, NEW t \in Threads, Respond(t)
    PROVE  IInv'
<1> DEFINE c == call[t]
           reply == IF c.fault THEN [kind |-> "fault", items |-> <<>>]
                               ELSE [kind |-> "result", items |-> Text(c.result)]
           nothing == [kind |-> "nothing", items |-> <<>>]
<1>1. /\ Ready(t, "returned") /\ c.list = Null /\ UNCHANGED <<Shared, heap>>
      /\ drops' = [drops EXCEPT ![t] =
                (IF c.fault THEN <<>> ELSE <<c.result>>)
                \o (IF c.params = Null THEN <<>> ELSE <<c.params>>)]
  BY DEF Respond
<1>2. c \in CallType /\ Control(c) /\ Holding(t, c, heap) /\ c.pc = "returned"
  BY <1>1, ThreadFacts DEF Ready
<1>3. ASSUME ~c.fault
      PROVE  /\ Text(c.result) \in Seq(Tags)
             /\ c.shape.kind = "multi" =>
                   /\ Len(c.ran) = Len(c.shape.elems)
                   /\ Text(c.result) = [k \in DOMAIN c.ran |-> c.ran[k].outcome]
  <2>1. c.result # Null
    BY <1>2, <1>3 DEF Control
  <2>2. c.result \in DOMAIN heap
    BY <2>1, VarsAlive, InvFacts
  <2>3. CASE c.shape.kind = "multi"
    <3>1. /\ Len(c.ran) = Len(c.shape.elems)
          /\ heap[c.result].tag = "results" /\ Recorded(heap, c.result, c.ran)
      BY <1>1, <1>2, <1>3, <2>3 DEF Holding, OwnResults
    <3>2. c.ran \in Seq([name : Names, outcome : Tags])
      BY <1>2 DEF CallType
    <3> QED BY <2>2, <3>1, <3>2, InvFacts, TextOfResults
  <2>4. CASE c.shape.kind # "multi"
    <3>1. heap[c.result].tag # "results"
      BY <1>2, <1>3, <2>4 DEF Holding, Internal
    <3>2. Text(c.result) = <<heap[c.result].tag>>
      BY <3>1 DEF Text
    <3>3. heap[c.result].tag \in Tags
      BY <2>2, InvFacts DEF HeapType, ValueType
    <3>4. <<heap[c.result].tag>> \in Seq(Tags)
      BY <3>3
    <3> QED BY <2>4, <3>2, <3>4
  <2> QED BY <2>3, <2>4
<1>4. reply \in ReplyType /\ nothing \in ReplyType
  BY <1>3 DEF ReplyType
<1>5. Faithful(c, reply) /\ Faithful(c, nothing)
  BY <1>3 DEF Faithful
<1>6. CASE /\ Go(t, [NoCall EXCEPT !.pc = "over", !.shape = c.shape, !.ran = c.ran, !.reply = reply])
           /\ UNCHANGED failures
  <2> HIDE DEF reply
  <2> QED BY <1>1, <1>4, <1>5, <1>6, Bounds, RespondStep
<1>7. CASE /\ failures < MaxFailures /\ failures' = failures + 1
           /\ Go(t, [NoCall EXCEPT !.pc = "over", !.shape = c.shape, !.ran = c.ran,
                                   !.reply = nothing])
  <2>1. failures' \in 0..MaxFailures
    BY <1>7, Bounds, BoundsAssumption
  <2> HIDE DEF nothing
  <2> QED BY <1>1, <1>4, <1>5, <1>7, <2>1, RespondStep
<1> QED BY <1>6, <1>7 DEF Respond

-----------------------------------------------------------------------------
\* The outcome of an element is appended

\* h2 is h with f after the items of r.
Pushed(h, h2, r, f) ==
    /\ HeapType(h2) /\ DOMAIN h2 = DOMAIN h
    /\ \A v \in DOMAIN h: v # r => h2[v] = h[v]
    /\ h2[r].tag = h[r].tag /\ h2[r].items = Append(h[r].items, f)
    /\ \A w, m: m \in Nat /\ (w # r \/ m # Len(h[r].items) + 1) => ItemAt(h2, w, m) = ItemAt(h, w, m)
    /\ ItemAt(h2, r, Len(h[r].items) + 1) = f /\ ItemAt(h, r, Len(h[r].items) + 1) = Null
    /\ Len(h[r].items) + 1 \in Nat
    /\ \A v: RefsOf(h2, v) = RefsOf(h, v)

\* An item is appended to a multicall's results, with the reference to it.
LEMMA PushCounts ==
    ASSUME NEW h, HeapType(h), NEW r \in DOMAIN h, NEW f \in Values
    PROVE  Pushed(h, [h EXCEPT ![r].items = AppendItem(@, f)], r, f)
<1> DEFINE q == h[r].items
           p == Append(q, f)
           h2 == [h EXCEPT ![r].items = AppendItem(@, f)]
<1>1. h2 = [h EXCEPT ![r] = [h[r] EXCEPT !.items = p]]
  BY DEF AppendItem
<1>2. h[r] \in ValueType /\ q \in Seq(Values) /\ p \in Seq(Values)
  <2>1. h[r] \in ValueType
    BY DEF HeapType
  <2>2. q \in Seq(Values)
    BY <2>1 DEF ValueType
  <2> HIDE DEF q
  <2>3. p \in Seq(Values)
    BY <2>2
  <2> QED BY <2>1, <2>2, <2>3
<1>3. /\ \A m \in Nat: m # Len(q) + 1 => At(p, m) = At(q, m)
      /\ At(p, Len(q) + 1) = f /\ At(q, Len(q) + 1) = Null /\ Len(q) + 1 \in Nat
  <2> HIDE DEF q
  <2> QED BY <1>2, AppendAt
<1> HIDE DEF p
<1>4. /\ [h[r] EXCEPT !.items = p] \in ValueType
      /\ [h[r] EXCEPT !.items = p].items = p
      /\ [h[r] EXCEPT !.items = p].tag = h[r].tag
      /\ [h[r] EXCEPT !.items = p].refs = h[r].refs
  BY <1>2 DEF ValueType
<1>5. DOMAIN h2 = DOMAIN h /\ h2[r] = [h[r] EXCEPT !.items = p]
      /\ \A v \in DOMAIN h: v # r => h2[v] = h[v]
  BY <1>1
<1>6. h2 \in [DOMAIN h -> ValueType]
  BY <1>1, <1>4 DEF HeapType
<1> HIDE DEF h2
<1>7. HeapType(h2)
  BY <1>5, <1>6 DEF HeapType
<1>8. h2[r].tag = h[r].tag /\ h2[r].items = p /\ h2[r].refs = h[r].refs
  BY <1>4, <1>5
<1>9. ASSUME NEW w, NEW m, m \in Nat, w # r \/ m # Len(q) + 1
      PROVE  ItemAt(h2, w, m) = ItemAt(h, w, m)
  <2>1. CASE w = r
    BY <1>3, <1>5, <1>8, <1>9, <2>1 DEF ItemAt
  <2>2. CASE w # r
    BY <1>5, <2>2 DEF ItemAt
  <2> QED BY <2>1, <2>2
<1>10. ItemAt(h2, r, Len(q) + 1) = f /\ ItemAt(h, r, Len(q) + 1) = Null
  BY <1>3, <1>5, <1>8 DEF ItemAt
<1>11. ASSUME NEW v PROVE RefsOf(h2, v) = RefsOf(h, v)
  BY <1>5, <1>8 DEF RefsOf
<1> QED BY <1>3, <1>5, <1>7, <1>8, <1>9, <1>10, <1>11 DEF Pushed, h2, p

\* What the new value tells is what the call returned.
Tells(h, f, outcome) ==
    IF outcome = "fault"
    THEN h[f].tag = "fault"
    ELSE h[f].tag = "array" /\ h[h[f].items[1]].tag = outcome

\* The record of a multicall's results after one more outcome.
LEMMA RecordedGrows ==
    ASSUME NEW h, NEW h2, HeapType(h), Closed(h), \A w \in DOMAIN h: WellMade(h, w),
           NEW v \in DOMAIN h, h[v].tag = "results",
           \A w \in DOMAIN h: h2[w].tag = h[w].tag /\ (w # v => h2[w].items = h[w].items),
           NEW f \in Values, h2[v].items = Append(h[v].items, f),
           NEW ran \in Seq([name : Names, outcome : Tags]), Recorded(h, v, ran),
           NEW e \in [name : Names, outcome : Tags], Tells(h2, f, e.outcome)
    PROVE  Recorded(h2, v, Append(ran, e))
<1> DEFINE q == h[v].items
           ran2 == Append(ran, e)
<1>1. q \in Seq(Values) /\ Len(q) = Len(ran)
  BY DEF HeapType, ValueType, Recorded
<1>2. /\ Len(ran2) = Len(ran) + 1 /\ Len(ran) \in Nat /\ DOMAIN ran2 = 1..Len(ran) + 1
      /\ ran2[Len(ran) + 1] = e /\ \A k \in 1..Len(ran): ran2[k] = ran[k]
  BY ONLY ran \in Seq([name : Names, outcome : Tags]), e \in [name : Names, outcome : Tags]
<1>3. /\ Len(h2[v].items) = Len(ran) + 1
      /\ h2[v].items[Len(ran) + 1] = f /\ \A k \in 1..Len(ran): h2[v].items[k] = q[k]
  <2> HIDE DEF q
  <2>1. /\ Len(Append(q, f)) = Len(q) + 1 /\ Append(q, f)[Len(q) + 1] = f
        /\ \A k \in 1..Len(q): Append(q, f)[k] = q[k]
    BY ONLY <1>1, f \in Values
  <2> QED BY <1>1, <2>1 DEF q
<1> HIDE DEF ran2
<1>4. ASSUME NEW k \in DOMAIN ran
      PROVE  Tells(h2, h2[v].items[k], ran2[k].outcome)
  <2> DEFINE w == q[k]
  <2>1. k \in DOMAIN q /\ k \in DOMAIN ran
    BY <1>1
  <2>2. w \in DOMAIN h
    BY <2>1 DEF Closed
  <2>3. IF ran[k].outcome = "fault" THEN h[w].tag = "fault"
        ELSE h[w].tag = "array" /\ h[h[w].items[1]].tag = ran[k].outcome
    BY <2>1 DEF Recorded
  <2> HIDE DEF w
  <2>4. h2[w].tag = h[w].tag
    BY <2>2
  <2>5. h2[v].items[k] = w /\ ran2[k] = ran[k]
    BY <1>2, <1>3 DEF w
  <2>6. CASE ran[k].outcome = "fault"
    BY <2>3, <2>4, <2>5, <2>6 DEF Tells
  <2>7. CASE ran[k].outcome # "fault"
    <3>1. h[w].tag = "array" /\ h[h[w].items[1]].tag = ran[k].outcome
      BY <2>3, <2>7
    <3>2. h2[w].items = h[w].items
      BY <2>2, <3>1
    <3>3. Len(h[w].items) = 1 /\ h[w].items \in Seq(Values)
      BY <2>2, <3>1 DEF WellMade, HeapType, ValueType
    <3>4. 1 \in DOMAIN h[w].items
      BY <3>3
    <3>5. h[w].items[1] \in DOMAIN h
      BY <2>2, <3>4 DEF Closed
    <3>6. h2[h[w].items[1]].tag = h[h[w].items[1]].tag
      BY <3>5
    <3> QED BY <2>4, <2>5, <2>7, <3>1, <3>2, <3>6 DEF Tells
  <2> QED BY <2>6, <2>7
<1>5. ASSUME NEW k \in DOMAIN ran2
      PROVE  Tells(h2, h2[v].items[k], ran2[k].outcome)
  <2>1. CASE k = Len(ran) + 1
    <3>1. ran2[k] = e /\ h2[v].items[k] = f
      BY <1>2, <1>3, <2>1
    <3>2. Tells(h2, f, e.outcome)
      OBVIOUS
    <3> QED BY ONLY <3>1, <3>2
  <2>2. CASE k \in DOMAIN ran
    BY ONLY <1>4, <2>2
  <2>3. DOMAIN ran = 1..Len(ran)
    OBVIOUS
  <2>4. k = Len(ran) + 1 \/ k \in DOMAIN ran
    BY ONLY <1>2, <2>3, k \in DOMAIN ran2
  <2> QED BY ONLY <2>1, <2>2, <2>4
<1>6. Len(h2[v].items) = Len(ran2)
  BY <1>2, <1>3
<1> QED BY <1>5, <1>6 DEF Recorded, Tells, ran2

\* The variables of a thread that has the outcome of an element: c is the call
\* before, c2 the call after, and what is new in it is e, the call that was run.
LEMMA OutcomeFacts ==
    ASSUME IInv, NEW t \in Threads, call[t].pc = "returned", call[t].list # Null
    PROVE  /\ call[t].results \in DOMAIN heap /\ call[t].results \in {t} \X (1..MaxValues)
           /\ heap[call[t].results].tag = "results"
           /\ Recorded(heap, call[t].results, call[t].ran)
           /\ call[t].args \in Values /\ call[t].args # Null
           /\ call[t].i = Len(call[t].ran) + 1 /\ call[t].i \in 1..Len(call[t].shape.elems)
           /\ call[t].name = call[t].shape.elems[call[t].i]
           /\ call[t].name \in Names /\ call[t].name # "system.multicall"
           /\ call[t].shape.kind = "multi"
           /\ call[t].fault <=> call[t].result = Null
           /\ ~call[t].fault =>
                 /\ call[t].result \in DOMAIN heap /\ call[t].result \in Values
                 /\ heap[call[t].result].tag \notin Internal
           /\ Outcome(call[t]) \in Tags
           /\ call[t].reply.kind # "result"
<1> DEFINE c == call[t]
<1>1. c \in CallType /\ Progress(c) /\ Control(c) /\ Holding(t, c, heap)
      /\ Refers(c, DOMAIN heap)
  BY ThreadFacts, InvFacts
<1>2. /\ c.results # Null /\ c.args # Null /\ c.shape.kind = "multi"
      /\ c.i = Len(c.ran) + 1 /\ c.i \in 1..Len(c.shape.elems)
      /\ c.name = c.shape.elems[c.i] /\ c.name # "system.multicall"
      /\ c.fault <=> c.result = Null
  BY <1>1 DEF Control
<1>3. c.results \in DOMAIN heap /\ (~c.fault => c.result \in DOMAIN heap)
  BY <1>1, <1>2, VarsAlive
<1>4. /\ OwnResults(t, heap, c.results) /\ Recorded(heap, c.results, c.ran)
      /\ ~c.fault => heap[c.result].tag \notin Internal
  BY <1>1 DEF Holding
<1>5. c.args \in Values
  BY <1>1, <1>2 DEF CallType
<1>6. c.name \in Names
  <2>1. c.shape.elems \in Seq(Names)
    BY <1>1 DEF CallType, Shape
  <2> QED BY <1>2, <2>1
<1>7. ~c.fault => c.result \in Values
  BY <1>3, InvFacts DEF HeapType
<1>8. c.reply.kind # "result"
  BY <1>1, <1>2 DEF Progress
<1>9. Outcome(c) \in Tags
  <2>1. CASE c.fault
    BY <2>1 DEF Outcome, Tags
  <2>2. CASE ~c.fault
    BY <1>3, <2>2, InvFacts DEF Outcome, HeapType, ValueType
  <2> QED BY <2>1, <2>2
<1> QED BY <1>2, <1>3, <1>4, <1>5, <1>6, <1>7, <1>8, <1>9 DEF OwnResults

\* The names run remain a prefix of the list.
LEMMA RunExtended ==
    ASSUME NEW elems \in Seq(Names), NEW ran \in Seq([name : Names, outcome : Tags]),
           NEW e \in [name : Names, outcome : Tags],
           Len(ran) + 1 \in 1..Len(elems), e.name = elems[Len(ran) + 1],
           e.name # "system.multicall",
           \A k \in DOMAIN ran: ran[k].name = elems[k] /\ ran[k].name # "system.multicall"
    PROVE  /\ Append(ran, e) \in Seq([name : Names, outcome : Tags])
           /\ Len(Append(ran, e)) = Len(ran) + 1
           /\ Len(Append(ran, e)) <= Len(elems)
           /\ \A k \in DOMAIN Append(ran, e):
                 /\ Append(ran, e)[k].name = elems[k]
                 /\ Append(ran, e)[k].name # "system.multicall"
<1> DEFINE ran2 == Append(ran, e)
<1>1. /\ Len(ran2) = Len(ran) + 1 /\ Len(ran) \in Nat /\ DOMAIN ran2 = 1..Len(ran) + 1
      /\ ran2[Len(ran) + 1] = e /\ \A k \in 1..Len(ran): ran2[k] = ran[k]
      /\ ran2 \in Seq([name : Names, outcome : Tags])
      /\ DOMAIN ran = 1..Len(ran)
  BY ONLY ran \in Seq([name : Names, outcome : Tags]), e \in [name : Names, outcome : Tags]
<1> HIDE DEF ran2
<1>2. ASSUME NEW k \in DOMAIN ran2
      PROVE  ran2[k].name = elems[k] /\ ran2[k].name # "system.multicall"
  <2>1. CASE k = Len(ran) + 1
    BY <1>1, <2>1
  <2>2. CASE k \in DOMAIN ran
    BY <1>1, <2>2
  <2> QED BY <1>1, <2>1, <2>2
<1>3. Len(ran2) <= Len(elems)
  BY <1>1
<1> QED BY <1>1, <1>2, <1>3 DEF ran2

\* The outcome of an element cannot be appended: the multicall ends.
LEMMA AppendFailsKeeps ==
    ASSUME IInv, NEW t \in Threads, Ready(t, "returned"), call[t].list # Null,
           NEW e, e = [name |-> call[t].name, outcome |-> Outcome(call[t])],
           Go(t, [call[t] EXCEPT !.args = Null, !.result = Null, !.fault = TRUE,
                                 !.ran = Append(@, e), !.pc = "end"]),
           drops' = [drops EXCEPT ![t] = Both(call[t].result, call[t].args)],
           failures' \in 0..MaxFailures, UNCHANGED <<Shared, heap>>
    PROVE  IInv'
<1> DEFINE c == call[t]
           ran2 == Append(c.ran, e)
           c2 == [c EXCEPT !.args = Null, !.result = Null, !.fault = TRUE, !.ran = ran2,
                           !.pc = "end"]
<1>1. /\ UNCHANGED <<setup, heap, kept, lost, begun>> /\ drops[t] = <<>> /\ c.pc = "returned"
      /\ Go(t, c2)
  BY DEF Shared, Ready
<1>2. c \in CallType /\ Progress(c) /\ Control(c) /\ Holding(t, c, heap)
  BY ThreadFacts
<1>3. /\ c.results \in DOMAIN heap
      /\ c.args \in Values /\ c.args # Null
      /\ c.i = Len(c.ran) + 1 /\ c.i \in 1..Len(c.shape.elems)
      /\ c.name = c.shape.elems[c.i]
      /\ c.name \in Names /\ c.name # "system.multicall" /\ c.shape.kind = "multi"
      /\ Outcome(c) \in Tags /\ c.reply.kind # "result"
  BY <1>1, OutcomeFacts
<1>4. /\ e \in [name : Names, outcome : Tags] /\ e.name = c.name
  BY <1>3
<1>5. /\ ran2 \in Seq([name : Names, outcome : Tags]) /\ Len(ran2) <= Len(c.shape.elems)
      /\ \A k \in DOMAIN ran2:
            ran2[k].name = c.shape.elems[k] /\ ran2[k].name # "system.multicall"
  <2>1. c.shape.elems \in Seq(Names) /\ c.ran \in Seq([name : Names, outcome : Tags])
    BY <1>2 DEF CallType, Shape
  <2>2. \A k \in DOMAIN c.ran:
           c.ran[k].name = c.shape.elems[k] /\ c.ran[k].name # "system.multicall"
    BY <1>2, <1>3 DEF Progress
  <2>3. e.name = c.shape.elems[Len(c.ran) + 1] /\ e.name # "system.multicall"
        /\ Len(c.ran) + 1 \in 1..Len(c.shape.elems)
    BY <1>3, <1>4
  <2> HIDE DEF c
  <2> QED BY ONLY <1>4, <2>1, <2>2, <2>3, RunExtended
<1> HIDE DEF ran2
<1>6. /\ c2 \in CallType /\ c2.pc = "end" /\ c2.args = Null /\ c2.result = Null
      /\ c2.fault = TRUE /\ c2.list = c.list /\ c2.results = c.results /\ c2.shape = c.shape
      /\ c2.params = c.params /\ c2.ran = ran2 /\ c2.reply = c.reply /\ c2.i = c.i
  <2> HIDE DEF c
  <2> QED BY <1>2, <1>5 DEF CallType
<1> HIDE DEF c2
<1>7. Progress(c2)
  BY <1>3, <1>5, <1>6 DEF Progress
<1>8. Control(c2)
  BY <1>2, <1>3, <1>6 DEF Control
<1>9. c.result \in Values \cup {Null} /\ c.args \in Values \cup {Null}
  BY <1>2 DEF CallType
<1>10. ASSUME NEW v \in Values
       PROVE  Owned(c, v) = Owned(c2, v) + One(c.result, v) + One(c.args, v)
  <2>1. OwnArgs(c2) = Null /\ OwnArgs(c) = c.args
    BY <1>6 DEF OwnArgs
  <2>2. One(Null, v) = 0
    BY ValuesAssumption DEF One
  <2> QED BY <1>6, <2>1, <2>2, OneInt DEF Owned
<1>11. ASSUME NEW v \in Values
       PROVE  Held(Ledger(call', drops', heap', kept', lost'), v, RefsOf(heap', v))
  <2>1. PICK n \in Int: n = RefsOf(heap, v) /\ Held(Ledger(call, drops, heap, kept, lost), v, n)
    BY CountBefore
  <2>2. call'[t] = c2 /\ \A u \in Threads: u # t => call'[u] = call[u]
    BY <1>1, <1>6, GoFacts
  <2>3. Held(Ledger(call', drops, heap, kept, lost), v, n - Owned(c, v) + Owned(c2, v))
    BY <2>1, <2>2, CallChange
  <2>4. PICK m \in Int: m = n - Owned(c, v) + Owned(c2, v)
    BY <2>1, OwnedInt
  <2>5. Held(Ledger(call', drops', heap, kept, lost), v, m + One(c.result, v) + One(c.args, v))
    <3>1. Held(Ledger(call', drops, heap, kept, lost), v, m)
      BY <2>3, <2>4
    <3>2. drops \in [Threads -> Seq(Values)]
      BY InvFacts
    <3>3. drops[t] = <<>>
      BY <1>1
    <3>5. drops' = [drops EXCEPT ![t] = Both(c.result, c.args)]
      OBVIOUS
    <3> HIDE DEF c
    <3>4. Held(Ledger(call', [drops EXCEPT ![t] = Both(c.result, c.args)], heap, kept, lost), v,
               m + One(c.result, v) + One(c.args, v))
      BY ONLY <1>9, <2>4, <3>1, <3>2, <3>3, t \in Threads, v \in Values, BothDropped
    <3> QED BY <3>4, <3>5
  <2>6. m + One(c.result, v) + One(c.args, v) = n
    BY <1>10, <2>1, <2>4, OwnedInt, OneInt
  <2> QED BY <1>1, <2>1, <2>5, <2>6
<1>12. Stable(heap, heap', Null)
  BY <1>1, StableSame
<1>13. drops' \in [Threads -> Seq(Values)]
  BY <1>9, BothCases, InvFacts
<1>14. Holding(t, c, heap') => Holding(t, c2, heap')
  BY <1>6 DEF Holding
<1> QED
  BY <1>1, <1>6, <1>7, <1>8, <1>11, <1>12, <1>13, <1>14, InvFacts, Bounds, GrowStep

\* The heap in which the thread's results have one outcome more: x is what the
\* call returned, or Null when it failed.
Appended(h, h2, f, r, x, tag) ==
    /\ HeapType(h2) /\ DOMAIN h2 = DOMAIN h \cup {f}
    /\ \A v \in DOMAIN h: h2[v].tag = h[v].tag /\ (v # r => h2[v].items = h[v].items)
    /\ h2[r].items = Append(h[r].items, f)
    /\ h2[f].tag = tag /\ h2[f].items = (IF x = Null THEN <<>> ELSE <<x>>)
    /\ \A v \in Values: RefsOf(h2, v) = RefsOf(h, v) + One(x, v) + One(f, v)
    /\ \A c, d, k, l: \A v \in Values: \A n \in Int:
          Held(Ledger(c, d, h, k, l), v, n) =>
             Held(Ledger(c, d, h2, k, l), v, n + One(x, v) + One(f, v))

\* The heap after an element's outcome is appended to the results.
LEMMA AppendedHeap ==
    ASSUME NEW t \in Threads, NEW h, HeapType(h), Fresh(t) \in Values, Fresh(t) \notin DOMAIN h,
           NEW r \in DOMAIN h, NEW x \in DOMAIN h \cup {Null}, NEW tag \in Tags, NEW built,
           built = Alloc(t, IF x = Null THEN h ELSE Incref(h, x),
                         IF x = Null THEN <<>> ELSE <<x>>, tag)
    PROVE  Appended(h, [built EXCEPT ![r].items = AppendItem(@, Fresh(t))], Fresh(t), r, x, tag)
<1> DEFINE f == Fresh(t)
           h1 == IF x = Null THEN h ELSE Incref(h, x)
           held == IF x = Null THEN <<>> ELSE <<x>>
           h2 == [built EXCEPT ![r].items = AppendItem(@, f)]
           j == Len(h[r].items) + 1
<1>0. Null \notin DOMAIN h /\ r \in Values /\ DOMAIN h \subseteq Values
  BY ValuesAssumption DEF HeapType
<1>1. /\ HeapType(h1) /\ DOMAIN h1 = DOMAIN h
      /\ \A v \in DOMAIN h: h1[v].tag = h[v].tag /\ h1[v].items = h[v].items
      /\ \A w, m: ItemAt(h1, w, m) = ItemAt(h, w, m)
      /\ \A v \in Values: RefsOf(h1, v) = RefsOf(h, v) + One(x, v)
  <2>1. CASE x = Null
    <3>1. h1 = h
      BY <2>1
    <3>2. \A v \in Values: One(x, v) = 0
      BY <2>1, ValuesAssumption DEF One
    <3>3. \A v: RefsOf(h, v) \in Int
      BY RefsInt
    <3> QED BY <3>1, <3>2, <3>3
  <2>2. CASE x # Null
    <3>1. h1 = Incref(h, x) /\ x \in DOMAIN h
      BY <2>2
    <3>2. Increfed(h, h1, x)
      BY <3>1, IncrefCounts
    <3> HIDE DEF h1
    <3> QED BY <3>2 DEF Increfed
  <2> QED BY <2>1, <2>2
<1>2. /\ held \in Seq(Values) /\ At(held, 1) = x
      /\ \A m \in Nat: m # 1 => At(held, m) = Null
  <2>1. CASE x = Null
    BY <2>1 DEF At
  <2>2. CASE x # Null
    <3>1. held = <<x>> /\ x \in Values
      BY <1>0, <2>2
    <3>2. <<x>> \in Seq(Values) /\ DOMAIN <<x>> = 1..1 /\ <<x>>[1] = x
      BY <3>1
    <3> HIDE DEF held
    <3> QED BY <3>1, <3>2 DEF At
  <2> QED BY <2>1, <2>2
<1> HIDE DEF h1, held
<1>3. Allocated(h1, built, f, held, tag)
  BY <1>1, <1>2, AllocCounts DEF h1, held
<1> HIDE DEF f
<1>4. /\ HeapType(built) /\ DOMAIN built = DOMAIN h \cup {f}
      /\ \A v \in DOMAIN h: built[v].tag = h[v].tag /\ built[v].items = h[v].items
      /\ built[f].tag = tag /\ built[f].items = held
      /\ \A w, m: w # f => ItemAt(built, w, m) = ItemAt(h, w, m)
      /\ \A m: ItemAt(built, f, m) = At(held, m) /\ ItemAt(h, f, m) = Null
      /\ \A v \in Values: RefsOf(built, v) = RefsOf(h, v) + One(x, v) + One(f, v)
  <2>1. /\ HeapType(built) /\ DOMAIN built = DOMAIN h1 \cup {f}
        /\ \A v \in DOMAIN h1: built[v] = h1[v]
        /\ built[f].tag = tag /\ built[f].items = held
        /\ \A w, m: w # f => ItemAt(built, w, m) = ItemAt(h1, w, m)
        /\ \A m: ItemAt(built, f, m) = At(held, m) /\ ItemAt(h1, f, m) = Null
        /\ \A v: RefsOf(built, v) = RefsOf(h1, v) + One(f, v)
    BY <1>3 DEF Allocated
  <2> QED BY ONLY <1>1, <2>1
<1>5. f \in Values /\ f # r /\ r \in DOMAIN built
  BY <1>4 DEF f
<1>6. Pushed(built, h2, r, f)
  BY <1>4, <1>5, PushCounts
<1> HIDE DEF h2
<1>7. built[r].items = h[r].items
  BY <1>4
<1>8. /\ HeapType(h2) /\ DOMAIN h2 = DOMAIN built
      /\ \A v \in DOMAIN built: v # r => h2[v] = built[v]
      /\ h2[r].tag = built[r].tag /\ h2[r].items = Append(h[r].items, f)
      /\ \A w, m: m \in Nat /\ (w # r \/ m # j) => ItemAt(h2, w, m) = ItemAt(built, w, m)
      /\ ItemAt(h2, r, j) = f /\ ItemAt(built, r, j) = Null /\ j \in Nat
      /\ \A v: RefsOf(h2, v) = RefsOf(built, v)
  BY <1>6, <1>7 DEF Pushed
<1> HIDE DEF j
<1>9. DOMAIN h2 = DOMAIN h \cup {f}
  BY <1>4, <1>8
<1>10. \A v \in DOMAIN h: h2[v].tag = h[v].tag /\ (v # r => h2[v].items = h[v].items)
  BY <1>4, <1>8
<1>11. h2[f].tag = tag /\ h2[f].items = held
  BY <1>4, <1>5, <1>8
<1>12. \A v \in Values: RefsOf(h2, v) = RefsOf(h, v) + One(x, v) + One(f, v)
  BY ONLY <1>4, <1>8
<1>13. ASSUME NEW c, NEW d, NEW k, NEW l, NEW v \in Values, NEW n \in Int,
              Held(Ledger(c, d, h, k, l), v, n)
       PROVE  Held(Ledger(c, d, h2, k, l), v, n + One(x, v) + One(f, v))
  <2>1. \A w \in Values, m \in Nat: w # f \/ m # 1 => ItemAt(built, w, m) = ItemAt(h, w, m)
    BY <1>2, <1>4
  <2>2. ItemAt(h, f, 1) = Null /\ ItemAt(built, f, 1) = x
    BY <1>2, <1>4
  <2>3. Held(Ledger(c, d, built, k, l), v, n - One(ItemAt(h, f, 1), v) + One(ItemAt(built, f, 1), v))
    BY ONLY <1>5, <1>13, <2>1, n \in Int, 1 \in Nat, ItemChange
  <2>4. One(Null, v) = 0
    BY ValuesAssumption DEF One
  <2>5. PICK m \in Int: m = n + One(x, v)
    BY OneInt
  <2>6. Held(Ledger(c, d, built, k, l), v, m)
    BY <2>2, <2>3, <2>4, <2>5, OneInt
  <2>7. \A w \in Values, p \in Nat: w # r \/ p # j => ItemAt(h2, w, p) = ItemAt(built, w, p)
    BY <1>8
  <2>8. Held(Ledger(c, d, h2, k, l), v, m - One(ItemAt(built, r, j), v) + One(ItemAt(h2, r, j), v))
    BY ONLY <1>0, <1>8, <2>5, <2>6, <2>7, ItemChange
  <2>9. m - One(ItemAt(built, r, j), v) + One(ItemAt(h2, r, j), v) = n + One(x, v) + One(f, v)
    BY <1>8, <2>4, <2>5, OneInt
  <2> QED BY <2>8, <2>9
<1> QED BY <1>8, <1>9, <1>10, <1>11, <1>12, <1>13 DEF Appended, f, h2, held

\* The outcome of an element is appended to the results.
LEMMA AppendSucceedsKeeps ==
    ASSUME IInv, NEW t \in Threads, Ready(t, "returned"), call[t].list # Null, Room(t, 1),
           NEW e, e = [name |-> call[t].name, outcome |-> Outcome(call[t])],
           Go(t, [call[t] EXCEPT !.args = Null, !.result = Null, !.fault = FALSE,
                                 !.ran = Append(@, e), !.pc = "loop", !.i = @ + 1]),
           drops' = [drops EXCEPT ![t] = Both(call[t].result, call[t].args)],
           Appended(heap, heap', Fresh(t), call[t].results, call[t].result,
                    IF call[t].fault THEN "fault" ELSE "array"),
           UNCHANGED <<Shared, failures>>
    PROVE  IInv'
<1> DEFINE c == call[t]
           f == Fresh(t)
           ran2 == Append(c.ran, e)
           c2 == [c EXCEPT !.args = Null, !.result = Null, !.fault = FALSE, !.ran = ran2,
                           !.pc = "loop", !.i = c.i + 1]
<1>1. /\ UNCHANGED <<setup, kept, lost, begun, failures>> /\ drops[t] = <<>>
      /\ c.pc = "returned" /\ Go(t, c2)
  BY DEF Shared, Ready
<1>2. c \in CallType /\ Progress(c) /\ Control(c) /\ Holding(t, c, heap)
  BY ThreadFacts
<1>3. /\ c.results \in DOMAIN heap /\ c.results \in {t} \X (1..MaxValues)
      /\ heap[c.results].tag = "results" /\ Recorded(heap, c.results, c.ran)
      /\ c.args \in Values /\ c.args # Null
      /\ c.i = Len(c.ran) + 1 /\ c.i \in 1..Len(c.shape.elems)
      /\ c.name = c.shape.elems[c.i]
      /\ c.name \in Names /\ c.name # "system.multicall" /\ c.shape.kind = "multi"
      /\ c.fault <=> c.result = Null
      /\ ~c.fault => c.result \in DOMAIN heap /\ heap[c.result].tag \notin Internal
      /\ Outcome(c) \in Tags /\ c.reply.kind # "result"
  BY <1>1, OutcomeFacts
<1>4. /\ e \in [name : Names, outcome : Tags] /\ e.name = c.name /\ e.outcome = Outcome(c)
  BY <1>3
<1>5. /\ ran2 \in Seq([name : Names, outcome : Tags]) /\ Len(ran2) = Len(c.ran) + 1
      /\ Len(ran2) <= Len(c.shape.elems)
      /\ \A k \in DOMAIN ran2:
            ran2[k].name = c.shape.elems[k] /\ ran2[k].name # "system.multicall"
  <2>1. c.shape.elems \in Seq(Names) /\ c.ran \in Seq([name : Names, outcome : Tags])
    BY <1>2 DEF CallType, Shape
  <2>2. \A k \in DOMAIN c.ran:
           c.ran[k].name = c.shape.elems[k] /\ c.ran[k].name # "system.multicall"
    BY <1>2, <1>3 DEF Progress
  <2>3. e.name = c.shape.elems[Len(c.ran) + 1] /\ e.name # "system.multicall"
        /\ Len(c.ran) + 1 \in 1..Len(c.shape.elems)
    BY <1>3, <1>4
  <2> HIDE DEF c
  <2> QED BY ONLY <1>4, <2>1, <2>2, <2>3, RunExtended
<1> HIDE DEF ran2, f
<1>6. /\ c2 \in CallType /\ c2.pc = "loop" /\ c2.args = Null /\ c2.result = Null
      /\ c2.fault = FALSE /\ c2.list = c.list /\ c2.results = c.results /\ c2.shape = c.shape
      /\ c2.params = c.params /\ c2.ran = ran2 /\ c2.reply = c.reply /\ c2.i = c.i + 1
  <2> DEFINE j == c.i + 1
  <2>1. j \in Nat
    <3>1. c.i \in Nat
      BY <1>2 DEF CallType
    <3> QED BY ONLY <3>1
  <2>2. c2 = [c EXCEPT !.args = Null, !.result = Null, !.fault = FALSE, !.ran = ran2,
                       !.pc = "loop", !.i = j]
    OBVIOUS
  <2> HIDE DEF c, j, c2
  <2>3. /\ c2 \in CallType /\ c2.pc = "loop" /\ c2.args = Null /\ c2.result = Null
        /\ c2.fault = FALSE /\ c2.list = c.list /\ c2.results = c.results /\ c2.shape = c.shape
        /\ c2.params = c.params /\ c2.ran = ran2 /\ c2.reply = c.reply /\ c2.i = j
    BY <1>2, <1>5, <2>1, <2>2 DEF CallType
  <2> QED BY <2>3 DEF j
<1> HIDE DEF c2
<1>7. Progress(c2)
  BY ONLY <1>3, <1>5, <1>6 DEF Progress
<1>8. Control(c2)
  <2>1. c.list # Null
    OBVIOUS
  <2>2. (c.list = Null <=> c.results = Null) /\ c.shape.kind = "multi"
    BY ONLY <1>2, <1>3 DEF Control
  <2>3. c2.i = Len(c2.ran) + 1
    BY ONLY <1>3, <1>5, <1>6
  <2> QED BY ONLY <1>6, <2>1, <2>2, <2>3 DEF Control
<1>9. c.result \in Values \cup {Null} /\ c.args \in Values \cup {Null}
  BY <1>2 DEF CallType
<1>10. ASSUME NEW v \in Values
       PROVE  Owned(c, v) = Owned(c2, v) + One(c.result, v) + One(c.args, v)
  <2>1. OwnArgs(c2) = Null /\ OwnArgs(c) = c.args
    BY <1>6 DEF OwnArgs
  <2>2. One(Null, v) = 0
    BY ValuesAssumption DEF One
  <2> QED BY <1>6, <2>1, <2>2, OneInt DEF Owned
<1>11. /\ HeapType(heap') /\ DOMAIN heap' = DOMAIN heap \cup {f}
       /\ \A v \in DOMAIN heap: heap'[v].tag = heap[v].tag
                                /\ (v # c.results => heap'[v].items = heap[v].items)
       /\ heap'[c.results].items = Append(heap[c.results].items, f)
       /\ heap'[f].tag = (IF c.fault THEN "fault" ELSE "array")
       /\ heap'[f].items = (IF c.result = Null THEN <<>> ELSE <<c.result>>)
       /\ \A v \in Values: RefsOf(heap', v) = RefsOf(heap, v) + One(c.result, v) + One(f, v)
       /\ \A b, d, k, l: \A v \in Values: \A n \in Int:
             Held(Ledger(b, d, heap, k, l), v, n) =>
                Held(Ledger(b, d, heap', k, l), v, n + One(c.result, v) + One(f, v))
  BY DEF Appended, f
<1>12. ASSUME NEW v \in Values
       PROVE  Held(Ledger(call', drops', heap', kept', lost'), v, RefsOf(heap', v))
  <2>1. PICK n \in Int: n = RefsOf(heap, v) /\ Held(Ledger(call, drops, heap, kept, lost), v, n)
    BY CountBefore
  <2>2. call'[t] = c2 /\ \A u \in Threads: u # t => call'[u] = call[u]
    BY <1>1, <1>6, GoFacts
  <2>3. Held(Ledger(call', drops, heap, kept, lost), v, n - Owned(c, v) + Owned(c2, v))
    BY <2>1, <2>2, CallChange
  <2>4. PICK m \in Int: m = n - Owned(c, v) + Owned(c2, v)
    BY <2>1, OwnedInt
  <2>5. Held(Ledger(call', drops', heap, kept, lost), v, m + One(c.result, v) + One(c.args, v))
    <3>1. Held(Ledger(call', drops, heap, kept, lost), v, m)
      BY <2>3, <2>4
    <3>2. drops \in [Threads -> Seq(Values)]
      BY InvFacts
    <3>3. drops[t] = <<>>
      BY <1>1
    <3>5. drops' = [drops EXCEPT ![t] = Both(c.result, c.args)]
      OBVIOUS
    <3> HIDE DEF c
    <3>4. Held(Ledger(call', [drops EXCEPT ![t] = Both(c.result, c.args)], heap, kept, lost), v,
               m + One(c.result, v) + One(c.args, v))
      BY ONLY <1>9, <2>4, <3>1, <3>2, <3>3, t \in Threads, v \in Values, BothDropped
    <3> QED BY <3>4, <3>5
  <2>6. m + One(c.result, v) + One(c.args, v) = n
    BY <1>10, <2>1, <2>4, OwnedInt, OneInt
  <2>7. Held(Ledger(call', drops', heap, kept, lost), v, n)
    BY <2>5, <2>6
  <2>8. Held(Ledger(call', drops', heap', kept, lost), v, n + One(c.result, v) + One(f, v))
    BY ONLY <1>11, <2>1, <2>7, v \in Values
  <2>9. n + One(c.result, v) + One(f, v) = RefsOf(heap', v)
    BY <1>11, <2>1
  <2> QED BY <1>1, <2>8, <2>9
<1>13. Balanced(call', drops', heap', kept', lost')
  BY <1>12 DEF Balanced
<1>14. drops' \in [Threads -> Seq(Values)]
  BY <1>9, BothCases, InvFacts
<1>15. kept' \in DOMAIN heap' /\ heap'[kept'].tag \notin Internal
  BY <1>1, <1>11, InvFacts
<1>16. Typed' /\ UNCHANGED methods
  <2>1. call' \in [Threads -> CallType] /\ lost' \in Seq(Values)
    BY <1>1, <1>6, GoFacts, InvFacts
  <2>2. begun' \in 0..MaxCalls /\ failures' \in 0..MaxFailures
    BY <1>1, Bounds
  <2> QED BY <1>1, <1>11, <1>14, <1>15, <2>1, <2>2, TypeStep DEF IInv
<1>17. call'[t] = c2 /\ \A u \in Threads: u # t => call'[u] = call[u]
  BY <1>1, <1>6, GoFacts
<1>18. Stable(heap, heap', c.results)
  BY <1>11 DEF Stable
<1>19. f \notin DOMAIN heap /\ f \in Values
  BY FreshPlace DEF f
<1>20. Tells(heap', f, e.outcome)
  <2>1. CASE c.fault
    BY <1>4, <1>11, <2>1 DEF Tells, Outcome
  <2>2. CASE ~c.fault
    <3>1. e.outcome = heap[c.result].tag /\ e.outcome # "fault"
      BY <1>3, <1>4, <2>2 DEF Outcome, Internal
    <3>2. heap'[f].tag = "array" /\ heap'[f].items = <<c.result>>
      BY <1>3, <1>11, <2>2
    <3>3. heap'[heap'[f].items[1]].tag = heap[c.result].tag
      <4>1. c.result \in DOMAIN heap
        BY <1>3, <2>2
      <4>2. heap'[c.result].tag = heap[c.result].tag
        BY ONLY <1>11, <4>1
      <4>3. heap'[f].items[1] = c.result
        BY ONLY <3>2
      <4> QED BY ONLY <4>2, <4>3
    <3> QED BY <3>1, <3>2, <3>3 DEF Tells
  <2> QED BY <2>1, <2>2
<1>21. WellMade(heap', f)
  <2>1. CASE c.fault
    BY <1>11, <2>1 DEF WellMade
  <2>2. CASE ~c.fault
    <3>2. heap'[f].tag = "array" /\ heap'[f].items = <<c.result>>
      BY <1>3, <1>11, <2>2
    <3>3. heap'[heap'[f].items[1]].tag \notin Internal
      BY ONLY <1>3, <1>11, <2>2, <3>2
    <3>4. Len(heap'[f].items) = 1
      BY <3>2
    <3> QED BY <3>2, <3>3, <3>4 DEF WellMade
  <2> QED BY <2>1, <2>2
<1>22. Recorded(heap', c.results, ran2)
  <2>1. c.ran \in Seq([name : Names, outcome : Tags])
    BY <1>2 DEF CallType
  <2>2. /\ HeapType(heap) /\ Closed(heap) /\ \A w \in DOMAIN heap: WellMade(heap, w)
    BY InvFacts
  <2>3. /\ c.results \in DOMAIN heap /\ heap[c.results].tag = "results"
        /\ Recorded(heap, c.results, c.ran) /\ e \in [name : Names, outcome : Tags]
    BY <1>3, <1>4
  <2>4. \A w \in DOMAIN heap: heap'[w].tag = heap[w].tag
                              /\ (w # c.results => heap'[w].items = heap[w].items)
    BY ONLY <1>11
  <2>5. heap'[c.results].items = Append(heap[c.results].items, f)
    BY ONLY <1>11
  <2>6. Recorded(heap', c.results, Append(c.ran, e))
    BY ONLY <1>19, <1>20, <2>1, <2>2, <2>3, <2>4, <2>5, RecordedGrows
  <2> QED BY ONLY <2>6 DEF ran2
<1>23. Holding(t, c2, heap')
  <2>1. heap[c.list].tag = "list" /\ Len(heap[c.list].items) = Len(c.shape.elems)
    BY <1>2 DEF Holding
  <2>2. c.list \in DOMAIN heap
    BY VarsAlive, InvFacts
  <2>3. heap'[c.list].tag = "list" /\ Len(heap'[c.list].items) = Len(c.shape.elems)
    BY <1>3, <1>11, <2>1, <2>2
  <2>4. OwnResults(t, heap', c.results)
    BY <1>3, <1>11 DEF OwnResults
  <2> QED BY <1>6, <1>22, <2>3, <2>4 DEF Holding
<1>24. \A v \in DOMAIN heap' \ DOMAIN heap: WellMade(heap', v)
  BY <1>11, <1>21
<1> QED
  BY <1>3, <1>7, <1>8, <1>13, <1>15, <1>16, <1>17, <1>18, <1>23, <1>24, ThreadStep

\* An element's outcome is appended to the results, or there is no memory for it (callOneMethod()).
LEMMA AppendResultKeeps ==
    ASSUME IInv, NEW t \in Threads, AppendResult(t)
    PROVE  IInv'
<1> DEFINE c == call[t]
           e == [name |-> c.name, outcome |-> Outcome(c)]
           done == [c EXCEPT !.args = Null, !.result = Null, !.fault = FALSE, !.ran = Append(@, e)]
           held == IF c.fault THEN <<>> ELSE <<c.result>>
           built == Alloc(t, IF c.fault THEN heap ELSE Incref(heap, c.result), held,
                          IF c.fault THEN "fault" ELSE "array")
<1>1. Ready(t, "returned") /\ c.list # Null /\ c.pc = "returned" /\ UNCHANGED Shared
  BY DEF AppendResult, Ready
<1>2. /\ c \in CallType /\ c.results \in DOMAIN heap /\ c.args # Null
      /\ c.fault <=> c.result = Null
      /\ ~c.fault => c.result \in DOMAIN heap
  BY <1>1, OutcomeFacts, ThreadFacts
<1>3. held = (IF c.result = Null THEN <<>> ELSE <<c.result>>)
      /\ held \o <<c.args>> = Both(c.result, c.args)
  BY <1>2 DEF Both
<1>4. CASE /\ Room(t, 1)
           /\ heap' = [built EXCEPT ![c.results].items = AppendItem(@, Fresh(t))]
           /\ Go(t, [done EXCEPT !.pc = "loop", !.i = @ + 1])
           /\ drops' = [drops EXCEPT ![t] = held \o <<c.args>>]
           /\ UNCHANGED failures
  <2>1. [done EXCEPT !.pc = "loop", !.i = @ + 1]
        = [c EXCEPT !.args = Null, !.result = Null, !.fault = FALSE, !.ran = Append(@, e),
                    !.pc = "loop", !.i = @ + 1]
    BY <1>2 DEF CallType
  <2>2. Appended(heap, heap', Fresh(t), c.results, c.result, IF c.fault THEN "fault" ELSE "array")
    <3>1. Fresh(t) \in Values /\ Fresh(t) \notin DOMAIN heap
      BY <1>4, FreshPlace
    <3>2. (IF c.fault THEN "fault" ELSE "array") \in Tags
      BY DEF Tags
    <3>3. c.result \in DOMAIN heap \cup {Null} /\ HeapType(heap)
      BY <1>2, InvFacts
    <3>4. built = Alloc(t, IF c.result = Null THEN heap ELSE Incref(heap, c.result),
                        IF c.result = Null THEN <<>> ELSE <<c.result>>,
                        IF c.fault THEN "fault" ELSE "array")
      BY <1>2
    <3> HIDE DEF built, c, held
    <3> QED BY <1>2, <1>4, <3>1, <3>2, <3>3, <3>4, AppendedHeap
  <2> HIDE DEF held, done, built
  <2> QED BY <1>1, <1>3, <1>4, <2>1, <2>2, AppendSucceedsKeeps
<1>5. CASE /\ failures < MaxFailures /\ failures' = failures + 1
           /\ Go(t, [done EXCEPT !.pc = "end", !.fault = TRUE])
           /\ drops' = [drops EXCEPT ![t] = held \o <<c.args>>]
           /\ UNCHANGED heap
  <2>1. [done EXCEPT !.pc = "end", !.fault = TRUE]
        = [c EXCEPT !.args = Null, !.result = Null, !.fault = TRUE, !.ran = Append(@, e),
                    !.pc = "end"]
    BY <1>2 DEF CallType
  <2>2. failures' \in 0..MaxFailures
    BY <1>5, Bounds, BoundsAssumption
  <2> HIDE DEF held, done
  <2> QED BY <1>1, <1>3, <1>5, <2>1, <2>2, AppendFailsKeeps
<1> QED BY <1>4, <1>5 DEF AppendResult

-----------------------------------------------------------------------------
\* References are given back

\* Two ledgers that have the same references in other places hold the same.
Matched(M, M2, w, f, g) ==
    /\ \A s \in Holders(M, w): f[s] \in Holders(M2, w) /\ g[f[s]] = s
    /\ \A s \in Holders(M2, w): g[s] \in Holders(M, w) /\ f[g[s]] = s

LEMMA Relabel ==
    ASSUME NEW M, NEW M2, NEW w, NEW f, NEW g, Matched(M, M2, w, f, g), NEW n, Held(M, w, n)
    PROVE  Held(M2, w, n)
<1> DEFINE H == Holders(M, w)
           H2 == Holders(M2, w)
           F == [s \in H |-> f[s]]
<1>0. /\ \A s \in H: f[s] \in H2 /\ g[f[s]] = s
      /\ \A s \in H2: g[s] \in H /\ f[g[s]] = s
      /\ IsFiniteSet(H) /\ Cardinality(H) = n
  BY DEF Held, Matched
<1> HIDE DEF H, H2
<1>1. F \in [H -> H2]
  BY <1>0
<1>2. \A a, b \in H: F[a] = F[b] => a = b
  BY <1>0
<1>3. \A s \in H2: \E r \in H: F[r] = s
  BY <1>0
<1>4. F \in Bijection(H, H2)
  <2> HIDE DEF F
  <2> QED BY <1>1, <1>2, <1>3, Fun_IsBij
<1>5. ExistsBijection(H, H2)
  BY <1>4 DEF ExistsBijection
<1>6. IsFiniteSet(H2) /\ Cardinality(H2) = n
  BY <1>0, <1>5, FS_Bijection
<1> QED BY <1>6 DEF Held, H2

\* What is at a place of a sequence of values.
LEMMA AtSome ==
    ASSUME NEW q \in Seq(Values), NEW w, w # Null, NEW j \in Nat
    PROVE  At(q, j) = w <=> (j \in 1..Len(q) /\ q[j] = w)
<1>1. DOMAIN q = 1..Len(q)
  OBVIOUS
<1> QED BY <1>1 DEF At

SameDrops(d, d2, s) ==
    \A u \in Threads, m \in Nat: s = <<"drop", u, m>> => At(d2[u], m) = At(d[u], m)

\* Where the references to give back are the same, the ledgers are.
LEMMA LedgerSameDrops ==
    ASSUME NEW c, NEW d, NEW h, NEW k, NEW l, NEW d2, NEW s \in Slot,
           SameDrops(d, d2, s)
    PROVE  Ledger(c, d2, h, k, l)[s] = Ledger(c, d, h, k, l)[s]
<1>1. CASE s[1] # "drop"
  BY <1>1 DEF Ledger
<1>2. CASE \E u \in Threads, m \in Nat: s = <<"drop", u, m>>
  <2>1. PICK u \in Threads, m \in Nat: s = <<"drop", u, m>>
    BY <1>2
  <2>2. Ledger(c, d, h, k, l)[s] = At(d[u], m) /\ Ledger(c, d2, h, k, l)[s] = At(d2[u], m)
    BY ONLY <2>1, u \in Threads, m \in Nat, LedgerAt
  <2> QED BY <2>1, <2>2 DEF SameDrops
<1> QED BY <1>1, <1>2, SlotCases DEF Variable

\* The first reference is given back.
LEMMA HeadDropped ==
    ASSUME NEW c, NEW d, NEW d2, NEW h, NEW k, NEW l, NEW t \in Threads,
           \A u \in Threads: u # t => d2[u] = d[u],
           d[t] \in Seq(Values), d[t] # <<>>, d2[t] = Tail(d[t]),
           NEW w \in Values, NEW n \in Int, Held(Ledger(c, d, h, k, l), w, n)
    PROVE  Held(Ledger(c, d2, h, k, l), w, n - One(Head(d[t]), w))
<1> DEFINE M == Ledger(c, d, h, k, l)
           M2 == Ledger(c, d2, h, k, l)
           z == <<"drop", t, 1>>
           M1 == [s \in Slot |-> IF s = z THEN Null ELSE M[s]]
           f == [s \in Slot |-> IF s[1] = "drop" /\ s[2] = t THEN <<"drop", t, s[3] - 1>> ELSE s]
           g == [s \in Slot |-> IF s[1] = "drop" /\ s[2] = t THEN <<"drop", t, s[3] + 1>> ELSE s]
<1>0. w # Null
  BY ValuesAssumption
<1>1. /\ Tail(d[t]) \in Seq(Values) /\ Len(Tail(d[t])) = Len(d[t]) - 1 /\ Len(d[t]) \in Nat
      /\ Len(d[t]) # 0 /\ \A j \in 1..Len(Tail(d[t])): Tail(d[t])[j] = d[t][j + 1]
      /\ Head(d[t]) = d[t][1]
  <2>1. d[t] \in Seq(Values) /\ d[t] # <<>>
    OBVIOUS
  <2> QED BY ONLY <2>1, HeadTailProperties
<1>2. At(d[t], 1) = Head(d[t])
  <2>1. 1 \in DOMAIN d[t]
    BY ONLY <1>1, d[t] \in Seq(Values)
  <2> QED BY <1>1, <2>1 DEF At
<1>3. ASSUME NEW j \in Nat
      PROVE  /\ (At(d[t], j) = w /\ j # 1) => (j - 1 \in Nat /\ At(d2[t], j - 1) = w)
             /\ At(d2[t], j) = w => (At(d[t], j + 1) = w /\ j + 1 # 1)
  <2>0. d[t] \in Seq(Values) /\ d2[t] \in Seq(Values) /\ j + 1 \in Nat
    BY <1>1
  <2>1. At(d[t], j) = w <=> (j \in 1..Len(d[t]) /\ d[t][j] = w)
    BY ONLY <1>0, <2>0, j \in Nat, AtSome
  <2>2. At(d[t], j + 1) = w <=> (j + 1 \in 1..Len(d[t]) /\ d[t][j + 1] = w)
    BY ONLY <1>0, <2>0, AtSome
  <2>3. At(d2[t], j) = w <=> (j \in 1..Len(d2[t]) /\ d2[t][j] = w)
    BY ONLY <1>0, <2>0, j \in Nat, AtSome
  <2>4. (At(d[t], j) = w /\ j # 1) => (j - 1 \in Nat /\ At(d2[t], j - 1) = w)
    <3> SUFFICES ASSUME At(d[t], j) = w, j # 1
                 PROVE  j - 1 \in Nat /\ At(d2[t], j - 1) = w
      OBVIOUS
    <3>1. j - 1 \in Nat /\ j - 1 \in 1..Len(Tail(d[t])) /\ (j - 1) + 1 = j
      BY <1>1, <2>1
    <3>2. Tail(d[t])[j - 1] = w
      BY <1>1, <2>1, <3>1
    <3>3. j - 1 \in 1..Len(d2[t]) /\ d2[t][j - 1] = w
      BY <3>1, <3>2
    <3>4. At(d2[t], j - 1) = w
      BY ONLY <1>0, <2>0, <3>1, <3>3, AtSome
    <3> QED BY <3>1, <3>4
  <2>5. At(d2[t], j) = w => (At(d[t], j + 1) = w /\ j + 1 # 1)
    BY <1>1, <2>2, <2>3
  <2> QED BY <2>4, <2>5
<1>4. z \in Slot /\ M[z] = Head(d[t])
  BY <1>2, LedgerAt
<1>5. Held(M1, w, n - One(M[z], w) + One(M1[z], w))
  <2>1. \A s \in Slot: s # z => M1[s] = M[s]
    OBVIOUS
  <2> HIDE DEF M, M1, z
  <2> QED BY <1>4, <2>1, OneSlot DEF M
<1>6. n - One(M[z], w) + One(M1[z], w) = n - One(Head(d[t]), w)
  <2>1. M1[z] = Null
    BY <1>4
  <2> QED BY <1>0, <1>4, <2>1, OneInt DEF One
<1>7. ASSUME NEW s \in Slot, ~\E j \in Nat: s = <<"drop", t, j>>
       PROVE  M2[s] = M[s]
  <2>1. SameDrops(d, d2, s)
    BY <1>7 DEF SameDrops
  <2> QED BY ONLY <2>1, s \in Slot, LedgerSameDrops
<1>8. ASSUME NEW s \in Holders(M1, w)
      PROVE  f[s] \in Holders(M2, w) /\ g[f[s]] = s
  <2>1. s \in Slot /\ M[s] = w /\ s # z
    BY <1>0 DEF Holders
  <2>2. CASE \E j \in Nat: s = <<"drop", t, j>>
    <3>1. PICK j \in Nat: s = <<"drop", t, j>>
      BY <2>2
    <3>2. M[s] = At(d[t], j)
      BY ONLY <3>1, t \in Threads, j \in Nat, LedgerAt
    <3>3. j - 1 \in Nat /\ At(d2[t], j - 1) = w
      BY <1>3, <2>1, <3>1, <3>2
    <3>4. <<"drop", t, j - 1>> \in Slot /\ M2[<<"drop", t, j - 1>>] = At(d2[t], j - 1)
      BY ONLY <3>3, t \in Threads, LedgerAt
    <3>5. f[s] = <<"drop", t, j - 1>>
      BY <2>1, <3>1
    <3>6. g[<<"drop", t, j - 1>>] = <<"drop", t, (j - 1) + 1>>
      BY <3>4
    <3>7. (j - 1) + 1 = j
      OBVIOUS
    <3> HIDE DEF f, g, M2
    <3> QED BY <3>1, <3>3, <3>4, <3>5, <3>6, <3>7 DEF Holders
  <2>3. CASE ~\E j \in Nat: s = <<"drop", t, j>>
    <3>1. ~(s[1] = "drop" /\ s[2] = t)
      BY <2>1, <2>3, SlotCases DEF Variable
    <3>2. f[s] = s /\ g[s] = s
      BY <2>1, <3>1
    <3>4. M2[s] = M[s]
      BY <1>7, <2>1, <2>3
    <3> HIDE DEF f, g, M, M2
    <3> QED BY <2>1, <3>2, <3>4 DEF Holders
  <2> QED BY <2>2, <2>3
<1>9. ASSUME NEW s \in Holders(M2, w)
      PROVE  g[s] \in Holders(M1, w) /\ f[g[s]] = s
  <2>1. s \in Slot /\ M2[s] = w
    BY DEF Holders
  <2>2. CASE \E j \in Nat: s = <<"drop", t, j>>
    <3>1. PICK j \in Nat: s = <<"drop", t, j>>
      BY <2>2
    <3>2. M2[s] = At(d2[t], j)
      BY ONLY <3>1, t \in Threads, j \in Nat, LedgerAt
    <3>3. At(d[t], j + 1) = w /\ j + 1 \in Nat /\ j + 1 # 1
      BY <1>3, <2>1, <3>2
    <3>4. <<"drop", t, j + 1>> \in Slot /\ M[<<"drop", t, j + 1>>] = At(d[t], j + 1)
      BY ONLY <3>3, t \in Threads, LedgerAt
    <3>5. g[s] = <<"drop", t, j + 1>>
      BY <2>1, <3>1
    <3>6. f[<<"drop", t, j + 1>>] = <<"drop", t, (j + 1) - 1>>
      BY <3>4
    <3>7. (j + 1) - 1 = j
      OBVIOUS
    <3>8. M1[<<"drop", t, j + 1>>] = w
      <4>1. <<"drop", t, j + 1>> # z
        BY <3>3
      <4> HIDE DEF M, z
      <4> QED BY <3>3, <3>4, <4>1
    <3> HIDE DEF f, g, M1
    <3> QED BY <3>1, <3>4, <3>5, <3>6, <3>7, <3>8 DEF Holders
  <2>3. CASE ~\E j \in Nat: s = <<"drop", t, j>>
    <3>1. ~(s[1] = "drop" /\ s[2] = t)
      BY <2>1, <2>3, SlotCases DEF Variable
    <3>2. f[s] = s /\ g[s] = s
      BY <2>1, <3>1
    <3>4. M2[s] = M[s]
      BY <1>7, <2>1, <2>3
    <3>5. s # z
      BY <2>3
    <3> HIDE DEF f, g, M, M2, z
    <3> QED BY <2>1, <3>2, <3>4, <3>5 DEF Holders
  <2> QED BY <2>2, <2>3
<1> HIDE DEF M, M1, M2, f, g, z
<1>10. Held(M1, w, n - One(Head(d[t]), w))
  BY <1>5, <1>6
<1>11. Held(M2, w, n - One(Head(d[t]), w))
  <2>1. Matched(M1, M2, w, f, g)
    BY <1>8, <1>9 DEF Matched
  <2> QED BY ONLY <1>10, <2>1, Relabel
<1> QED BY <1>11 DEF M2

\* The places of w in a sequence after another.
Joined(a, b, w, j) ==
    /\ At(a, j) = w => (At(a \o b, j) = w /\ j <= Len(a))
    /\ At(b, j) = w =>
          (At(a \o b, j + Len(a)) = w /\ j + Len(a) \in Nat /\ ~(j + Len(a) <= Len(a)))
    /\ (At(a \o b, j) = w /\ j <= Len(a)) => At(a, j) = w
    /\ (At(a \o b, j) = w /\ ~(j <= Len(a))) =>
          (At(b, j - Len(a)) = w /\ j - Len(a) \in Nat)

\* The places of w in two sequences are those in the sequence that joins them.
LEMMA ConcatAt ==
    ASSUME NEW a \in Seq(Values), NEW b \in Seq(Values), NEW w, w # Null, NEW j \in Nat
    PROVE  Joined(a, b, w, j)
<1> DEFINE q == a \o b
           n == Len(a)
           m == Len(b)
<1>1. /\ q \in Seq(Values) /\ Len(q) = n + m /\ n \in Nat /\ m \in Nat
      /\ \A i \in 1..n + m: q[i] = IF i <= n THEN a[i] ELSE b[i - n]
  BY ConcatProperties
<1> HIDE DEF q
<1>2. \A i \in Nat: At(q, i) = w <=> (i \in 1..Len(q) /\ q[i] = w)
  BY <1>1, AtSome
<1>3. \A i \in Nat: At(a, i) = w <=> (i \in 1..n /\ a[i] = w)
  BY AtSome
<1>4. \A i \in Nat: At(b, i) = w <=> (i \in 1..m /\ b[i] = w)
  BY AtSome
<1> HIDE DEF n, m
<1>5. At(a, j) = w => (At(q, j) = w /\ j <= n)
  <2> SUFFICES ASSUME At(a, j) = w PROVE At(q, j) = w /\ j <= n
    OBVIOUS
  <2>1. j \in 1..n /\ a[j] = w
    BY <1>3
  <2>2. j \in 1..n + m /\ q[j] = w
    BY <1>1, <2>1
  <2> QED BY <1>1, <1>2, <2>1, <2>2
<1>6. At(b, j) = w => (At(q, j + n) = w /\ j + n \in Nat /\ ~(j + n <= n))
  <2> SUFFICES ASSUME At(b, j) = w
               PROVE  At(q, j + n) = w /\ j + n \in Nat /\ ~(j + n <= n)
    OBVIOUS
  <2>1. j \in 1..m /\ b[j] = w
    BY <1>4
  <2>2. j + n \in Nat /\ j + n \in 1..n + m /\ ~(j + n <= n) /\ (j + n) - n = j
    BY <1>1, <2>1
  <2>3. q[j + n] = w
    BY <1>1, <2>1, <2>2
  <2> QED BY <1>1, <1>2, <2>2, <2>3
<1>7. (At(q, j) = w /\ j <= n) => At(a, j) = w
  <2> SUFFICES ASSUME At(q, j) = w, j <= n PROVE At(a, j) = w
    OBVIOUS
  <2>1. j \in 1..n + m /\ q[j] = w
    BY <1>1, <1>2
  <2>2. a[j] = w /\ j \in 1..n
    BY <1>1, <2>1
  <2> QED BY <1>3, <2>2
<1>8. (At(q, j) = w /\ ~(j <= n)) => (At(b, j - n) = w /\ j - n \in Nat)
  <2> SUFFICES ASSUME At(q, j) = w, ~(j <= n) PROVE At(b, j - n) = w /\ j - n \in Nat
    OBVIOUS
  <2>1. j \in 1..n + m /\ q[j] = w
    BY <1>1, <1>2
  <2>2. b[j - n] = w /\ j - n \in 1..m /\ j - n \in Nat
    BY <1>1, <2>1
  <2> QED BY <1>4, <2>2
<1> QED BY <1>5, <1>6, <1>7, <1>8 DEF q, n, Joined

\* The items a of v move to the thread's references to give back, before b.
Moved(d, d2, h, h2, t, v, a, b) ==
    /\ \A u \in Threads: u # t => d2[u] = d[u]
    /\ v \in DOMAIN h /\ a = h[v].items /\ d[t] = b /\ d2[t] = a \o b
    /\ \A u, m: u # v => ItemAt(h2, u, m) = ItemAt(h, u, m)
    /\ \A m: ItemAt(h2, v, m) = Null

\* A value is destroyed: the references to its items are the thread's to give back.
LEMMA ItemsMoved ==
    ASSUME NEW c, NEW d, NEW d2, NEW h, NEW h2, NEW k, NEW l, NEW t \in Threads,
           NEW v \in Values, NEW a \in Seq(Values), NEW b \in Seq(Values),
           Moved(d, d2, h, h2, t, v, a, b),
           NEW w \in Values, NEW n, Held(Ledger(c, d, h, k, l), w, n)
    PROVE  Held(Ledger(c, d2, h2, k, l), w, n)
<1> DEFINE M == Ledger(c, d, h, k, l)
           M2 == Ledger(c, d2, h2, k, l)
           p == Len(a)
           f == [s \in Slot |-> IF s[1] = "drop" /\ s[2] = t THEN <<"drop", t, s[3] + p>>
                                ELSE IF s[1] = "item" /\ s[2] = v THEN <<"drop", t, s[3]>> ELSE s]
           g == [s \in Slot |-> IF s[1] = "drop" /\ s[2] = t
                                THEN IF s[3] <= p THEN <<"item", v, s[3]>>
                                                  ELSE <<"drop", t, s[3] - p>>
                                ELSE s]
<1>1. \A u \in Threads: u # t => d2[u] = d[u]
  BY DEF Moved
<1>2. d[t] = b /\ d2[t] = a \o b
  BY DEF Moved
<1>3. v \in DOMAIN h /\ a = h[v].items
  BY DEF Moved
<1>4. \A u, m: u # v => ItemAt(h2, u, m) = ItemAt(h, u, m)
  BY DEF Moved
<1>5. \A m: ItemAt(h2, v, m) = Null
  BY DEF Moved
<1>6. w # Null
  BY ValuesAssumption
<1>7. p \in Nat
  OBVIOUS
<1>8. \A j \in Nat:
         /\ At(a, j) = w => (At(d2[t], j) = w /\ j <= p)
         /\ At(b, j) = w => (At(d2[t], j + p) = w /\ j + p \in Nat /\ ~(j + p <= p))
         /\ (At(d2[t], j) = w /\ j <= p) => At(a, j) = w
         /\ (At(d2[t], j) = w /\ ~(j <= p)) => (At(b, j - p) = w /\ j - p \in Nat)
  <2>1. \A j \in Nat: Joined(a, b, w, j)
    BY <1>6, ConcatAt
  <2> QED BY ONLY <1>2, <2>1 DEF Joined
<1> HIDE DEF p
<1>9. ASSUME NEW j \in Nat
      PROVE  /\ <<"drop", t, j>> \in Slot /\ M[<<"drop", t, j>>] = At(b, j)
             /\ M2[<<"drop", t, j>>] = At(d2[t], j)
  <2>1. M[<<"drop", t, j>>] = At(d[t], j) /\ M2[<<"drop", t, j>>] = At(d2[t], j)
        /\ <<"drop", t, j>> \in Slot
    BY ONLY t \in Threads, j \in Nat, LedgerAt
  <2> QED BY ONLY <1>2, <2>1
<1>10. ASSUME NEW j \in Nat
      PROVE  /\ <<"item", v, j>> \in Slot /\ M[<<"item", v, j>>] = At(a, j)
             /\ M2[<<"item", v, j>>] = Null
  <2>0. v \in Values
    OBVIOUS
  <2>1. M[<<"item", v, j>>] = ItemAt(h, v, j) /\ M2[<<"item", v, j>>] = ItemAt(h2, v, j)
        /\ <<"item", v, j>> \in Slot
    BY ONLY <2>0, j \in Nat, LedgerAt
  <2>2. ItemAt(h, v, j) = At(a, j)
    BY ONLY <1>3 DEF ItemAt
  <2>3. ItemAt(h2, v, j) = Null
    BY ONLY <1>5
  <2> QED BY ONLY <2>1, <2>2, <2>3
<1>11. ASSUME NEW s \in Slot, ~\E j \in Nat: s = <<"drop", t, j>>,
             ~\E j \in Nat: s = <<"item", v, j>>
      PROVE  M2[s] = M[s]
  <2> DEFINE M1 == Ledger(c, d2, h, k, l)
  <2>1. SameDrops(d, d2, s)
    BY <1>11, <1>1 DEF SameDrops
  <2>2. M1[s] = M[s]
    BY ONLY <2>1, s \in Slot, LedgerSameDrops
  <2>3. \A u \in Values, m \in Nat: s = <<"item", u, m>> => ItemAt(h2, u, m) = ItemAt(h, u, m)
    <3> SUFFICES ASSUME NEW u \in Values, NEW m \in Nat, s = <<"item", u, m>>
                 PROVE  ItemAt(h2, u, m) = ItemAt(h, u, m)
      OBVIOUS
    <3>1. u # v
      BY <1>11
    <3> QED BY ONLY <1>4, <3>1
  <2>4. M2[s] = M1[s]
    BY ONLY <2>3, s \in Slot, LedgerSameItems
  <2> QED BY <2>2, <2>4
<1>12. ASSUME NEW s \in Slot, ~\E j \in Nat: s = <<"drop", t, j>>
      PROVE  ~(s[1] = "drop" /\ s[2] = t)
  BY <1>12, SlotCases DEF Variable
<1>13. ASSUME NEW s \in Slot, ~\E j \in Nat: s = <<"item", v, j>>
      PROVE  ~(s[1] = "item" /\ s[2] = v)
  BY <1>13, SlotCases DEF Variable
<1> HIDE DEF M, M2
<1>14. ASSUME NEW s \in Slot, M[s] = w
      PROVE  f[s] \in Slot /\ M2[f[s]] = w /\ g[f[s]] = s
  <2>1. CASE \E j \in Nat: s = <<"drop", t, j>>
    <3>1. PICK j \in Nat: s = <<"drop", t, j>>
      BY <2>1
    <3>2. At(b, j) = w
      BY <1>9, <1>14, <3>1
    <3>3. At(d2[t], j + p) = w /\ j + p \in Nat /\ ~(j + p <= p) /\ (j + p) - p = j
      BY <1>7, <1>8, <3>2
    <3>4. <<"drop", t, j + p>> \in Slot /\ M2[<<"drop", t, j + p>>] = w
      BY <1>9, <3>3
    <3>5. f[s] = <<"drop", t, j + p>>
      BY <3>1
    <3>6. g[<<"drop", t, j + p>>] = <<"drop", t, (j + p) - p>>
      BY <3>3, <3>4
    <3> HIDE DEF f, g
    <3> QED BY <3>1, <3>3, <3>4, <3>5, <3>6
  <2>2. CASE \E j \in Nat: s = <<"item", v, j>>
    <3>1. PICK j \in Nat: s = <<"item", v, j>>
      BY <2>2
    <3>2. At(a, j) = w
      BY <1>10, <1>14, <3>1
    <3>3. At(d2[t], j) = w /\ j <= p
      BY <1>8, <3>2
    <3>4. <<"drop", t, j>> \in Slot /\ M2[<<"drop", t, j>>] = w
      BY <1>9, <3>3
    <3>5. f[s] = <<"drop", t, j>>
      BY <3>1
    <3>6. g[<<"drop", t, j>>] = <<"item", v, j>>
      BY <3>3, <3>4
    <3> HIDE DEF f, g
    <3> QED BY <3>1, <3>4, <3>5, <3>6
  <2>3. CASE ~(\E j \in Nat: s = <<"drop", t, j>>) /\ ~(\E j \in Nat: s = <<"item", v, j>>)
    <3>1. ~(s[1] = "drop" /\ s[2] = t) /\ ~(s[1] = "item" /\ s[2] = v)
      BY <1>12, <1>13, <2>3
    <3>2. f[s] = s /\ g[s] = s
      BY <3>1
    <3>3. M2[s] = M[s]
      BY <1>11, <2>3
    <3> HIDE DEF f, g
    <3> QED BY <1>14, <3>2, <3>3
  <2> QED BY <2>1, <2>2, <2>3
<1>15. ASSUME NEW s \in Slot, M2[s] = w
      PROVE  g[s] \in Slot /\ M[g[s]] = w /\ f[g[s]] = s
  <2>1. CASE \E j \in Nat: s = <<"drop", t, j>>
    <3>1. PICK j \in Nat: s = <<"drop", t, j>>
      BY <2>1
    <3>2. At(d2[t], j) = w
      BY <1>9, <1>15, <3>1
    <3>3. CASE j <= p
      <4>1. At(a, j) = w
        BY <1>8, <3>2, <3>3
      <4>2. <<"item", v, j>> \in Slot /\ M[<<"item", v, j>>] = w
        BY <1>10, <4>1
      <4>3. g[s] = <<"item", v, j>>
        BY <3>1, <3>3
      <4>4. f[<<"item", v, j>>] = <<"drop", t, j>>
        BY <4>2
      <4> HIDE DEF f, g
      <4> QED BY <3>1, <4>2, <4>3, <4>4
    <3>4. CASE ~(j <= p)
      <4>1. At(b, j - p) = w /\ j - p \in Nat /\ (j - p) + p = j
        BY <1>7, <1>8, <3>2, <3>4
      <4>2. <<"drop", t, j - p>> \in Slot /\ M[<<"drop", t, j - p>>] = w
        BY <1>9, <4>1
      <4>3. g[s] = <<"drop", t, j - p>>
        BY <3>1, <3>4
      <4>4. f[<<"drop", t, j - p>>] = <<"drop", t, (j - p) + p>>
        BY <4>2
      <4> HIDE DEF f, g
      <4> QED BY <3>1, <4>1, <4>2, <4>3, <4>4
    <3> QED BY <3>3, <3>4
  <2>2. CASE \E j \in Nat: s = <<"item", v, j>>
    BY <1>6, <1>10, <1>15, <2>2
  <2>3. CASE ~(\E j \in Nat: s = <<"drop", t, j>>) /\ ~(\E j \in Nat: s = <<"item", v, j>>)
    <3>1. ~(s[1] = "drop" /\ s[2] = t) /\ ~(s[1] = "item" /\ s[2] = v)
      BY <1>12, <1>13, <2>3
    <3>2. f[s] = s /\ g[s] = s
      BY <3>1
    <3>3. M2[s] = M[s]
      BY <1>11, <2>3
    <3> HIDE DEF f, g
    <3> QED BY <1>15, <3>2, <3>3
  <2> QED BY <2>1, <2>2, <2>3
<1> HIDE DEF f, g
<1>16. \A s \in Holders(M, w): f[s] \in Holders(M2, w) /\ g[f[s]] = s
  BY <1>14 DEF Holders
<1>17. \A s \in Holders(M2, w): g[s] \in Holders(M, w) /\ f[g[s]] = s
  BY <1>15 DEF Holders
<1>18. Held(M, w, n)
  BY DEF M
<1>19. Held(M2, w, n)
  <2>1. Matched(M, M2, w, f, g)
    BY <1>16, <1>17 DEF Matched
  <2> QED BY ONLY <1>18, <2>1, Relabel
<1> QED BY <1>19 DEF M2

\* A reference is given back and others remain.
LEMMA DecrementKeeps ==
    ASSUME IInv, NEW t \in Threads, drops[t] # <<>>, ~Died(heap, Head(drops[t])),
           heap' = [heap EXCEPT ![Head(drops[t])].refs = @ - 1],
           drops' = [drops EXCEPT ![t] = Tail(@)],
           UNCHANGED <<setup, kept, call, lost, begun, failures>>
    PROVE  IInv'
<1> DEFINE q == drops[t]
           v == Head(q)
           c == call[t]
<1>1. q \in Seq(Values) /\ q # <<>>
  BY InvFacts
<1>2. v \in Values /\ Tail(q) \in Seq(Values) /\ v = q[1] /\ 1 \in DOMAIN q
  <2> HIDE DEF q
  <2>1. Head(q) \in Values /\ Tail(q) \in Seq(Values)
    BY <1>1, HeadTailProperties
  <2>2. Head(q) = q[1] /\ Len(q) # 0 /\ Len(q) \in Nat
    BY ONLY <1>1
  <2>3. 1 \in DOMAIN q
    BY ONLY <1>1, <2>2
  <2> QED BY <2>1, <2>2, <2>3
<1>3. v \in DOMAIN heap
  BY <1>2, InvFacts
<1>4. heap[v] \in ValueType /\ heap[v].refs # 1
  BY <1>3, InvFacts DEF HeapType, Died
<1>5. heap' = [heap EXCEPT ![v] = [heap[v] EXCEPT !.refs = heap[v].refs - 1]]
  OBVIOUS
<1> HIDE DEF v
<1>6. [heap[v] EXCEPT !.refs = heap[v].refs - 1] \in ValueType
      /\ [heap[v] EXCEPT !.refs = heap[v].refs - 1].items = heap[v].items
      /\ [heap[v] EXCEPT !.refs = heap[v].refs - 1].tag = heap[v].tag
      /\ [heap[v] EXCEPT !.refs = heap[v].refs - 1].refs = heap[v].refs - 1
  BY <1>4 DEF ValueType
<1>7. DOMAIN heap' = DOMAIN heap /\ HeapType(heap')
  <2>1. heap \in [DOMAIN heap -> ValueType] /\ DOMAIN heap \subseteq Values
    BY InvFacts DEF HeapType
  <2>2. DOMAIN heap' = DOMAIN heap
    BY ONLY <1>5, <2>1
  <2>3. heap' \in [DOMAIN heap -> ValueType]
    BY ONLY <1>5, <1>6, <2>1
  <2> QED BY ONLY <2>1, <2>2, <2>3 DEF HeapType
<1>8. /\ \A w \in DOMAIN heap: heap'[w].items = heap[w].items /\ heap'[w].tag = heap[w].tag
      /\ \A w \in DOMAIN heap: w # v => heap'[w] = heap[w]
      /\ heap'[v].refs = heap[v].refs - 1
  BY ONLY <1>3, <1>5, <1>6
<1>9. Stable(heap, heap', Null)
  BY <1>8 DEF Stable
<1>10. \A w \in Values, m \in Nat: ItemAt(heap', w, m) = ItemAt(heap, w, m)
  BY ONLY <1>7, <1>8 DEF ItemAt
<1>11. ASSUME NEW w \in Values
       PROVE  RefsOf(heap', w) = RefsOf(heap, w) - One(v, w)
  <2>1. CASE w = v
    BY <1>3, <1>7, <1>8, <2>1 DEF RefsOf, One
  <2>2. CASE w # v
    <3>1. RefsOf(heap', w) = RefsOf(heap, w)
      BY ONLY <1>7, <1>8, <2>2 DEF RefsOf
    <3>2. RefsOf(heap, w) \in Int
      BY RefsInt, InvFacts
    <3> QED BY <2>2, <3>1, <3>2 DEF One
  <2> QED BY <2>1, <2>2
<1>12. /\ \A u \in Threads: u # t => drops'[u] = drops[u]
       /\ drops'[t] = Tail(q)
       /\ drops' \in [Threads -> Seq(Values)]
  BY <1>2, InvFacts
<1>13. ASSUME NEW w \in Values
       PROVE  Held(Ledger(call', drops', heap', kept', lost'), w, RefsOf(heap', w))
  <2>1. PICK n \in Int: n = RefsOf(heap, w) /\ Held(Ledger(call, drops, heap, kept, lost), w, n)
    BY CountBefore
  <2>2. Held(Ledger(call, drops', heap, kept, lost), w, n - One(Head(drops[t]), w))
    <3>1. drops[t] \in Seq(Values) /\ drops[t] # <<>> /\ drops'[t] = Tail(drops[t])
      BY <1>1, <1>12
    <3>2. \A u \in Threads: u # t => drops'[u] = drops[u]
      BY <1>12
    <3> QED BY ONLY <2>1, <3>1, <3>2, t \in Threads, w \in Values, HeadDropped
  <2>3. n - One(Head(drops[t]), w) = RefsOf(heap', w)
    BY <1>11, <2>1 DEF v
  <2>4. Held(Ledger(call, drops', heap, kept, lost), w, RefsOf(heap', w))
    BY <2>2, <2>3
  <2>5. Held(Ledger(call, drops', heap', kept, lost), w, RefsOf(heap', w))
    BY ONLY <1>10, <2>4, ItemsSame
  <2> QED BY <2>5
<1>14. kept' \in DOMAIN heap' /\ heap'[kept'].tag \notin Internal
  BY <1>7, <1>8, InvFacts
<1>15. c \in CallType /\ Progress(c) /\ Control(c)
  BY ThreadFacts
<1>16. Go(t, c)
  BY InvFacts DEF Go
<1>17. \A w \in DOMAIN heap' \ DOMAIN heap: WellMade(heap', w)
  BY <1>7
<1> QED
  BY <1>7, <1>9, <1>12, <1>13, <1>14, <1>15, <1>16, <1>17, InvFacts, Bounds, GrowStep

\* The last reference to a value is given back.
LEMMA DestroyKeeps ==
    ASSUME IInv, NEW t \in Threads, drops[t] # <<>>, Died(heap, Head(drops[t])),
           heap' = [w \in DOMAIN heap \ {Head(drops[t])} |-> heap[w]],
           drops' = [drops EXCEPT ![t] = heap[Head(drops[t])].items \o Tail(@)],
           UNCHANGED <<setup, kept, call, lost, begun, failures>>
    PROVE  IInv'
<1> DEFINE q == drops[t]
           v == Head(q)
           a == heap[v].items
           d1 == [drops EXCEPT ![t] = Tail(q)]
<1>1. q \in Seq(Values) /\ q # <<>>
  BY InvFacts
<1>2. v \in Values /\ Tail(q) \in Seq(Values) /\ v = q[1] /\ 1 \in DOMAIN q
  <2> HIDE DEF q
  <2>1. Head(q) \in Values /\ Tail(q) \in Seq(Values)
    BY <1>1, HeadTailProperties
  <2>2. Head(q) = q[1] /\ Len(q) # 0 /\ Len(q) \in Nat
    BY ONLY <1>1
  <2>3. 1 \in DOMAIN q
    BY ONLY <1>1, <2>2
  <2> QED BY <2>1, <2>2, <2>3
<1>3. v \in DOMAIN heap
  BY <1>2, InvFacts
<1>4. heap[v] \in ValueType /\ heap[v].refs = 1 /\ a \in Seq(Values)
  BY <1>3, InvFacts DEF HeapType, Died, ValueType
<1>5. /\ DOMAIN heap' = DOMAIN heap \ {v}
      /\ \A w \in DOMAIN heap': heap'[w] = heap[w]
  OBVIOUS
<1>6. HeapType(heap')
  <2>1. heap' = [w \in DOMAIN heap' |-> heap'[w]]
    BY <1>5
  <2>2. \A w \in DOMAIN heap': heap'[w] \in ValueType
    BY <1>5, InvFacts DEF HeapType
  <2>3. heap' \in [DOMAIN heap' -> ValueType]
    BY ONLY <2>1, <2>2
  <2>4. DOMAIN heap' \subseteq Values
    BY <1>5, InvFacts DEF HeapType
  <2> QED BY <2>3, <2>4 DEF HeapType
<1>7. /\ \A u \in Threads: u # t => d1[u] = drops[u] /\ drops'[u] = d1[u]
      /\ d1[t] = Tail(q) /\ drops'[t] = a \o Tail(q)
  BY InvFacts
<1>8. a \o Tail(q) \in Seq(Values)
  <2> HIDE DEF a, q
  <2> QED BY <1>2, <1>4, ConcatProperties
<1>9. drops' \in [Threads -> Seq(Values)]
  BY <1>8, InvFacts
<1>10. Stable(heap, heap', Null)
  BY <1>5 DEF Stable
<1> HIDE DEF v, a, d1
<1>11. /\ \A w, m: w # v => ItemAt(heap', w, m) = ItemAt(heap, w, m)
       /\ \A m: ItemAt(heap', v, m) = Null
  BY <1>5 DEF ItemAt
<1>12. ASSUME NEW w \in Values
       PROVE  RefsOf(heap', w) = RefsOf(heap, w) - One(v, w)
  <2>1. CASE w = v
    BY <1>3, <1>4, <1>5, <2>1 DEF RefsOf, One
  <2>2. CASE w # v
    <3>1. RefsOf(heap', w) = RefsOf(heap, w)
      BY <1>5, <2>2 DEF RefsOf
    <3>2. RefsOf(heap, w) \in Int
      BY RefsInt, InvFacts
    <3> QED BY <2>2, <3>1, <3>2 DEF One
  <2> QED BY <2>1, <2>2
<1>13. ASSUME NEW w \in Values
       PROVE  Held(Ledger(call', drops', heap', kept', lost'), w, RefsOf(heap', w))
  <2>1. PICK n \in Int: n = RefsOf(heap, w) /\ Held(Ledger(call, drops, heap, kept, lost), w, n)
    BY CountBefore
  <2>2. Held(Ledger(call, d1, heap, kept, lost), w, n - One(Head(drops[t]), w))
    <3>1. drops[t] \in Seq(Values) /\ drops[t] # <<>> /\ d1[t] = Tail(drops[t])
      BY <1>1, <1>7
    <3>2. \A u \in Threads: u # t => d1[u] = drops[u]
      BY <1>7
    <3> QED BY ONLY <2>1, <3>1, <3>2, t \in Threads, w \in Values, HeadDropped
  <2>3. n - One(Head(drops[t]), w) = RefsOf(heap', w)
    BY <1>12, <2>1 DEF v
  <2>4. Held(Ledger(call, d1, heap, kept, lost), w, RefsOf(heap', w))
    BY <2>2, <2>3
  <2>5. Held(Ledger(call, drops', heap', kept, lost), w, RefsOf(heap', w))
    <3>1. \A u \in Threads: u # t => drops'[u] = d1[u]
      BY <1>7
    <3>2. a = heap[v].items
      BY DEF a
    <3>3. d1[t] = Tail(q) /\ drops'[t] = a \o Tail(q) /\ Tail(q) \in Seq(Values)
          /\ a \in Seq(Values) /\ v \in Values
      BY <1>2, <1>4, <1>7
    <3> HIDE DEF q
    <3>4. Moved(d1, drops', heap, heap', t, v, a, Tail(q))
      BY ONLY <1>3, <1>11, <3>1, <3>2, <3>3 DEF Moved
    <3> QED BY ONLY <2>4, <3>3, <3>4, t \in Threads, w \in Values, ItemsMoved
  <2> QED BY <2>5
<1>14. Balanced(call', drops', heap', kept', lost')
  BY <1>13 DEF Balanced
<1>15. call' = call /\ call' \in [Threads -> CallType] /\ lost' \in Seq(Values)
       /\ kept' \in Values
  BY InvFacts
<1>16. /\ Closed(heap') /\ \A u \in Threads: Refers(call'[u], DOMAIN heap')
       /\ kept' \in DOMAIN heap'
  <2>1. kept' \in Values => kept' \in DOMAIN heap'
    BY ONLY <1>6, <1>9, <1>14, <1>15, Alive
  <2>2. Closed(heap') /\ \A u \in Threads: Refers(call'[u], DOMAIN heap')
    BY ONLY <1>6, <1>9, <1>14, <1>15, NextFacts
  <2> QED BY <1>15, <2>1, <2>2
<1>17. Typed' /\ UNCHANGED methods
  BY <1>6, <1>9, <1>15, <1>16, Bounds, TypeStep DEF IInv
<1>18. heap'[kept'].tag \notin Internal
  BY <1>5, <1>16, InvFacts
<1>19. Holding(t, call'[t], heap')
  BY <1>6, <1>10, <1>15, <1>16, OwnHolding
<1>20. Progress(call'[t]) /\ Control(call'[t])
  BY <1>15, ThreadFacts
<1>21. \A w \in DOMAIN heap' \ DOMAIN heap: WellMade(heap', w)
  BY <1>5
<1>22. Null \notin DOMAIN heap
  BY InvFacts
<1> QED
  BY <1>10, <1>14, <1>15, <1>17, <1>18, <1>19, <1>20, <1>21, <1>22, ThreadStep

\* A reference is given back, the last one or not (xmlrpc_DECREF()).
LEMMA DecrefKeeps ==
    ASSUME IInv, NEW t \in Threads, Decref(t)
    PROVE  IInv'
<1>1. CASE Died(heap, Head(drops[t]))
  BY <1>1, DestroyKeeps DEF Decref
<1>2. CASE ~Died(heap, Head(drops[t]))
  BY <1>2, DecrementKeeps DEF Decref
<1> QED BY <1>1, <1>2

-----------------------------------------------------------------------------
\* A call begins

\* A call in which no value is made yet.
Bare(c) ==
    c.params = Null /\ c.list = Null /\ c.results = Null /\ c.result = Null /\ c.args = Null

\* A call without values has no references.
LEMMA BareOwns == ASSUME NEW c, Bare(c), NEW v \in Values PROVE Owned(c, v) = 0
<1>1. OwnArgs(c) = Null
  BY DEF OwnArgs, Bare
<1>2. One(Null, v) = 0
  BY ValuesAssumption DEF One
<1> QED BY <1>1, <1>2 DEF Owned, Bare

\* A thread without values that gets none.
LEMMA BareKeeps ==
    ASSUME IInv, NEW t \in Threads, Ready(t, "idle"), NEW c2 \in CallType, Go(t, c2), Bare(c2),
           Progress(c2), Control(c2), c2.pc = "over" \/ (c2.pc = "returned" /\ c2.fault),
           UNCHANGED <<setup, heap, drops, kept, lost>>,
           begun' \in 0..MaxCalls, failures' \in 0..MaxFailures
    PROVE  IInv'
<1> DEFINE c == call[t]
<1>1. c \in CallType /\ Control(c) /\ c.pc = "idle"
  BY ThreadFacts DEF Ready
<1>2. Bare(c)
  BY <1>1 DEF Control, Bare
<1>3. ASSUME NEW v \in Values
      PROVE  Held(Ledger(call', drops', heap', kept', lost'), v, RefsOf(heap', v))
  <2>1. PICK n \in Int: n = RefsOf(heap, v) /\ Held(Ledger(call, drops, heap, kept, lost), v, n)
    BY CountBefore
  <2>2. call'[t] = c2 /\ \A u \in Threads: u # t => call'[u] = call[u]
    BY GoFacts
  <2>3. Held(Ledger(call', drops, heap, kept, lost), v, n - Owned(c, v) + Owned(c2, v))
    BY <2>1, <2>2, CallChange
  <2>4. n - Owned(c, v) + Owned(c2, v) = n
    <3>1. Owned(c, v) = 0 /\ Owned(c2, v) = 0
      BY <1>2, BareOwns
    <3> QED BY <3>1
  <2> QED BY <2>1, <2>3, <2>4
<1>4. Stable(heap, heap', Null)
  BY StableSame
<1>5. Holding(t, c2, heap')
  <2>1. c2.list = Null /\ c2.pc # "dispatch"
    BY DEF Bare
  <2> QED BY <2>1 DEF Holding
<1>6. UNCHANGED setup /\ lost' \in Seq(Values) /\ drops' \in [Threads -> Seq(Values)]
      /\ kept' \in DOMAIN heap' /\ heap'[kept'].tag \notin Internal /\ HeapType(heap')
      /\ DOMAIN heap \subseteq DOMAIN heap'
  BY InvFacts
<1>7. \A v \in DOMAIN heap' \ DOMAIN heap: WellMade(heap', v)
  OBVIOUS
<1> QED BY <1>3, <1>4, <1>5, <1>6, <1>7, GrowStep

\* Without a response block there is no response.
LEMMA BeginLosesKeeps ==
    ASSUME IInv, NEW t \in Threads, NEW shape \in Calls, Ready(t, "idle"),
           Go(t, [NoCall EXCEPT !.pc = "over", !.shape = shape,
                                !.reply = [kind |-> "nothing", items |-> <<>>]]),
           UNCHANGED <<setup, heap, drops, kept, lost>>,
           begun' \in 0..MaxCalls, failures' \in 0..MaxFailures
    PROVE  IInv'
<1> DEFINE c2 == [NoCall EXCEPT !.pc = "over", !.shape = shape,
                                !.reply = [kind |-> "nothing", items |-> <<>>]]
<1>1. c2 \in CallType
  <2>1. shape \in Shape /\ <<>> \in Seq(Tags)
    BY CallsAssumption
  <2> QED BY <2>1, NoCallType DEF CallType
<1>2. Bare(c2) /\ c2.pc = "over" /\ c2.ran = <<>> /\ c2.reply.kind = "nothing"
      /\ c2.shape = shape
  BY DEF Bare, NoCall
<1> HIDE DEF c2
<1>3. Progress(c2)
  <2>1. shape.elems \in Seq(Names)
    BY CallsAssumption DEF Shape
  <2> QED BY <1>2, <2>1 DEF Progress
<1>4. Control(c2)
  BY <1>2 DEF Control, Bare
<1>5. Go(t, c2)
  BY DEF c2
<1> QED BY <1>1, <1>2, <1>3, <1>4, <1>5, BareKeeps

\* No proper call: a fault.
LEMMA BeginBadKeeps ==
    ASSUME IInv, NEW t \in Threads, NEW shape \in Calls, shape.kind = "bad", Ready(t, "idle"),
           Go(t, [NoCall EXCEPT !.shape = shape, !.fault = TRUE, !.pc = "returned"]),
           UNCHANGED <<setup, heap, drops, kept, lost>>,
           begun' \in 0..MaxCalls, failures' \in 0..MaxFailures
    PROVE  IInv'
<1> DEFINE c2 == [NoCall EXCEPT !.shape = shape, !.fault = TRUE, !.pc = "returned"]
<1>1. c2 \in CallType
  <2>1. shape \in Shape
    BY CallsAssumption
  <2> QED BY <2>1, NoCallType DEF CallType
<1>2. Bare(c2) /\ c2.pc = "returned" /\ c2.fault /\ c2.shape = shape
  BY DEF Bare, NoCall
<1> HIDE DEF c2
<1>3. Progress(c2)
  BY <1>2 DEF Progress
<1>4. Control(c2)
  BY <1>2 DEF Control, Bare
<1>5. Go(t, c2)
  BY DEF c2
<1> QED BY <1>1, <1>2, <1>3, <1>4, <1>5, BareKeeps

OnceIn(M, C, x) == \E z \in C: \A s \in C: M[s] = x <=> s = z

\* M2 is M with references at C, where there were none, one to each of S.
Placed(M, M2, S, C) ==
    /\ C \subseteq Slot
    /\ \A s \in Slot \ C: M2[s] = M[s]
    /\ \A s \in C: M[s] = Null /\ M2[s] \in S \cup {Null}
    /\ \A x \in S: Held(M, x, 0) /\ OnceIn(M2, C, x)

\* After references are placed, each new value has one, and the others what they had.
LEMMA OneEach ==
    ASSUME NEW M, NEW M2, NEW S, NEW C, Placed(M, M2, S, C),
           NEW v, v # Null, NEW n, Held(M, v, n)
    PROVE  Held(M2, v, IF v \in S THEN 1 ELSE n)
<1>1. CASE v \in S
  <2>1. PICK z \in C: \A s \in C: M2[s] = v <=> s = z
    BY <1>1 DEF OnceIn, Placed
  <2>2. Holders(M, v) = {}
    BY <1>1, FS_EmptySet DEF Held, Placed
  <2>3. Holders(M2, v) = {z}
    BY <2>1, <2>2 DEF Holders, Placed
  <2>4. IsFiniteSet({z}) /\ Cardinality({z}) = 1
    BY FS_Singleton
  <2>5. Held(M2, v, 1)
    BY ONLY <2>3, <2>4 DEF Held
  <2> QED BY <1>1, <2>5
<1>2. CASE v \notin S
  <2>1. Holders(M2, v) = Holders(M, v)
    BY <1>2 DEF Holders, Placed
  <2> QED BY <1>2, <2>1 DEF Held
<1> QED BY <1>1, <1>2

\* Of the values of a parsed call with n descriptions, the j-th has at m the k-th.
Linked(n, j, m, k) ==
    \/ j \in n + 1..3 * n /\ m = 1 /\ k = j - n
    \/ j = 3 * n + 1 /\ m \in 1..n /\ k = 2 * n + m
    \/ j = 3 * n + 2 /\ m = 1 /\ k = 3 * n + 1

\* Each but the last is at one place of another.
LEMMA LinkedOnce ==
    ASSUME NEW n \in Nat, NEW k \in 1..3 * n + 1
    PROVE  \E j \in 1..3 * n + 2, m \in Nat:
              \A j2 \in 1..3 * n + 2, m2 \in Nat: Linked(n, j2, m2, k) <=> (j2 = j /\ m2 = m)
<1>1. CASE k \in 1..2 * n
  <2>1. n + k \in 1..3 * n + 2 /\ 1 \in Nat
    BY <1>1
  <2>2. \A j2 \in 1..3 * n + 2, m2 \in Nat: Linked(n, j2, m2, k) <=> (j2 = n + k /\ m2 = 1)
    BY <1>1 DEF Linked
  <2> QED BY <2>1, <2>2
<1>2. CASE k \in 2 * n + 1..3 * n
  <2>1. 3 * n + 1 \in 1..3 * n + 2 /\ k - 2 * n \in Nat
    BY <1>2
  <2>2. \A j2 \in 1..3 * n + 2, m2 \in Nat:
           Linked(n, j2, m2, k) <=> (j2 = 3 * n + 1 /\ m2 = k - 2 * n)
    BY <1>2 DEF Linked
  <2> QED BY <2>1, <2>2
<1>3. CASE k = 3 * n + 1
  <2>1. 3 * n + 2 \in 1..3 * n + 2 /\ 1 \in Nat
    OBVIOUS
  <2>2. \A j2 \in 1..3 * n + 2, m2 \in Nat:
           Linked(n, j2, m2, k) <=> (j2 = 3 * n + 2 /\ m2 = 1)
    BY <1>3 DEF Linked
  <2> QED BY <2>1, <2>2
<1> QED BY <1>1, <1>2, <1>3

\* The last value is at no place of another.
LEMMA LinkedLast ==
    ASSUME NEW n \in Nat, NEW j \in 1..3 * n + 2, NEW m \in Nat
    PROVE  ~Linked(n, j, m, 3 * n + 2)
BY DEF Linked

\* The shapes that are made into values.
Sent(shape) == shape \in Shape /\ shape.kind # "bad" /\ (shape.kind = "plain" => Len(shape.elems) = 1)

\* The values of a parsed call, in places after b.
Made(P, t, b, n, shape) ==
    /\ \A k \in 1..n: P[k] = New(<<>>, "sent")
    /\ \A k \in n + 1..2 * n: P[k] = New(<<<<t, b + (k - n)>>>>, "array")
    /\ \A k \in 2 * n + 1..3 * n:
          \E tag \in {"call", "other"}: P[k] = New(<<<<t, b + (k - n)>>>>, tag)
    /\ shape.kind = "plain" => n = 0 /\ P[3 * n + 1] = New(<<>>, "sent")
    /\ shape.kind # "plain" =>
          n = Len(shape.elems)
          /\ P[3 * n + 1] = New([e \in 1..n |-> <<t, b + (2 * n + e)>>], "list")
    /\ P[3 * n + 2] = New(<<<<t, b + (3 * n + 1)>>>>, "array")

\* The values that a call is parsed to are made so.
LEMMA ParsedAt ==
    ASSUME NEW t, NEW b, NEW shape, Sent(shape), NEW n \in Nat, n = Described(shape)
    PROVE  Made(Parsed(t, b, shape), t, b, n, shape)
<1> DEFINE P == Parsed(t, b, shape)
<1>1. P = [k \in 1..3 * n + 2 |->
           CASE k \in 1..n -> New(<<>>, "sent")
             [] k \in n + 1..2 * n -> New(<<<<t, b + (k - n)>>>>, "array")
             [] k \in 2 * n + 1..3 * n ->
                   New(<<<<t, b + (k - n)>>>>,
                       IF shape.elems[k - 2 * n] = "malformed" THEN "other" ELSE "call")
             [] k = 3 * n + 1 ->
                   IF shape.kind = "plain"
                   THEN New(<<>>, "sent")
                   ELSE New([e \in 1..n |-> <<t, b + (2 * n + e)>>], "list")
             [] k = 3 * n + 2 -> New(<<<<t, b + (3 * n + 1)>>>>, "array")]
  BY DEF Parsed
<1> HIDE DEF P
<1>2. shape.kind = "plain" => n = 0
  BY DEF Described
<1>3. shape.kind # "plain" => n = Len(shape.elems)
  BY DEF Described
<1>4. \A k \in 1..n: P[k] = New(<<>>, "sent")
  <2> SUFFICES ASSUME NEW k \in 1..n PROVE P[k] = New(<<>>, "sent")
    OBVIOUS
  <2>1. k \in 1..3 * n + 2 /\ k \notin n + 1..2 * n /\ k \notin 2 * n + 1..3 * n /\ k # 3 * n + 1
        /\ k # 3 * n + 2
    OBVIOUS
  <2> QED BY <1>1, <2>1
<1>5. \A k \in n + 1..2 * n: P[k] = New(<<<<t, b + (k - n)>>>>, "array")
  <2> SUFFICES ASSUME NEW k \in n + 1..2 * n
               PROVE  P[k] = New(<<<<t, b + (k - n)>>>>, "array")
    OBVIOUS
  <2>1. k \in 1..3 * n + 2 /\ k \notin 1..n /\ k \notin 2 * n + 1..3 * n /\ k # 3 * n + 1
        /\ k # 3 * n + 2
    OBVIOUS
  <2> QED BY <1>1, <2>1
<1>6. \A k \in 2 * n + 1..3 * n:
         \E tag \in {"call", "other"}: P[k] = New(<<<<t, b + (k - n)>>>>, tag)
  <2> SUFFICES ASSUME NEW k \in 2 * n + 1..3 * n
               PROVE  \E tag \in {"call", "other"}: P[k] = New(<<<<t, b + (k - n)>>>>, tag)
    OBVIOUS
  <2>1. k \in 1..3 * n + 2 /\ k \notin 1..n /\ k \notin n + 1..2 * n /\ k # 3 * n + 1
        /\ k # 3 * n + 2
    OBVIOUS
  <2>2. P[k] = New(<<<<t, b + (k - n)>>>>,
                   IF shape.elems[k - 2 * n] = "malformed" THEN "other" ELSE "call")
    BY <1>1, <2>1
  <2> QED BY <2>2
<1>7. P[3 * n + 1] = IF shape.kind = "plain"
                     THEN New(<<>>, "sent")
                     ELSE New([e \in 1..n |-> <<t, b + (2 * n + e)>>], "list")
  <2> DEFINE k == 3 * n + 1
  <2>1. k \in 1..3 * n + 2 /\ k \notin 1..n /\ k \notin n + 1..2 * n
        /\ k \notin 2 * n + 1..3 * n /\ k # 3 * n + 2
    OBVIOUS
  <2> QED BY <1>1, <2>1
<1>8. P[3 * n + 2] = New(<<<<t, b + (3 * n + 1)>>>>, "array")
  <2> DEFINE k == 3 * n + 2
  <2>1. k \in 1..3 * n + 2 /\ k \notin 1..n /\ k \notin n + 1..2 * n
        /\ k \notin 2 * n + 1..3 * n /\ k # 3 * n + 1
    OBVIOUS
  <2> QED BY <1>1, <2>1
<1>9. Made(P, t, b, n, shape)
  BY <1>2, <1>3, <1>4, <1>5, <1>6, <1>7, <1>8 DEF Made
<1> QED BY <1>9 DEF P

\* At one place there is one value, and never the last.
LEMMA LinkedTo ==
    ASSUME NEW n \in Nat, NEW j \in 1..3 * n + 2, NEW m \in Nat,
           NEW k \in Int, Linked(n, j, m, k)
    PROVE  k \in 1..3 * n + 1 /\ \A k2 \in Int: Linked(n, j, m, k2) => k2 = k
BY DEF Linked

\* The places of the new values.
Places(t, b, n) == {<<t, b + k>>: k \in 1..3 * n + 2}

\* The places of the new values are free.
LEMMA PlacesFree ==
    ASSUME HeapType(heap), NEW t \in Threads, NEW n \in Nat, NEW b \in Gaps(t, 3 * n + 2)
    PROVE  /\ b \in Nat
           /\ \A k \in 1..3 * n + 2: <<t, b + k>> \in Values /\ <<t, b + k>> \notin DOMAIN heap
<1>1. b \in 0..MaxValues - (3 * n + 2) /\ \A k \in b + 1..b + (3 * n + 2): <<t, k>> \notin DOMAIN heap
  BY DEF Gaps
<1>2. MaxValues \in Nat
  BY BoundsAssumption
<1>3. ASSUME NEW k \in 1..3 * n + 2
      PROVE  b + k \in 1..MaxValues /\ b + k \in b + 1..b + (3 * n + 2)
  BY <1>1, <1>2
<1>4. \A i \in 1..MaxValues: <<t, i>> \in Values
  BY DEF Values
<1> QED BY <1>1, <1>3, <1>4

\* What is at a place of the items of a new value.
LEMMA AtOne == ASSUME NEW x, NEW m \in Nat PROVE At(<<x>>, m) = IF m = 1 THEN x ELSE Null
BY DEF At

\* An empty sequence has nothing at any place.
LEMMA AtNone == ASSUME NEW m PROVE At(<<>>, m) = Null
BY DEF At

\* The values of a parsed call are values.
LEMMA ParsedType ==
    ASSUME HeapType(heap), NEW t \in Threads, NEW shape, Sent(shape),
           NEW n \in Nat, n = Described(shape), NEW b \in Gaps(t, 3 * n + 2),
           NEW P, P = Parsed(t, b, shape), NEW k \in 1..3 * n + 2
    PROVE  P[k] \in ValueType /\ P[k].refs = 1
<1>1. /\ \A i \in 1..n: P[i] = New(<<>>, "sent")
      /\ \A i \in n + 1..2 * n: P[i] = New(<<<<t, b + (i - n)>>>>, "array")
      /\ \A i \in 2 * n + 1..3 * n:
            \E tag \in {"call", "other"}: P[i] = New(<<<<t, b + (i - n)>>>>, tag)
      /\ shape.kind = "plain" => n = 0 /\ P[3 * n + 1] = New(<<>>, "sent")
      /\ shape.kind # "plain" =>
            n = Len(shape.elems)
            /\ P[3 * n + 1] = New([e \in 1..n |-> <<t, b + (2 * n + e)>>], "list")
      /\ P[3 * n + 2] = New(<<<<t, b + (3 * n + 1)>>>>, "array")
  <2>1. Made(P, t, b, n, shape)
    BY ParsedAt
  <2> QED BY <2>1 DEF Made
<1>2. \A i \in 1..3 * n + 2: <<t, b + i>> \in Values
  BY PlacesFree
<1>3. ASSUME NEW items \in Seq(Values), NEW tag \in Tags
      PROVE  New(items, tag) \in ValueType /\ New(items, tag).refs = 1
  BY DEF New, ValueType
<1>4. "sent" \in Tags /\ "array" \in Tags /\ "call" \in Tags /\ "other" \in Tags /\ "list" \in Tags
  BY DEF Tags
<1>5. \A x \in Values: <<x>> \in Seq(Values)
  OBVIOUS
<1>6. <<>> \in Seq(Values)
  OBVIOUS
<1>7. CASE k \in 1..n
  <2>1. P[k] = New(<<>>, "sent")
    BY <1>1, <1>7
  <2> QED BY ONLY <1>3, <1>4, <1>6, <2>1
<1>8. CASE k \in n + 1..2 * n
  <2>1. k - n \in 1..3 * n + 2
    BY <1>8
  <2>2. <<<<t, b + (k - n)>>>> \in Seq(Values)
    BY <1>2, <1>5, <2>1
  <2>3. P[k] = New(<<<<t, b + (k - n)>>>>, "array")
    BY <1>1, <1>8
  <2> QED BY ONLY <1>3, <1>4, <2>2, <2>3
<1>9. CASE k \in 2 * n + 1..3 * n
  <2>1. k - n \in 1..3 * n + 2
    BY <1>9
  <2>2. <<<<t, b + (k - n)>>>> \in Seq(Values)
    BY <1>2, <1>5, <2>1
  <2>3. PICK tag \in {"call", "other"}: P[k] = New(<<<<t, b + (k - n)>>>>, tag)
    BY <1>1, <1>9
  <2> QED BY ONLY <1>3, <1>4, <2>2, <2>3
<1>10. CASE k = 3 * n + 1
  <2>1. CASE shape.kind = "plain"
    <3>1. P[k] = New(<<>>, "sent")
      BY <1>1, <1>10, <2>1
    <3> QED BY ONLY <1>3, <1>4, <1>6, <3>1
  <2>2. CASE shape.kind # "plain"
    <3> DEFINE q == [e \in 1..n |-> <<t, b + (2 * n + e)>>]
    <3>1. \A e \in 1..n: <<t, b + (2 * n + e)>> \in Values
      <4>1. \A e \in 1..n: 2 * n + e \in 1..3 * n + 2
        OBVIOUS
      <4> QED BY <1>2, <4>1
    <3>2. q \in [1..n -> Values]
      BY ONLY <3>1
    <3>3. q \in Seq(Values)
      BY ONLY <3>2, n \in Nat
    <3>4. P[k] = New(q, "list")
      BY <1>1, <1>10, <2>2
    <3> HIDE DEF q
    <3> QED BY <1>3, <1>4, <3>3, <3>4
  <2> QED BY <2>1, <2>2
<1>11. CASE k = 3 * n + 2
  <2>1. 3 * n + 1 \in 1..3 * n + 2
    OBVIOUS
  <2>2. <<<<t, b + (3 * n + 1)>>>> \in Seq(Values)
    BY <1>2, <1>5, <2>1
  <2>3. P[k] = New(<<<<t, b + (3 * n + 1)>>>>, "array")
    BY <1>1, <1>11
  <2> QED BY ONLY <1>3, <1>4, <2>2, <2>3
<1>12. k \in 1..n \/ k \in n + 1..2 * n \/ k \in 2 * n + 1..3 * n \/ k = 3 * n + 1 \/ k = 3 * n + 2
  BY ONLY n \in Nat, k \in 1..3 * n + 2
<1> QED BY <1>7, <1>8, <1>9, <1>10, <1>11, <1>12

\* h is the heap with the values P of a parsed call, in places after b.
Arrived(h, t, b, n, P) ==
    /\ HeapType(h) /\ DOMAIN h = DOMAIN heap \cup Places(t, b, n)
    /\ \A v \in DOMAIN heap: h[v] = heap[v]
    /\ \A k \in 1..3 * n + 2: h[<<t, b + k>>] = P[k] /\ h[<<t, b + k>>].refs = 1

\* Receiving a parsed call adds its values and changes none.
LEMMA ReceivedHeap ==
    ASSUME HeapType(heap), NEW t \in Threads, NEW shape, Sent(shape),
           NEW n \in Nat, n = Described(shape), NEW b \in Gaps(t, 3 * n + 2)
    PROVE  Arrived(Received(t, b, shape), t, b, n, Parsed(t, b, shape))
<1> DEFINE P == Parsed(t, b, shape)
           h == Received(t, b, shape)
<1>1. b \in Nat /\ \A k \in 1..3 * n + 2: <<t, b + k>> \in Values /\ <<t, b + k>> \notin DOMAIN heap
  BY PlacesFree
<1>2. h = [v \in DOMAIN heap \cup Places(t, b, n) |-> IF v \in DOMAIN heap THEN heap[v] ELSE P[v[2] - b]]
  <2>1. Size(shape) = 3 * n + 2
    BY DEF Size
  <2> QED BY <2>1 DEF Received, Places
<1>3. \A k \in 1..3 * n + 2: P[k] \in ValueType /\ P[k].refs = 1
  BY ParsedType
<1> HIDE DEF h, P
<1>4. DOMAIN h = DOMAIN heap \cup Places(t, b, n)
  BY <1>2
<1>5. \A v \in DOMAIN heap: h[v] = heap[v]
  BY <1>2
<1>6. \A k \in 1..3 * n + 2: h[<<t, b + k>>] = P[k]
  <2> SUFFICES ASSUME NEW k \in 1..3 * n + 2 PROVE h[<<t, b + k>>] = P[k]
    OBVIOUS
  <2> DEFINE v == <<t, b + k>>
  <2>1. v \in Places(t, b, n)
    BY DEF Places
  <2>2. v \notin DOMAIN heap /\ v[2] - b = k
    BY <1>1
  <2> QED BY <1>2, <2>1, <2>2
<1>7. HeapType(h)
  <2>1. DOMAIN heap \subseteq Values /\ \A v \in DOMAIN heap: heap[v] \in ValueType
    BY DEF HeapType
  <2>2. DOMAIN h \subseteq Values
    BY <1>1, <1>4, <2>1 DEF Places
  <2>3. \A k \in 1..3 * n + 2: P[k] \in ValueType
    BY <1>3
  <2>4. \A v \in DOMAIN h: h[v] \in ValueType
    BY <1>4, <1>5, <1>6, <2>1, <2>3 DEF Places
  <2>5. h = [v \in DOMAIN h |-> h[v]]
    BY <1>2
  <2>6. h \in [DOMAIN h -> ValueType]
    BY ONLY <2>4, <2>5
  <2> QED BY <2>2, <2>6 DEF HeapType
<1>8. Arrived(h, t, b, n, P)
  BY <1>4, <1>5, <1>6, <1>7, <1>3 DEF Arrived
<1> QED BY <1>8 DEF h, P

\* What is at place m of the items of the j-th new value.
LinkedPlace(h, t, b, n, j, m) ==
    \/ \E k \in 1..3 * n + 1: Linked(n, j, m, k) /\ ItemAt(h, <<t, b + j>>, m) = <<t, b + k>>
    \/ (\A k \in Int: ~Linked(n, j, m, k)) /\ ItemAt(h, <<t, b + j>>, m) = Null

\* The items of a new value are what the form of the call says.
LEMMA ReceivedItems ==
    ASSUME NEW t, NEW b \in Nat, NEW n \in Nat, NEW shape, NEW P, Made(P, t, b, n, shape),
           NEW h, NEW j \in 1..3 * n + 2, <<t, b + j>> \in DOMAIN h, h[<<t, b + j>>] = P[j],
           NEW m \in Nat
    PROVE  LinkedPlace(h, t, b, n, j, m)
<1> SUFFICES \/ \E k \in 1..3 * n + 1:
                   Linked(n, j, m, k) /\ ItemAt(h, <<t, b + j>>, m) = <<t, b + k>>
             \/ (\A k \in Int: ~Linked(n, j, m, k)) /\ ItemAt(h, <<t, b + j>>, m) = Null
  BY DEF LinkedPlace
<1>1. ItemAt(h, <<t, b + j>>, m) = At(P[j].items, m)
  BY DEF ItemAt
<1>2. \A items, tag: New(items, tag).items = items
  BY DEF New
<1>3. CASE j \in 1..n
  <2>1. P[j].items = <<>>
    BY <1>2, <1>3 DEF Made
  <2>2. \A k \in Int: ~Linked(n, j, m, k)
    BY <1>3 DEF Linked
  <2> QED BY <1>1, <2>1, <2>2, AtNone
<1>4. CASE j \in n + 1..3 * n
  <2>1. P[j].items = <<<<t, b + (j - n)>>>>
    <3>1. CASE j \in n + 1..2 * n
      BY <1>2, <3>1 DEF Made
    <3>2. CASE j \in 2 * n + 1..3 * n
      BY <1>2, <3>2 DEF Made
    <3> QED BY <1>4, <3>1, <3>2
  <2>2. ItemAt(h, <<t, b + j>>, m) = IF m = 1 THEN <<t, b + (j - n)>> ELSE Null
    BY <1>1, <2>1, AtOne
  <2>3. CASE m = 1
    <3>1. j - n \in 1..3 * n + 1 /\ Linked(n, j, m, j - n)
      BY <1>4, <2>3 DEF Linked
    <3> QED BY <2>2, <2>3, <3>1
  <2>4. CASE m # 1
    <3>1. \A k \in Int: ~Linked(n, j, m, k)
      BY <1>4, <2>4 DEF Linked
    <3> QED BY <2>2, <2>4, <3>1
  <2> QED BY <2>3, <2>4
<1>5. CASE j = 3 * n + 1
  <2>1. CASE shape.kind = "plain"
    <3>1. n = 0 /\ P[j].items = <<>>
      BY <1>2, <1>5, <2>1 DEF Made
    <3>2. \A k \in Int: ~Linked(n, j, m, k)
      BY <1>5, <3>1 DEF Linked
    <3> QED BY <1>1, <3>1, <3>2, AtNone
  <2>2. CASE shape.kind # "plain"
    <3> DEFINE q == [e \in 1..n |-> <<t, b + (2 * n + e)>>]
    <3>1. P[j].items = q
      BY <1>2, <1>5, <2>2 DEF Made
    <3>2. At(q, m) = IF m \in 1..n THEN <<t, b + (2 * n + m)>> ELSE Null
      BY DEF At
    <3> HIDE DEF q
    <3>3. CASE m \in 1..n
      <4>1. 2 * n + m \in 1..3 * n + 1 /\ Linked(n, j, m, 2 * n + m)
        BY <1>5, <3>3 DEF Linked
      <4> QED BY <1>1, <3>1, <3>2, <3>3, <4>1
    <3>4. CASE m \notin 1..n
      <4>1. \A k \in Int: ~Linked(n, j, m, k)
        BY <1>5, <3>4 DEF Linked
      <4> QED BY <1>1, <3>1, <3>2, <3>4, <4>1
    <3> QED BY <3>3, <3>4
  <2> QED BY <2>1, <2>2
<1>6. CASE j = 3 * n + 2
  <2>1. P[j].items = <<<<t, b + (3 * n + 1)>>>>
    <3>1. P[3 * n + 2] = New(<<<<t, b + (3 * n + 1)>>>>, "array")
      BY DEF Made
    <3> QED BY ONLY <1>2, <1>6, <3>1
  <2>2. ItemAt(h, <<t, b + j>>, m) = IF m = 1 THEN <<t, b + (3 * n + 1)>> ELSE Null
    BY <1>1, <2>1, AtOne
  <2>3. CASE m = 1
    <3>1. 3 * n + 1 \in 1..3 * n + 1 /\ Linked(n, j, m, 3 * n + 1)
      BY <1>6, <2>3 DEF Linked
    <3> QED BY <2>2, <2>3, <3>1
  <2>4. CASE m # 1
    <3>1. \A k \in Int: ~Linked(n, j, m, k)
      BY <1>6, <2>4 DEF Linked
    <3> QED BY <2>2, <2>4, <3>1
  <2> QED BY <2>3, <2>4
<1>7. j \in 1..n \/ j \in n + 1..3 * n \/ j = 3 * n + 1 \/ j = 3 * n + 2
  BY ONLY n \in Nat, j \in 1..3 * n + 2
<1> QED BY <1>3, <1>4, <1>5, <1>6, <1>7

\* The items of the new values, from what is at each place of them.
Links(h, t, b, n) ==
    \A j \in 1..3 * n + 2, m \in Nat: LinkedPlace(h, t, b, n, j, m)

\* So are the items of all of them.
LEMMA ReceivedLinks ==
    ASSUME NEW t, NEW b \in Nat, NEW n \in Nat, NEW shape, NEW P, Made(P, t, b, n, shape),
           NEW h, Arrived(h, t, b, n, P)
    PROVE  Links(h, t, b, n)
<1>1. \A j \in 1..3 * n + 2: <<t, b + j>> \in DOMAIN h /\ h[<<t, b + j>>] = P[j]
  BY DEF Arrived, Places
<1>2. ASSUME NEW j \in 1..3 * n + 2, NEW m \in Nat
      PROVE  LinkedPlace(h, t, b, n, j, m)
  <2>1. <<t, b + j>> \in DOMAIN h /\ h[<<t, b + j>>] = P[j]
    BY <1>1
  <2> QED BY <2>1, ReceivedItems
<1> QED BY <1>2 DEF Links

\* One new value is at a place of another just where the two are linked.
LEMMA LinkAt ==
    ASSUME NEW t, NEW b \in Nat, NEW n \in Nat, NEW h, Links(h, t, b, n),
           NEW j \in 1..3 * n + 2, NEW m \in Nat, NEW k \in 1..3 * n + 2, <<t, b + k>> # Null
    PROVE  ItemAt(h, <<t, b + j>>, m) = <<t, b + k>> <=> Linked(n, j, m, k)
<1>1. CASE \E i \in 1..3 * n + 1: Linked(n, j, m, i) /\ ItemAt(h, <<t, b + j>>, m) = <<t, b + i>>
  <2>1. PICK i \in 1..3 * n + 1: Linked(n, j, m, i) /\ ItemAt(h, <<t, b + j>>, m) = <<t, b + i>>
    BY <1>1
  <2>2. <<t, b + i>> = <<t, b + k>> <=> i = k
    OBVIOUS
  <2>3. Linked(n, j, m, k) => k = i
    BY <2>1, LinkedTo
  <2> QED BY <2>1, <2>2, <2>3
<1>2. CASE (\A i \in Int: ~Linked(n, j, m, i)) /\ ItemAt(h, <<t, b + j>>, m) = Null
  BY <1>2
<1> QED BY <1>1, <1>2 DEF Links, LinkedPlace

\* The places of the ledger that the new values are referred to at.
Changed(t, b, n) == {<<"params", t, 0>>} \cup ({"item"} \X Places(t, b, n) \X Nat)

Referred(M, h, t, b, n) ==
    /\ M[<<"params", t, 0>>] = <<t, b + (3 * n + 2)>>
    /\ \A w \in Places(t, b, n), m \in Nat: M[<<"item", w, m>>] = ItemAt(h, w, m)

\* Each new value has one.
LEMMA OneLink ==
    ASSUME NEW t \in Threads, NEW b \in Nat, NEW n \in Nat, NEW h, Links(h, t, b, n),
           NEW M, Referred(M, h, t, b, n), NEW k \in 1..3 * n + 2, <<t, b + k>> # Null
    PROVE  OnceIn(M, Changed(t, b, n), <<t, b + k>>)
<1>0. /\ M[<<"params", t, 0>>] = <<t, b + (3 * n + 2)>>
      /\ \A w \in Places(t, b, n), m \in Nat: M[<<"item", w, m>>] = ItemAt(h, w, m)
  BY DEF Referred
<1> DEFINE C == Changed(t, b, n)
           p == <<"params", t, 0>>
<1>1. p \in C /\ \A w \in Places(t, b, n), m \in Nat: <<"item", w, m>> \in C
  BY DEF Changed
<1>2. \A s \in C: s = p \/ \E j \in 1..3 * n + 2, m \in Nat: s = <<"item", <<t, b + j>>, m>>
  BY DEF Changed, Places
<1>3. \A j \in 1..3 * n + 2: <<t, b + j>> \in Places(t, b, n)
  BY DEF Places
<1>4. \A j \in 1..3 * n + 2, m \in Nat:
         M[<<"item", <<t, b + j>>, m>>] = <<t, b + k>> <=> Linked(n, j, m, k)
  <2> SUFFICES ASSUME NEW j \in 1..3 * n + 2, NEW m \in Nat
               PROVE  M[<<"item", <<t, b + j>>, m>>] = <<t, b + k>> <=> Linked(n, j, m, k)
    OBVIOUS
  <2>1. M[<<"item", <<t, b + j>>, m>>] = ItemAt(h, <<t, b + j>>, m)
    BY <1>0, <1>3
  <2>2. ItemAt(h, <<t, b + j>>, m) = <<t, b + k>> <=> Linked(n, j, m, k)
    BY LinkAt
  <2> QED BY <2>1, <2>2
<1>5. \A j \in 1..3 * n + 2, m \in Nat, j2 \in 1..3 * n + 2, m2 \in Nat:
         <<"item", <<t, b + j>>, m>> = <<"item", <<t, b + j2>>, m2>> <=> (j2 = j /\ m2 = m)
  OBVIOUS
<1>6. \A j, m: <<"item", <<t, b + j>>, m>> # p
  OBVIOUS
<1>7. CASE k = 3 * n + 2
  <2>1. \A j \in 1..3 * n + 2, m \in Nat: ~Linked(n, j, m, k)
    BY <1>7, LinkedLast
  <2>2. ASSUME NEW s \in C PROVE M[s] = <<t, b + k>> <=> s = p
    <3>1. CASE s = p
      BY <1>0, <1>7, <3>1
    <3>2. CASE s # p
      <4>1. PICK j \in 1..3 * n + 2, m \in Nat: s = <<"item", <<t, b + j>>, m>>
        BY <1>2, <3>2
      <4>2. M[s] # <<t, b + k>>
        BY <1>4, <2>1, <4>1
      <4> QED BY <3>2, <4>2
    <3> QED BY <3>1, <3>2
  <2> HIDE DEF p, C
  <2> QED BY <1>1, <2>2 DEF C, OnceIn
<1>8. CASE k # 3 * n + 2
  <2>1. k \in 1..3 * n + 1
    BY <1>8
  <2>2. PICK j \in 1..3 * n + 2, m \in Nat:
            \A j2 \in 1..3 * n + 2, m2 \in Nat: Linked(n, j2, m2, k) <=> (j2 = j /\ m2 = m)
    BY <2>1, LinkedOnce
  <2> DEFINE z == <<"item", <<t, b + j>>, m>>
  <2>3. z \in C
    BY <1>1, <1>3
  <2>4. ASSUME NEW s \in C PROVE M[s] = <<t, b + k>> <=> s = z
    <3>1. CASE s = p
      <4>1. M[s] # <<t, b + k>>
        <5>1. b + k # b + (3 * n + 2)
          BY <1>8
        <5> QED BY <1>0, <3>1, <5>1
      <4>2. s # z
        BY <1>6, <3>1
      <4> QED BY <4>1, <4>2
    <3>2. CASE s # p
      <4>1. PICK j2 \in 1..3 * n + 2, m2 \in Nat: s = <<"item", <<t, b + j2>>, m2>>
        BY <1>2, <3>2
      <4>2. M[s] = <<t, b + k>> <=> (j2 = j /\ m2 = m)
        BY <1>4, <2>2, <4>1
      <4>3. s = z <=> (j2 = j /\ m2 = m)
        BY <1>5, <4>1
      <4> QED BY <4>2, <4>3
    <3> QED BY <3>1, <3>2
  <2> HIDE DEF z, C
  <2> QED BY <2>3, <2>4 DEF C, OnceIn
<1> QED BY <1>7, <1>8

\* Where the threads' variables are the same, the ledgers are.
LEMMA LedgerSameCalls ==
    ASSUME NEW c, NEW d, NEW h, NEW k, NEW l, NEW c2, NEW s \in Slot,
           \A x \in Variable, u \in Threads: s = <<x, u, 0>> => VarAt(c2[u], x) = VarAt(c[u], x)
    PROVE  Ledger(c2, d, h, k, l)[s] = Ledger(c, d, h, k, l)[s]
<1>1. \A u \in Threads, m \in Nat: s = <<"drop", u, m>> => At(d[u], m) = At(d[u], m)
  OBVIOUS
<1>2. \A w \in Values, m \in Nat: s = <<"item", w, m>> => ItemAt(h, w, m) = ItemAt(h, w, m)
  OBVIOUS
<1>3. \A m \in Nat: s = <<"lost", Null, m>> => At(l, m) = At(l, m)
  OBVIOUS
<1> QED BY <1>1, <1>2, <1>3, LedgerSame

\* The parameters are all that the thread refers to.
Carries(c, p) ==
    c.params = p /\ c.list = Null /\ c.results = Null /\ c.result = Null /\ OwnArgs(c) = Null

\* Each value of a parsed call has the one reference that it is counted for.
LEMMA ReceivedCounts ==
    ASSUME HeapType(heap), NEW c, NEW d, NEW k, NEW l, NEW t \in Threads, Bare(c[t]),
           Balanced(c, d, heap, k, l),
           NEW n \in Nat, NEW b \in Gaps(t, 3 * n + 2), NEW h, NEW P, Arrived(h, t, b, n, P),
           Links(h, t, b, n),
           NEW c2, \A u \in Threads: u # t => c2[u] = c[u], Carries(c2[t], <<t, b + (3 * n + 2)>>),
           NEW v \in Values
    PROVE  Held(Ledger(c2, d, h, k, l), v, RefsOf(h, v))
<1> DEFINE M == Ledger(c, d, heap, k, l)
           M2 == Ledger(c2, d, h, k, l)
           S == Places(t, b, n)
           C == Changed(t, b, n)
<1>0. /\ DOMAIN h = DOMAIN heap \cup Places(t, b, n)
      /\ \A w \in DOMAIN heap: h[w] = heap[w]
      /\ \A j \in 1..3 * n + 2: h[<<t, b + j>>].refs = 1
      /\ c2[t].params = <<t, b + (3 * n + 2)>> /\ c2[t].list = Null /\ c2[t].results = Null
      /\ c2[t].result = Null /\ OwnArgs(c2[t]) = Null
  BY DEF Arrived, Carries
<1>1. b \in Nat /\ \A j \in 1..3 * n + 2: <<t, b + j>> \in Values /\ <<t, b + j>> \notin DOMAIN heap
  BY PlacesFree
<1>2. S \subseteq Values /\ \A w \in S: w \notin DOMAIN heap /\ w # Null
  BY <1>1, ValuesAssumption DEF Places
<1>3. C \in SUBSET Slot
  <2>1. <<"params", t, 0>> \in Slot
    BY DEF Slot, Variable
  <2>2. \A w \in S, m \in Nat: <<"item", w, m>> \in Slot
    BY <1>2 DEF Slot
  <2> HIDE DEF S
  <2> QED BY <2>1, <2>2 DEF Changed, S
<1>4. ASSUME NEW w \in S, NEW m \in Nat
      PROVE  M[<<"item", w, m>>] = Null /\ M2[<<"item", w, m>>] = ItemAt(h, w, m)
  <2>1. w \in Values /\ w \notin DOMAIN heap
    BY <1>2
  <2>2. M[<<"item", w, m>>] = ItemAt(heap, w, m) /\ M2[<<"item", w, m>>] = ItemAt(h, w, m)
    BY ONLY <2>1, m \in Nat, LedgerAt
  <2> QED BY <2>1, <2>2 DEF ItemAt
<1>5. M[<<"params", t, 0>>] = Null /\ M2[<<"params", t, 0>>] = <<t, b + (3 * n + 2)>>
  <2>1. "params" \in Variable
    BY DEF Variable
  <2>2. M[<<"params", t, 0>>] = VarAt(c[t], "params") /\ M2[<<"params", t, 0>>] = VarAt(c2[t], "params")
    BY ONLY <2>1, t \in Threads, LedgerAt
  <2> QED BY <1>0, <2>2 DEF VarAt, Bare
<1>6. ASSUME NEW s \in Slot \ C PROVE M2[s] = M[s]
  <2>1. \A x \in Variable, u \in Threads:
           s = <<x, u, 0>> => VarAt(c2[u], x) = VarAt(c[u], x)
    <3> SUFFICES ASSUME NEW x \in Variable, NEW u \in Threads, s = <<x, u, 0>>
                 PROVE  VarAt(c2[u], x) = VarAt(c[u], x)
      OBVIOUS
    <3>1. CASE u # t
      BY <3>1
    <3>2. CASE u = t
      <4>1. x # "params"
        BY <3>2 DEF Changed
      <4>2. OwnArgs(c[t]) = Null
        BY DEF Bare, OwnArgs
      <4> QED BY <1>0, <3>2, <4>1, <4>2 DEF VarAt, Variable, Bare
    <3> QED BY <3>1, <3>2
  <2>2. \A w \in Values, m \in Nat: s = <<"item", w, m>> => ItemAt(h, w, m) = ItemAt(heap, w, m)
    <3> SUFFICES ASSUME NEW w \in Values, NEW m \in Nat, s = <<"item", w, m>>
                 PROVE  ItemAt(h, w, m) = ItemAt(heap, w, m)
      OBVIOUS
    <3>1. w \notin S
      BY DEF Changed
    <3> QED BY <1>0, <3>1 DEF ItemAt
  <2>3. Ledger(c2, d, heap, k, l)[s] = M[s]
    BY ONLY <2>1, s \in Slot, LedgerSameCalls
  <2>4. M2[s] = Ledger(c2, d, heap, k, l)[s]
    BY ONLY <2>2, s \in Slot, LedgerSameItems
  <2> QED BY <2>3, <2>4
<1> HIDE DEF M, M2
<1>7. \A w \in S, m \in Nat: ItemAt(h, w, m) \in S \cup {Null}
  <2> SUFFICES ASSUME NEW j \in 1..3 * n + 2, NEW m \in Nat
               PROVE  ItemAt(h, <<t, b + j>>, m) \in S \cup {Null}
    BY DEF Places
  <2>1. \A i \in 1..3 * n + 1: i \in 1..3 * n + 2
    OBVIOUS
  <2>2. \A i \in 1..3 * n + 1: <<t, b + i>> \in S
    BY <2>1 DEF Places
  <2> HIDE DEF S
  <2> QED BY <2>2 DEF Links, LinkedPlace
<1>8. \A s \in C: M[s] = Null /\ M2[s] \in S \cup {Null}
  <2>1. <<t, b + (3 * n + 2)>> \in S
    <3>1. 3 * n + 2 \in 1..3 * n + 2
      OBVIOUS
    <3> QED BY <3>1 DEF Places
  <2>2. \A s \in C: s = <<"params", t, 0>> \/ \E w \in S, m \in Nat: s = <<"item", w, m>>
    BY DEF Changed
  <2> HIDE DEF S, C
  <2> QED BY <1>4, <1>5, <1>7, <2>1, <2>2
<1>9. Referred(M2, h, t, b, n)
  BY <1>4, <1>5 DEF Referred
<1>10. ASSUME NEW x \in S PROVE Held(M, x, 0) /\ OnceIn(M2, C, x)
  <2>1. x \in Values /\ RefsOf(heap, x) = 0
    BY <1>2 DEF RefsOf
  <2>2. Held(M, x, 0)
    BY <2>1 DEF Balanced, M
  <2>3. PICK j \in 1..3 * n + 2: x = <<t, b + j>>
    BY DEF Places
  <2>4. <<t, b + j>> # Null /\ b \in Nat
    BY <1>1, <1>2, <2>3
  <2>5. OnceIn(M2, Changed(t, b, n), <<t, b + j>>)
    BY ONLY t \in Threads, n \in Nat, Links(h, t, b, n), <1>9, j \in 1..3 * n + 2, <2>4, OneLink
  <2> QED BY <2>2, <2>3, <2>5
<1>11. Held(M, v, RefsOf(heap, v)) /\ v # Null
  BY ValuesAssumption DEF Balanced, M
<1>12. Held(M2, v, IF v \in S THEN 1 ELSE RefsOf(heap, v))
  <2> HIDE DEF S, C
  <2> DEFINE m == RefsOf(heap, v)
  <2>1. Placed(M, M2, S, C)
    BY <1>3, <1>6, <1>8, <1>10 DEF Placed
  <2>2. Held(M, v, m) /\ v # Null
    BY <1>11
  <2> HIDE DEF m
  <2>3. Held(M2, v, IF v \in S THEN 1 ELSE m)
    BY ONLY <2>1, <2>2, OneEach
  <2> QED BY <2>3 DEF m
<1>13. RefsOf(h, v) = IF v \in S THEN 1 ELSE RefsOf(heap, v)
  <2>1. CASE v \in S
    BY <1>0, <2>1 DEF Places, RefsOf
  <2>2. CASE v \notin S
    BY <1>0, <2>2 DEF RefsOf
  <2> QED BY <2>1, <2>2
<1> QED BY <1>12, <1>13 DEF M2

\* The values of a parsed call are well made.
LEMMA ReceivedWellMade ==
    ASSUME NEW t, NEW b \in Nat, NEW n \in Nat, NEW shape, NEW P, Made(P, t, b, n, shape),
           NEW h, Arrived(h, t, b, n, P), NEW v \in Places(t, b, n)
    PROVE  WellMade(h, v)
<1>0. \A j \in 1..3 * n + 2: h[<<t, b + j>>] = P[j]
  BY DEF Arrived
<1>1. PICK j \in 1..3 * n + 2: v = <<t, b + j>>
  BY DEF Places
<1>2. h[v] = P[j]
  BY <1>0, <1>1
<1>3. \A items, tag: New(items, tag).items = items /\ New(items, tag).tag = tag
  BY DEF New
<1>4. \A x: Len(<<x>>) = 1 /\ <<x>>[1] = x
  OBVIOUS
<1>5. "sent" \notin Internal /\ "list" \notin Internal
  BY DEF Internal
<1>6. CASE j \in 1..n
  BY <1>2, <1>3, <1>6 DEF Made, WellMade
<1>7. CASE j \in n + 1..2 * n
  <2>1. j - n \in 1..n /\ j - n \in 1..3 * n + 2
    BY <1>7
  <2>2. h[<<t, b + (j - n)>>].tag = "sent"
    <3>1. P[j - n] = New(<<>>, "sent")
      BY <2>1 DEF Made
    <3>2. h[<<t, b + (j - n)>>] = P[j - n]
      BY <1>0, <2>1
    <3> QED BY ONLY <1>3, <3>1, <3>2
  <2>3. h[v].tag = "array" /\ h[v].items = <<<<t, b + (j - n)>>>>
    <3>1. P[j] = New(<<<<t, b + (j - n)>>>>, "array")
      BY <1>7 DEF Made
    <3> QED BY ONLY <1>2, <1>3, <3>1
  <2> QED BY <1>4, <1>5, <2>2, <2>3 DEF WellMade
<1>8. CASE j \in 2 * n + 1..3 * n
  <2>1. j - n \in n + 1..2 * n /\ j - n \in 1..3 * n + 2
    BY <1>8
  <2>2. h[<<t, b + (j - n)>>].tag = "array"
    <3>1. P[j - n] = New(<<<<t, b + ((j - n) - n)>>>>, "array")
      BY <2>1 DEF Made
    <3>2. h[<<t, b + (j - n)>>] = P[j - n]
      BY <1>0, <2>1
    <3> QED BY ONLY <1>3, <3>1, <3>2
  <2>3. PICK tag \in {"call", "other"}: P[j] = New(<<<<t, b + (j - n)>>>>, tag)
    BY <1>8 DEF Made
  <2>4. h[v].tag \in {"call", "other"} /\ h[v].items = <<<<t, b + (j - n)>>>>
    BY <1>2, <1>3, <2>3
  <2> QED BY <1>4, <2>2, <2>4 DEF WellMade
<1>9. CASE j = 3 * n + 1
  <2>1. h[v].tag \in {"sent", "list"}
    BY <1>2, <1>3, <1>9 DEF Made
  <2> QED BY <2>1 DEF WellMade
<1>10. CASE j = 3 * n + 2
  <2>1. 3 * n + 1 \in 1..3 * n + 2
    OBVIOUS
  <2>2. h[<<t, b + (3 * n + 1)>>].tag \in {"sent", "list"}
    BY <1>0, <1>3, <2>1 DEF Made
  <2>3. h[v].tag = "array" /\ h[v].items = <<<<t, b + (3 * n + 1)>>>>
    <3>1. P[3 * n + 2] = New(<<<<t, b + (3 * n + 1)>>>>, "array")
      BY DEF Made
    <3> QED BY ONLY <1>2, <1>3, <1>10, <3>1
  <2> QED BY <1>4, <1>5, <2>2, <2>3 DEF WellMade
<1>11. j \in 1..n \/ j \in n + 1..2 * n \/ j \in 2 * n + 1..3 * n \/ j = 3 * n + 1 \/ j = 3 * n + 2
  BY ONLY n \in Nat, j \in 1..3 * n + 2
<1> QED BY <1>6, <1>7, <1>8, <1>9, <1>10, <1>11

\* Where there is room, the places taken are free.
LEMMA BaseIsGap == ASSUME NEW t, NEW n, Room(t, n) PROVE Base(t, n) \in Gaps(t, n)
BY DEF Room, Base

\* The call of a thread with the values of a parsed call.
Parsing(shape, p) ==
    [NoCall EXCEPT !.shape = shape, !.pc = "dispatch", !.params = p, !.args = p,
        !.name = IF shape.kind = "plain" THEN shape.elems[1] ELSE "system.multicall"]

\* A thread that has parsed a call holds its parameters and nothing else.
LEMMA ParsingCall ==
    ASSUME NEW shape, Sent(shape), NEW p \in Values
    PROVE  LET c == Parsing(shape, p)
           IN /\ c \in CallType /\ Progress(c) /\ Control(c)
              /\ c.pc = "dispatch" /\ c.shape = shape /\ ~c.fault
              /\ c.params = p /\ c.args = p /\ c.list = Null /\ c.results = Null /\ c.result = Null
              /\ OwnArgs(c) = Null
<1> DEFINE c == Parsing(shape, p)
           name == IF shape.kind = "plain" THEN shape.elems[1] ELSE "system.multicall"
<1>1. name \in Names
  <2>1. CASE shape.kind = "plain"
    <3>1. shape.elems \in Seq(Names) /\ Len(shape.elems) = 1
      BY <2>1 DEF Sent, Shape
    <3>2. shape.elems[1] \in Names
      BY <3>1, ElementOfSeq
    <3> QED BY <2>1, <3>2
  <2>2. CASE shape.kind # "plain"
    BY <2>2 DEF Names, SystemMethods
  <2> QED BY <2>1, <2>2
<1>2. /\ c.pc = "dispatch" /\ c.shape = shape /\ ~c.fault /\ c.params = p /\ c.args = p
      /\ c.list = Null /\ c.results = Null /\ c.result = Null /\ c.name = name
      /\ c.ran = <<>> /\ c.reply = NoReply /\ c.i = 0
  BY DEF Parsing, NoCall
<1>3. c \in CallType
  <2>1. shape \in Shape
    BY DEF Sent
  <2>2. c = [NoCall EXCEPT !.shape = shape, !.pc = "dispatch", !.params = p, !.args = p, !.name = name]
    BY DEF Parsing
  <2> HIDE DEF c, name
  <2> QED BY <1>1, <2>1, <2>2, NoCallType DEF CallType
<1>4. p # Null
  BY ValuesAssumption
<1> HIDE DEF c
<1>5. Progress(c)
  <2>1. shape.elems \in Seq(Names)
    BY DEF Sent, Shape
  <2>2. NoReply.kind = "none"
    BY DEF NoReply
  <2> QED BY <1>2, <2>1, <2>2 DEF Progress
<1>6. Control(c)
  BY <1>2, <1>4 DEF Control
<1>7. OwnArgs(c) = Null
  BY <1>2 DEF OwnArgs
<1> QED BY <1>2, <1>3, <1>5, <1>6, <1>7 DEF c

\* The method's parameters are an array; a list among them is the multicall's.
LEMMA ParsingHolds ==
    ASSUME NEW t, NEW b \in Nat, NEW n \in Nat, NEW shape, NEW P, Made(P, t, b, n, shape),
           Sent(shape), NEW h, Arrived(h, t, b, n, P),
           NEW c, c.pc = "dispatch", c.list = Null, c.shape = shape,
           c.args = <<t, b + (3 * n + 2)>>
    PROVE  Holding(t, c, h)
<1> DEFINE p == <<t, b + (3 * n + 2)>>
           l == <<t, b + (3 * n + 1)>>
<1>1. h[p] = P[3 * n + 2] /\ h[l] = P[3 * n + 1]
  <2>1. 3 * n + 2 \in 1..3 * n + 2 /\ 3 * n + 1 \in 1..3 * n + 2
    OBVIOUS
  <2> QED BY <2>1 DEF Arrived
<1>2. P[3 * n + 2] = New(<<l>>, "array")
  BY DEF Made
<1>3. h[p].tag = "array" /\ h[p].items[1] = l
  BY <1>1, <1>2 DEF New
<1>4. h[l].tag = "list" => shape.kind = "multi" /\ Len(h[l].items) = Len(shape.elems)
  <2>1. CASE shape.kind = "plain"
    <3>1. P[3 * n + 1] = New(<<>>, "sent")
      BY <2>1 DEF Made
    <3> QED BY <1>1, <3>1 DEF New
  <2>2. CASE shape.kind # "plain"
    <3> DEFINE q == [e \in 1..n |-> <<t, b + (2 * n + e)>>]
    <3>1. n = Len(shape.elems) /\ P[3 * n + 1] = New(q, "list")
      BY <2>2 DEF Made
    <3>2. shape.kind = "multi"
      BY <2>2 DEF Sent, Shape
    <3>3. Len(q) = n
      BY ONLY n \in Nat
    <3> HIDE DEF q
    <3>4. h[l].items = q
      BY <1>1, <3>1 DEF New
    <3> QED BY <3>1, <3>2, <3>3, <3>4
  <2> QED BY <2>1, <2>2
<1> HIDE DEF p, l
<1>5. c.args = p
  BY DEF p
<1> QED BY <1>3, <1>4, <1>5 DEF Holding

\* A call that is parsed.
LEMMA BeginParsedKeeps ==
    ASSUME IInv, NEW t \in Threads, NEW shape, Sent(shape), Ready(t, "idle"),
           NEW n \in Nat, n = Described(shape), NEW b \in Gaps(t, 3 * n + 2),
           heap' = Received(t, b, shape), Go(t, Parsing(shape, <<t, b + (3 * n + 2)>>)),
           UNCHANGED <<setup, drops, kept, lost, failures>>, begun' \in 0..MaxCalls
    PROVE  IInv'
<1> DEFINE p == <<t, b + (3 * n + 2)>>
           c2 == Parsing(shape, p)
           P == Parsed(t, b, shape)
<1>1. b \in Nat /\ \A k \in 1..3 * n + 2: <<t, b + k>> \in Values /\ <<t, b + k>> \notin DOMAIN heap
  BY InvFacts, PlacesFree
<1>2. p \in Values
  <2>1. 3 * n + 2 \in 1..3 * n + 2
    OBVIOUS
  <2> QED BY <1>1, <2>1
<1>3. Arrived(heap', t, b, n, P)
  BY InvFacts, ReceivedHeap
<1>4. Made(P, t, b, n, shape)
  BY ParsedAt
<1>5. /\ HeapType(heap') /\ DOMAIN heap' = DOMAIN heap \cup Places(t, b, n)
      /\ \A v \in DOMAIN heap: heap'[v] = heap[v]
  BY <1>3 DEF Arrived
<1> HIDE DEF P
<1>6. /\ c2 \in CallType /\ Progress(c2) /\ Control(c2)
      /\ c2.pc = "dispatch" /\ c2.shape = shape
      /\ c2.params = p /\ c2.args = p /\ c2.list = Null /\ c2.results = Null /\ c2.result = Null
      /\ OwnArgs(c2) = Null
  BY <1>2, ParsingCall
<1>7. Go(t, c2)
  OBVIOUS
<1> HIDE DEF c2
<1>8. Holding(t, c2, heap')
  BY ONLY b \in Gaps(t, 3 * n + 2), n \in Nat, <1>1, <1>3, <1>4, <1>6, Sent(shape), ParsingHolds
<1>9. Links(heap', t, b, n) /\ Carries(c2, p)
  BY <1>1, <1>3, <1>4, <1>6, ReceivedLinks DEF Carries
<1>10. Bare(call[t])
  BY ThreadFacts DEF Ready, Control, Bare
<1>11. ASSUME NEW v \in Values
       PROVE  Held(Ledger(call', drops', heap', kept', lost'), v, RefsOf(heap', v))
  <2>1. call'[t] = c2 /\ \A u \in Threads: u # t => call'[u] = call[u]
    BY <1>6, <1>7, GoFacts
  <2>2. HeapType(heap) /\ Balanced(call, drops, heap, kept, lost)
    BY InvFacts DEF IInv
  <2>3. Carries(call'[t], <<t, b + (3 * n + 2)>>)
    BY <1>9, <2>1
  <2>4. Held(Ledger(call', drops, heap', kept, lost), v, RefsOf(heap', v))
    BY ONLY t \in Threads, n \in Nat, b \in Gaps(t, 3 * n + 2), v \in Values,
            <1>3, <1>9, <1>10, <2>1, <2>2, <2>3, ReceivedCounts
  <2> QED BY <2>4
<1>12. Stable(heap, heap', Null)
  BY <1>5 DEF Stable
<1>13. \A v \in DOMAIN heap' \ DOMAIN heap: WellMade(heap', v)
  <2>1. \A v \in Places(t, b, n): WellMade(heap', v)
    BY <1>1, <1>3, <1>4, ReceivedWellMade
  <2> QED BY <1>5, <2>1
<1>14. kept' \in DOMAIN heap' /\ heap'[kept'].tag \notin Internal
  BY <1>5, InvFacts
<1> QED
  BY <1>5, <1>6, <1>7, <1>8, <1>11, <1>12, <1>13, <1>14, InvFacts, Bounds, GrowStep

-----------------------------------------------------------------------------
\* The invariant, and what follows from it

\* A call begins (xmlrpc_registry_process_call2()).
LEMMA BeginKeeps ==
    ASSUME IInv, NEW t \in Threads, NEW shape \in Calls, Begin(t, shape)
    PROVE  IInv'
<1>1. /\ Ready(t, "idle") /\ UNCHANGED <<setup, kept, lost, drops>>
      /\ begun < MaxCalls /\ begun' = begun + 1
  BY DEF Begin
<1>2. begun' \in 0..MaxCalls
  BY <1>1, Bounds, BoundsAssumption
<1>3. CASE failures < MaxFailures /\ failures' = failures + 1 /\ UNCHANGED heap
           /\ Go(t, [NoCall EXCEPT !.pc = "over", !.shape = shape,
                        !.reply = [kind |-> "nothing", items |-> <<>>]])
  <2>1. failures' \in 0..MaxFailures
    BY <1>3, Bounds, BoundsAssumption
  <2> QED BY <1>1, <1>2, <1>3, <2>1, BeginLosesKeeps
<1>4. CASE shape.kind = "bad" /\ UNCHANGED <<heap, failures>>
           /\ Go(t, [NoCall EXCEPT !.shape = shape, !.fault = TRUE, !.pc = "returned"])
  <2>1. failures' \in 0..MaxFailures
    BY <1>4, Bounds
  <2> QED BY <1>1, <1>2, <1>4, <2>1, BeginBadKeeps
<1>5. CASE /\ shape.kind # "bad" /\ Room(t, Size(shape)) /\ UNCHANGED failures
           /\ heap' = Received(t, Base(t, Size(shape)), shape)
           /\ Go(t, Parsing(shape, <<t, Base(t, Size(shape)) + Size(shape)>>))
  <2>1. Sent(shape)
    BY <1>5, CallsAssumption DEF Sent
  <2>2. Described(shape) \in Nat
    <3>1. shape.elems \in Seq(Names)
      BY <2>1 DEF Sent, Shape
    <3> QED BY <3>1 DEF Described
  <2>3. PICK n \in Nat: n = Described(shape)
    BY <2>2
  <2>4. Size(shape) = 3 * n + 2
    BY <2>3 DEF Size
  <2>5. PICK b \in Gaps(t, 3 * n + 2): b = Base(t, Size(shape))
    BY <1>5, <2>4, BaseIsGap
  <2>6. heap' = Received(t, b, shape) /\ Go(t, Parsing(shape, <<t, b + (3 * n + 2)>>))
    BY <1>5, <2>4, <2>5
  <2> QED BY <1>1, <1>2, <1>5, <2>1, <2>3, <2>6, BeginParsedKeeps
<1> QED BY <1>3, <1>4, <1>5 DEF Begin, Parsing

\* The set up comes before any call, and it changes no value.
LEMMA SetupKeeps ==
    ASSUME IInv, AddMethod \/ SetHook
    PROVE  IInv'
<1>1. /\ program # <<>> /\ program \in Seq(SystemMethods \cup UserMethods \cup Hooks)
      /\ methods \subseteq SystemMethods \cup UserMethods /\ options \subseteq Hooks
      /\ SystemMethods \subseteq methods
  BY DEF IInv, Typed, AddMethod, SetHook
<1>2. Head(program) \in SystemMethods \cup UserMethods \cup Hooks
      /\ Tail(program) \in Seq(SystemMethods \cup UserMethods \cup Hooks)
  BY <1>1, HeadTailProperties
<1>3. UNCHANGED <<heap, kept, call, drops, lost, begun>>
  BY DEF AddMethod, SetHook
<1>4. program' \in Seq(SystemMethods \cup UserMethods \cup Hooks)
  BY <1>2 DEF AddMethod, SetHook
<1>5. /\ methods' \subseteq SystemMethods \cup UserMethods /\ options' \subseteq Hooks
      /\ SystemMethods \subseteq methods'
  BY <1>1, <1>2 DEF AddMethod, SetHook
<1>6. failures' \in 0..MaxFailures
  BY Bounds, BoundsAssumption DEF AddMethod, SetHook
<1>7. Typed'
  BY <1>3, <1>4, <1>5, <1>6 DEF IInv, Typed
<1>8. /\ Balanced(call', drops', heap', kept', lost') /\ HeapShape(heap', kept')
      /\ \A t \in Threads: Progress(call'[t]) /\ Control(call'[t]) /\ Holding(t, call'[t], heap')
  BY <1>3 DEF IInv
<1> QED BY <1>5, <1>7, <1>8 DEF IInv

\* Nothing happens.
LEMMA StutterKeeps == ASSUME IInv, UNCHANGED vars PROVE IInv'
BY DEF IInv, vars, Typed

\* Each step of a thread keeps the invariant.
LEMMA StepKeeps ==
    ASSUME IInv, NEW t \in Threads, Step(t)
    PROVE  IInv'
<1>1. CASE Decref(t)
  BY <1>1, DecrefKeeps
<1>2. CASE PreinvokeRefuses(t) \/ NoSuchMethod(t) \/ CallFails(t)
  BY <1>2, RefusalsKeep
<1>3. CASE CallDefault(t)
  BY <1>3, CallDefaultKeeps
<1>4. CASE CallGet(t)
  BY <1>4, CallGetKeeps
<1>5. CASE CallPut(t)
  BY <1>5, CallPutKeeps
<1>6. CASE CallShutdown(t)
  BY <1>6, CallShutdownKeeps
<1>7. CASE CallMulticall(t)
  BY <1>7, CallMulticallKeeps
<1>8. CASE BadElement(t)
  BY <1>8, BadElementKeeps
<1>9. CASE DispatchElement(t)
  BY <1>9, DispatchElementKeeps
<1>10. CASE AppendResult(t)
  BY <1>10, AppendResultKeeps
<1>11. CASE EndMulticall(t)
  BY <1>11, EndMulticallKeeps
<1>12. CASE Respond(t)
  BY <1>12, RespondKeeps
<1>13. CASE Finish(t)
  BY <1>13, FinishKeeps
<1> QED
  BY <1>1, <1>2, <1>3, <1>4, <1>5, <1>6, <1>7, <1>8, <1>9, <1>10, <1>11, <1>12, <1>13 DEF Step

\* The release of an array that is not there: nothing else is touched.
LEMMA ArrayNotMadeKeeps ==
    ASSUME IInv, NEW t \in Threads, ArrayNotMade(t)
    PROVE  IInv'
<1>1. UNCHANGED <<setup, kept, lost, begun, heap, call, drops>>
  BY DEF ArrayNotMade, Shared
<1>2. failures' \in 0..MaxFailures
  BY Bounds, BoundsAssumption DEF ArrayNotMade
<1>3. /\ HeapType(heap) /\ call \in [Threads -> CallType] /\ drops \in [Threads -> Seq(Values)]
      /\ lost \in Seq(Values) /\ kept \in DOMAIN heap /\ begun \in 0..MaxCalls
  BY InvFacts, Bounds
<1>4. Typed'
  BY <1>1, <1>2, <1>3, TypeStep DEF IInv
<1>5. /\ Balanced(call', drops', heap', kept', lost') /\ HeapShape(heap', kept')
      /\ \A u \in Threads: Progress(call'[u]) /\ Control(call'[u]) /\ Holding(u, call'[u], heap')
      /\ SystemMethods \subseteq methods'
  BY <1>1 DEF IInv, setup
<1> QED BY <1>4, <1>5 DEF IInv

\* Every step keeps the invariant.
LEMMA NextKeeps == ASSUME IInv, [Next]_vars PROVE IInv'
<1>1. CASE AddMethod \/ SetHook
  BY <1>1, SetupKeeps
<1>2. CASE \E t \in Threads: \E c \in Calls: Begin(t, c)
  BY <1>2, BeginKeeps
<1>3. CASE \E t \in Threads: Step(t)
  BY <1>3, StepKeeps
<1>4. CASE \E t \in Threads: ArrayNotMade(t)
  BY <1>4, ArrayNotMadeKeeps
<1>5. CASE UNCHANGED vars
  BY <1>5, StutterKeeps
<1> QED BY <1>1, <1>2, <1>3, <1>4, <1>5 DEF Next, Serve

\* At first there is one value, and the methods keep it.
LEMMA InitInv == ASSUME Init PROVE IInv
<1>1. /\ heap = [v \in {FirstKept} |-> New(<<>>, "first")] /\ kept = FirstKept
      /\ call = [t \in Threads |-> NoCall] /\ drops = [t \in Threads |-> <<>>]
      /\ lost = <<>> /\ begun = 0 /\ failures = 0 /\ methods = SystemMethods /\ options = {}
      /\ program \in Programs
  BY DEF Init
<1>2. FirstKept \in Values /\ FirstKept # Null
  BY ValuesAssumption DEF Values
<1>3. <<>> \in Seq(Values)
  OBVIOUS
<1>4. /\ DOMAIN heap = {FirstKept} /\ heap[FirstKept] = New(<<>>, "first")
  BY <1>1
<1>5. New(<<>>, "first") \in ValueType /\ New(<<>>, "first").items = <<>>
      /\ New(<<>>, "first").refs = 1 /\ New(<<>>, "first").tag = "first"
  BY <1>3 DEF New, ValueType, Tags
<1>6. HeapType(heap)
  BY <1>1, <1>2, <1>5 DEF HeapType
<1>7. Typed
  <2>1. program \in Seq(SystemMethods \cup UserMethods \cup Hooks)
    BY <1>1, ProgramsAssumption
  <2>2. call \in [Threads -> CallType]
    BY <1>1, NoCallType
  <2>3. drops \in [Threads -> Seq(Values)] /\ lost \in Seq(Values)
    BY <1>1, <1>3
  <2>4. begun \in 0..MaxCalls /\ failures \in 0..MaxFailures
    BY <1>1, BoundsAssumption
  <2>5. kept \in DOMAIN heap /\ options \subseteq Hooks
        /\ methods \subseteq SystemMethods \cup UserMethods
    BY <1>1, <1>4
  <2>6. DOMAIN heap \subseteq Values /\ heap \in [DOMAIN heap -> ValueType]
    BY <1>6 DEF HeapType
  <2> QED BY <2>1, <2>2, <2>3, <2>4, <2>5, <2>6 DEF Typed
<1>8. Balanced(call, drops, heap, kept, lost)
  <2> DEFINE M == Ledger(call, drops, heap, kept, lost)
             z == <<"kept", Null, 0>>
  <2>1. z \in Slot /\ M[z] = FirstKept
    BY <1>1, LedgerAt
  <2>2. ASSUME NEW s \in Slot, s # z PROVE M[s] = Null
    <3>1. CASE \E x \in Variable, t \in Threads: s = <<x, t, 0>>
      <4>1. PICK x \in Variable, t \in Threads: s = <<x, t, 0>>
        BY <3>1
      <4>2. M[s] = VarAt(call[t], x)
        BY ONLY <4>1, LedgerAt
      <4>3. call[t] = NoCall
        BY <1>1
      <4>4. Bare(NoCall) /\ OwnArgs(NoCall) = Null
        BY DEF Bare, NoCall, OwnArgs
      <4> QED BY <4>2, <4>3, <4>4 DEF VarAt, Variable, Bare
    <3>2. CASE \E t \in Threads, k \in Nat: s = <<"drop", t, k>>
      <4>1. PICK t \in Threads, k \in Nat: s = <<"drop", t, k>>
        BY <3>2
      <4>2. M[s] = At(drops[t], k)
        BY ONLY <4>1, LedgerAt
      <4>3. drops[t] = <<>>
        BY <1>1
      <4> QED BY <4>2, <4>3, AtNone
    <3>3. CASE \E v \in Values, k \in Nat: s = <<"item", v, k>>
      <4>1. PICK v \in Values, k \in Nat: s = <<"item", v, k>>
        BY <3>3
      <4>2. M[s] = ItemAt(heap, v, k)
        BY ONLY <4>1, LedgerAt
      <4>3. v \in DOMAIN heap => heap[v].items = <<>>
        BY <1>4, <1>5
      <4> QED BY <4>2, <4>3, AtNone DEF ItemAt
    <3>4. CASE \E k \in Nat: s = <<"lost", Null, k>>
      <4>1. PICK k \in Nat: s = <<"lost", Null, k>>
        BY <3>4
      <4>2. M[s] = At(lost, k)
        BY ONLY <4>1, LedgerAt
      <4> QED BY <1>1, <4>2, AtNone
    <3> QED BY <2>2, <3>1, <3>2, <3>3, <3>4, SlotCases
  <2> HIDE DEF M, z
  <2>3. ASSUME NEW v \in Values PROVE Held(M, v, RefsOf(heap, v))
    <3>1. v # Null
      BY ValuesAssumption
    <3>2. CASE v = FirstKept
      <4>1. Holders(M, v) = {z}
        BY <2>1, <2>2, <3>1, <3>2 DEF Holders
      <4>2. IsFiniteSet({z}) /\ Cardinality({z}) = 1
        BY FS_Singleton
      <4>3. RefsOf(heap, v) = 1
        BY <1>4, <1>5, <3>2 DEF RefsOf
      <4> QED BY ONLY <4>1, <4>2, <4>3 DEF Held
    <3>3. CASE v # FirstKept
      <4>1. Holders(M, v) = {}
        BY <2>1, <2>2, <3>1, <3>3 DEF Holders
      <4>2. IsFiniteSet({}) /\ Cardinality({}) = 0
        BY FS_EmptySet
      <4>3. RefsOf(heap, v) = 0
        BY <1>4, <3>3 DEF RefsOf
      <4> QED BY ONLY <4>1, <4>2, <4>3 DEF Held
    <3> QED BY <3>2, <3>3
  <2> QED BY <2>3 DEF Balanced, M
<1>9. HeapShape(heap, kept)
  BY <1>1, <1>4, <1>5 DEF HeapShape, WellMade, Internal
<1>10. ASSUME NEW t \in Threads
       PROVE  Progress(call[t]) /\ Control(call[t]) /\ Holding(t, call[t], heap)
  <2>1. call[t] = NoCall
    BY <1>1
  <2>2. Bare(NoCall) /\ NoCall.pc = "idle" /\ NoCall.shape.kind = "bad"
    BY DEF Bare, NoCall
  <2> QED BY <2>1, <2>2 DEF Progress, Control, Holding, Bare
<1> QED BY <1>1, <1>7, <1>8, <1>9, <1>10 DEF IInv

\* The inductive invariant holds in every reachable state, for any number of
\* threads, calls and programs, and for every bound.
THEOREM RegistryInvariant == Spec => []IInv
<1>1. Init => IInv
  BY InitInv
<1>2. IInv /\ [Next]_vars => IInv'
  BY NextKeeps
<1> QED BY <1>1, <1>2, PTL DEF Spec

\* TypeOK: the variables have the values that the code gives them, a live value's
\* count is above zero, and the value that the methods keep is alive.
THEOREM RegistryTypeCorrect == Spec => []TypeOK
<1>1. Init => broken \in BOOLEAN
  BY DEF Init
<1>2. broken \in BOOLEAN /\ [Next]_vars => (broken \in BOOLEAN)'
  BY DEF Next, ArrayNotMade, vars
<1>3. Spec => [](broken \in BOOLEAN)
  BY <1>1, <1>2, PTL DEF Spec
<1>4. IInv /\ broken \in BOOLEAN => TypeOK
  BY DEF IInv, TypeOK
<1> QED BY <1>3, <1>4, RegistryInvariant, PTL

\* The response to a multicall is what its calls returned, in order.
LEMMA ProgressIsItsCalls == ASSUME IInv PROVE MulticallIsItsCalls
<1> SUFFICES ASSUME NEW t \in Threads, call[t].shape.kind = "multi"
             PROVE  LET c == call[t]
                        names == [k \in DOMAIN c.ran |-> c.ran[k].name]
                    IN /\ Len(names) <= Len(c.shape.elems)
                       /\ names = SubSeq(c.shape.elems, 1, Len(names))
                       /\ \A k \in DOMAIN names: names[k] # "system.multicall"
                       /\ c.reply.kind = "result" =>
                             /\ names = c.shape.elems
                             /\ c.reply.items = [k \in DOMAIN c.ran |-> c.ran[k].outcome]
  BY DEF MulticallIsItsCalls
<1> DEFINE c == call[t]
           ran == c.ran
           elems == c.shape.elems
           names == [k \in DOMAIN ran |-> ran[k].name]
<1>1. c \in CallType /\ Progress(c)
  BY ThreadFacts
<1>2. ran \in Seq([name : Names, outcome : Tags]) /\ elems \in Seq(Names)
  BY <1>1 DEF CallType, Shape
<1>3. /\ Len(ran) <= Len(elems)
      /\ \A k \in DOMAIN ran: ran[k].name = elems[k] /\ ran[k].name # "system.multicall"
      /\ c.reply.kind = "result" =>
            /\ Len(ran) = Len(elems)
            /\ c.reply.items = [k \in DOMAIN ran |-> ran[k].outcome]
  BY <1>1 DEF Progress
<1> HIDE DEF c, ran, elems
<1>4. names \in Seq(Names) /\ Len(names) = Len(ran) /\ DOMAIN names = DOMAIN ran
  <2>1. \A k \in DOMAIN ran: ran[k].name \in Names
    <3> SUFFICES ASSUME NEW k \in DOMAIN ran PROVE ran[k].name \in Names
      OBVIOUS
    <3>1. k \in 1..Len(ran)
      BY <1>2
    <3>2. ran[k] \in [name : Names, outcome : Tags]
      BY <1>2, <3>1, ElementOfSeq
    <3> QED BY <3>2
  <2>2. DOMAIN ran = 1..Len(ran) /\ Len(ran) \in Nat
    BY <1>2
  <2>3. names \in [1..Len(ran) -> Names]
    BY <2>1, <2>2
  <2>4. DOMAIN names = DOMAIN ran
    OBVIOUS
  <2> HIDE DEF names
  <2> QED BY <2>2, <2>3, <2>4
<1>5. \A k \in DOMAIN names: names[k] = elems[k] /\ names[k] # "system.multicall"
  BY <1>3
<1> HIDE DEF names
<1>6. names = SubSeq(elems, 1, Len(names))
  <2> DEFINE q == SubSeq(elems, 1, Len(names))
  <2>1. /\ elems \in Seq(Names) /\ names \in Seq(Names) /\ DOMAIN names = 1..Len(names)
        /\ Len(names) \in Nat /\ Len(names) <= Len(elems) /\ Len(elems) \in Nat
    BY <1>2, <1>3, <1>4
  <2>2. q \in Seq(Names) /\ Len(q) = Len(names) /\ \A k \in 1..Len(names): q[k] = elems[k]
    BY ONLY <2>1
  <2> HIDE DEF q
  <2>3. \A k \in 1..Len(names): names[k] = q[k]
    BY ONLY <1>5, <2>1, <2>2
  <2> QED BY ONLY <2>1, <2>2, <2>3, SeqEqual DEF q
<1>7. Len(ran) = Len(elems) => names = elems
  BY <1>2, <1>4, <1>5
<1> QED BY <1>3, <1>4, <1>5, <1>6, <1>7 DEF c, ran, elems, names

\* MulticallIsItsCalls: the response to a multicall is, in order, what each of its
\* calls returned when it was run, once each (system_multicall()).
THEOREM RegistryMulticallIsItsCalls == Spec => []MulticallIsItsCalls
BY RegistryInvariant, ProgressIsItsCalls, PTL

-----------------------------------------------------------------------------
\* The references are those of the ledger

\* The references of a thread's variables, ...
Owns(t) ==
    {<<"params", t, 0, call[t].params>>, <<"list", t, 0, call[t].list>>,
     <<"results", t, 0, call[t].results>>, <<"result", t, 0, call[t].result>>,
     <<"args", t, 0, IF call[t].list = Null THEN Null ELSE call[t].args>>}

\* ... and all of them, by their kinds.
LEMMA ReferenceCases ==
    /\ \A r \in References:
          \/ \E t \in Threads: r \in Owns(t)
          \/ \E t \in Threads: \E k \in DOMAIN drops[t]: r = <<"drop", t, k, drops[t][k]>>
          \/ \E w \in DOMAIN heap: \E k \in DOMAIN heap[w].items:
                r = <<"item", w, k, heap[w].items[k]>>
          \/ r = <<"kept", Null, 0, kept>>
          \/ \E k \in DOMAIN lost: r = <<"lost", Null, k, lost[k]>>
    /\ \A t \in Threads: Owns(t) \subseteq References
    /\ \A t \in Threads: \A k \in DOMAIN drops[t]: <<"drop", t, k, drops[t][k]>> \in References
    /\ \A w \in DOMAIN heap: \A k \in DOMAIN heap[w].items:
          <<"item", w, k, heap[w].items[k]>> \in References
    /\ <<"kept", Null, 0, kept>> \in References
    /\ \A k \in DOMAIN lost: <<"lost", Null, k, lost[k]>> \in References
<1> DEFINE A == UNION {{<<"params", t, 0, call[t].params>>, <<"list", t, 0, call[t].list>>,
                        <<"results", t, 0, call[t].results>>, <<"result", t, 0, call[t].result>>,
                        <<"args", t, 0, IF call[t].list = Null THEN Null ELSE call[t].args>>}:
                          t \in Threads}
           B == UNION {{<<"drop", t, k, drops[t][k]>>: k \in DOMAIN drops[t]}: t \in Threads}
           C == UNION {{<<"item", w, k, heap[w].items[k]>>: k \in DOMAIN heap[w].items}: w \in DOMAIN heap}
           D == {<<"kept", Null, 0, kept>>}
           E == {<<"lost", Null, k, lost[k]>>: k \in DOMAIN lost}
<1>1. References = A \cup B \cup C \cup D \cup E
  BY DEF References
<1>2. \A r: r \in A <=> \E t \in Threads: r \in Owns(t)
  BY DEF Owns
<1>3. \A r: r \in B <=> \E t \in Threads: \E k \in DOMAIN drops[t]: r = <<"drop", t, k, drops[t][k]>>
  OBVIOUS
<1>4. \A r: r \in C <=> \E w \in DOMAIN heap: \E k \in DOMAIN heap[w].items:
                           r = <<"item", w, k, heap[w].items[k]>>
  OBVIOUS
<1>5. \A r: r \in D <=> r = <<"kept", Null, 0, kept>>
  OBVIOUS
<1>6. \A r: r \in E <=> \E k \in DOMAIN lost: r = <<"lost", Null, k, lost[k]>>
  OBVIOUS
<1> HIDE DEF A, B, C, D, E
<1>7. \A r \in References:
          \/ \E t \in Threads: r \in Owns(t)
          \/ \E t \in Threads: \E k \in DOMAIN drops[t]: r = <<"drop", t, k, drops[t][k]>>
          \/ \E w \in DOMAIN heap: \E k \in DOMAIN heap[w].items:
                r = <<"item", w, k, heap[w].items[k]>>
          \/ r = <<"kept", Null, 0, kept>>
          \/ \E k \in DOMAIN lost: r = <<"lost", Null, k, lost[k]>>
  <2> TAKE r \in References
  <2>1. r \in A \/ r \in B \/ r \in C \/ r \in D \/ r \in E
    BY <1>1
  <2> QED BY <2>1, <1>2, <1>3, <1>4, <1>5, <1>6
<1>8. \A t \in Threads: Owns(t) \subseteq References
  BY <1>1, <1>2
<1>9. \A t \in Threads: \A k \in DOMAIN drops[t]: <<"drop", t, k, drops[t][k]>> \in References
  BY <1>1, <1>3
<1>10. \A w \in DOMAIN heap: \A k \in DOMAIN heap[w].items:
          <<"item", w, k, heap[w].items[k]>> \in References
  BY <1>1, <1>4
<1>11. <<"kept", Null, 0, kept>> \in References
  BY <1>1, <1>5
<1>12. \A k \in DOMAIN lost: <<"lost", Null, k, lost[k]>> \in References
  BY <1>1, <1>6
<1> QED BY <1>7, <1>8, <1>9, <1>10, <1>11, <1>12

\* What the reference r is in the ledger M.
Entered(M, r) ==
    \E s \in Slot: r = <<s[1], s[2], s[3], r[4]>> /\ M[s] = r[4]

\* Each reference is at a place of the ledger, ...
LEMMA ReferenceIsEntered ==
    ASSUME IInv, NEW r \in References
    PROVE  Entered(Ledger(call, drops, heap, kept, lost), r) /\ r[4] \in Values \cup {Null}
<1> DEFINE M == Ledger(call, drops, heap, kept, lost)
<1>1. CASE \E t \in Threads: r \in Owns(t)
  <2>1. PICK t \in Threads: r \in Owns(t)
    BY <1>1
  <2>2. \A x \in Variable: <<x, t, 0>> \in Slot /\ M[<<x, t, 0>>] = VarAt(call[t], x)
    BY ONLY t \in Threads, LedgerAt
  <2>3. call[t] \in CallType
    BY ThreadFacts
  <2>4. PICK x \in Variable: r = <<x, t, 0, VarAt(call[t], x)>>
    BY <2>1 DEF Owns, VarAt, Variable, OwnArgs
  <2>5. VarAt(call[t], x) \in Values \cup {Null}
    BY <2>3 DEF CallType, VarAt, Variable, OwnArgs
  <2>6. /\ r[4] = VarAt(call[t], x) /\ <<x, t, 0>> \in Slot /\ M[<<x, t, 0>>] = r[4]
        /\ r = <<<<x, t, 0>>[1], <<x, t, 0>>[2], <<x, t, 0>>[3], r[4]>>
    BY <2>2, <2>4
  <2> HIDE DEF M
  <2> QED BY <2>5, <2>6 DEF Entered, M
<1>2. CASE \E t \in Threads: \E k \in DOMAIN drops[t]: r = <<"drop", t, k, drops[t][k]>>
  <2>0. PICK t \in Threads: \E k \in DOMAIN drops[t]: r = <<"drop", t, k, drops[t][k]>>
    BY <1>2
  <2>1. PICK k \in DOMAIN drops[t]: r = <<"drop", t, k, drops[t][k]>>
    BY <2>0
  <2>2. drops[t] \in Seq(Values)
    BY InvFacts
  <2>3. k \in Nat /\ drops[t][k] \in Values
    BY <2>2
  <2>4. <<"drop", t, k>> \in Slot /\ M[<<"drop", t, k>>] = At(drops[t], k)
    BY ONLY t \in Threads, <2>3, LedgerAt
  <2>5. M[<<"drop", t, k>>] = r[4] /\ r[4] \in Values
    BY <2>1, <2>3, <2>4 DEF At
  <2>6. r = <<<<"drop", t, k>>[1], <<"drop", t, k>>[2], <<"drop", t, k>>[3], r[4]>>
    BY <2>1
  <2> HIDE DEF M
  <2> QED BY <2>4, <2>5, <2>6 DEF Entered, M
<1>3. CASE \E w \in DOMAIN heap: \E k \in DOMAIN heap[w].items:
              r = <<"item", w, k, heap[w].items[k]>>
  <2>0. PICK w \in DOMAIN heap: \E k \in DOMAIN heap[w].items: r = <<"item", w, k, heap[w].items[k]>>
    BY <1>3
  <2>1. PICK k \in DOMAIN heap[w].items: r = <<"item", w, k, heap[w].items[k]>>
    BY <2>0
  <2>2. w \in Values /\ heap[w].items \in Seq(Values)
    BY InvFacts DEF HeapType, ValueType
  <2>3. k \in Nat /\ heap[w].items[k] \in Values
    BY <2>2
  <2>4. <<"item", w, k>> \in Slot /\ M[<<"item", w, k>>] = ItemAt(heap, w, k)
    BY ONLY <2>2, <2>3, LedgerAt
  <2>5. M[<<"item", w, k>>] = r[4] /\ r[4] \in Values
    BY <2>1, <2>3, <2>4 DEF At, ItemAt
  <2>6. r = <<<<"item", w, k>>[1], <<"item", w, k>>[2], <<"item", w, k>>[3], r[4]>>
    BY <2>1
  <2> HIDE DEF M
  <2> QED BY <2>4, <2>5, <2>6 DEF Entered, M
<1>4. CASE r = <<"kept", Null, 0, kept>>
  <2>1. <<"kept", Null, 0>> \in Slot /\ M[<<"kept", Null, 0>>] = kept
    BY ONLY LedgerAt
  <2>2. r[4] = kept /\ kept \in Values
        /\ r = <<<<"kept", Null, 0>>[1], <<"kept", Null, 0>>[2], <<"kept", Null, 0>>[3], r[4]>>
    BY <1>4, InvFacts
  <2> HIDE DEF M
  <2> QED BY <2>1, <2>2 DEF Entered, M
<1>5. CASE \E k \in DOMAIN lost: r = <<"lost", Null, k, lost[k]>>
  <2>1. PICK k \in DOMAIN lost: r = <<"lost", Null, k, lost[k]>>
    BY <1>5
  <2>2. lost \in Seq(Values)
    BY InvFacts
  <2>3. k \in Nat /\ lost[k] \in Values
    BY <2>2
  <2>4. <<"lost", Null, k>> \in Slot /\ M[<<"lost", Null, k>>] = At(lost, k)
    BY ONLY <2>3, LedgerAt
  <2>5. M[<<"lost", Null, k>>] = r[4] /\ r[4] \in Values
    BY <2>1, <2>3, <2>4 DEF At
  <2>6. r = <<<<"lost", Null, k>>[1], <<"lost", Null, k>>[2], <<"lost", Null, k>>[3], r[4]>>
    BY <2>1
  <2> HIDE DEF M
  <2> QED BY <2>4, <2>5, <2>6 DEF Entered, M
<1> HIDE DEF M
<1>6. Entered(M, r) /\ r[4] \in Values \cup {Null}
  BY <1>1, <1>2, <1>3, <1>4, <1>5, ReferenceCases DEF M
<1> QED BY <1>6 DEF M

\* ... and what is at a place of the ledger is a reference.
LEMMA EnteredIsReference ==
    ASSUME IInv, NEW v \in Values, NEW s \in Holders(Ledger(call, drops, heap, kept, lost), v)
    PROVE  <<s[1], s[2], s[3], v>> \in References
<1> DEFINE M == Ledger(call, drops, heap, kept, lost)
<1>1. s \in Slot /\ M[s] = v /\ v # Null
  BY ValuesAssumption DEF Holders
<1>2. CASE \E x \in Variable, t \in Threads: s = <<x, t, 0>>
  <2>1. PICK x \in Variable, t \in Threads: s = <<x, t, 0>>
    BY <1>2
  <2>2. M[s] = VarAt(call[t], x)
    BY ONLY <2>1, x \in Variable, t \in Threads, LedgerAt
  <2>3. <<x, t, 0, VarAt(call[t], x)>> \in Owns(t)
    BY DEF Owns, VarAt, Variable, OwnArgs
  <2>4. <<x, t, 0, v>> \in References
    BY <1>1, <2>2, <2>3, ReferenceCases
  <2> QED BY <2>1, <2>4
<1>3. CASE \E t \in Threads, k \in Nat: s = <<"drop", t, k>>
  <2>1. PICK t \in Threads, k \in Nat: s = <<"drop", t, k>>
    BY <1>3
  <2>2. M[s] = At(drops[t], k)
    BY ONLY <2>1, t \in Threads, k \in Nat, LedgerAt
  <2>3. k \in DOMAIN drops[t] /\ drops[t][k] = v
    BY <1>1, <2>2 DEF At
  <2> QED BY <2>1, <2>3, ReferenceCases
<1>4. CASE \E w \in Values, k \in Nat: s = <<"item", w, k>>
  <2>1. PICK w \in Values, k \in Nat: s = <<"item", w, k>>
    BY <1>4
  <2>2. M[s] = ItemAt(heap, w, k)
    BY ONLY <2>1, w \in Values, k \in Nat, LedgerAt
  <2>3. w \in DOMAIN heap /\ k \in DOMAIN heap[w].items /\ heap[w].items[k] = v
    BY <1>1, <2>2 DEF At, ItemAt
  <2> QED BY <2>1, <2>3, ReferenceCases
<1>5. CASE s = <<"kept", Null, 0>>
  <2>1. M[s] = kept
    BY ONLY <1>5, LedgerAt
  <2> QED BY <1>1, <1>5, <2>1, ReferenceCases
<1>6. CASE \E k \in Nat: s = <<"lost", Null, k>>
  <2>1. PICK k \in Nat: s = <<"lost", Null, k>>
    BY <1>6
  <2>2. M[s] = At(lost, k)
    BY ONLY <2>1, k \in Nat, LedgerAt
  <2>3. k \in DOMAIN lost /\ lost[k] = v
    BY <1>1, <2>2 DEF At
  <2> QED BY <2>1, <2>3, ReferenceCases
<1> QED BY <1>1, <1>2, <1>3, <1>4, <1>5, <1>6, SlotCases

\* A place of the ledger has a kind, an owner and an index.
LEMMA SlotIsTriple == ASSUME NEW s \in Slot PROVE s = <<s[1], s[2], s[3]>>
BY SlotCases

\* The references to a value are as many as its places in the ledger.
LEMMA ReferencesCount ==
    ASSUME IInv, NEW v \in Values
    PROVE  Cardinality({r \in References: r[4] = v})
           = Cardinality(Holders(Ledger(call, drops, heap, kept, lost), v))
<1> DEFINE M == Ledger(call, drops, heap, kept, lost)
           H == Holders(M, v)
           R == {r \in References: r[4] = v}
           f == [s \in H |-> <<s[1], s[2], s[3], v>>]
<1>1. IsFiniteSet(H)
  BY DEF IInv, Balanced, Held
<1>2. \A s \in H: <<s[1], s[2], s[3], v>> \in R
  BY EnteredIsReference
<1>3. \A s \in H: s = <<s[1], s[2], s[3]>>
  BY SlotIsTriple DEF Holders
<1>4. \A r \in R: \E s \in H: r = <<s[1], s[2], s[3], v>>
  <2> SUFFICES ASSUME NEW r \in R PROVE \E s \in H: r = <<s[1], s[2], s[3], v>>
    OBVIOUS
  <2>1. Entered(M, r) /\ r[4] = v
    BY ReferenceIsEntered
  <2> QED BY <2>1 DEF Entered, Holders
<1> HIDE DEF H, R
<1>5. f \in Bijection(H, R)
  <2>1. f \in [H -> R]
    BY <1>2
  <2>2. \A a, b \in H: f[a] = f[b] => a = b
    BY <1>3
  <2>3. \A r \in R: \E s \in H: f[s] = r
    BY <1>4
  <2> QED BY <2>1, <2>2, <2>3 DEF Bijection, Injection, Surjection, IsInjective
<1>6. Cardinality(R) = Cardinality(H)
  <2>1. ExistsBijection(H, R)
    BY <1>5 DEF ExistsBijection
  <2> QED BY <1>1, <2>1, FS_Bijection
<1> QED BY <1>6 DEF H, R

\* Each reference that is lost has cost an allocation.
Paid == Len(lost) <= failures

\* What a step makes of what is lost: one reference more for one failure more,
\* or nothing.
Loses(v) == lost' = Append(lost, v) /\ failures' = failures + 1
LosesNothing == lost' = lost /\ failures' \in {failures, failures + 1}

\* Only a multicall whose results cannot be made loses a reference.
LEMMA StepLoses ==
    ASSUME IInv, [Next]_vars
    PROVE  LosesNothing \/ \E v \in Values: Loses(v)
<1>1. ASSUME NEW t \in Threads, CallMulticall(t)
      PROVE  LosesNothing \/ \E v \in Values: Loses(v)
  <2> DEFINE list == heap[call[t].args].items[1]
  <2>1. list \in Values
    BY <1>1, ArgsFacts, InvFacts DEF CallMulticall, Ready, HeapType
  <2> HIDE DEF list
  <2>2. CASE UNCHANGED <<lost, failures>>
    BY <2>2 DEF LosesNothing
  <2>3. CASE lost' = Append(lost, list) /\ failures' = failures + 1
    BY <2>1, <2>3 DEF Loses
  <2> QED BY <1>1, <2>2, <2>3 DEF CallMulticall, list
<1>2. ASSUME NEW t \in Threads, Step(t), ~CallMulticall(t)
      PROVE  LosesNothing
  <2>1. CASE Decref(t) \/ PreinvokeRefuses(t) \/ NoSuchMethod(t) \/ CallFails(t) \/ Finish(t)
    BY <2>1 DEF Decref, PreinvokeRefuses, NoSuchMethod, CallFails, Finish, Shared, LosesNothing
  <2>2. CASE CallDefault(t) \/ CallGet(t) \/ CallPut(t) \/ CallShutdown(t)
    BY <2>2 DEF CallDefault, CallGet, CallPut, CallShutdown, Shared, LosesNothing
  <2>3. CASE BadElement(t) \/ DispatchElement(t) \/ EndMulticall(t)
    BY <2>3 DEF BadElement, DispatchElement, EndMulticall, Shared, LosesNothing
  <2>4. CASE AppendResult(t) \/ Respond(t)
    BY <2>4 DEF AppendResult, Respond, Shared, LosesNothing
  <2> QED BY <1>2, <2>1, <2>2, <2>3, <2>4 DEF Step
<1>3. CASE AddMethod \/ SetHook \/ \E t \in Threads: ArrayNotMade(t)
  BY <1>3 DEF AddMethod, SetHook, ArrayNotMade, Shared, LosesNothing
<1>4. CASE \E t \in Threads: \E c \in Calls: Begin(t, c)
  BY <1>4 DEF Begin, LosesNothing
<1>5. CASE UNCHANGED vars
  BY <1>5 DEF vars, LosesNothing
<1> QED BY <1>1, <1>2, <1>3, <1>4, <1>5 DEF Next, Serve

\* So what is lost stays paid for.
LEMMA StaysPaid == ASSUME IInv, Paid, [Next]_vars PROVE Paid'
<1>1. lost \in Seq(Values) /\ failures \in Nat /\ Len(lost) \in Nat
  BY InvFacts, Bounds, BoundsAssumption
<1>2. CASE LosesNothing
  BY <1>1, <1>2 DEF LosesNothing, Paid
<1>3. ASSUME NEW v \in Values, Loses(v) PROVE Paid'
  <2>1. Len(lost') = Len(lost) + 1
    BY <1>1, <1>3, AppendProperties DEF Loses
  <2> QED BY <1>1, <1>3, <2>1 DEF Loses, Paid
<1> QED BY <1>2, <1>3, StepLoses

\* The count of every value is the number of the references to it.
LEMMA BalancedIsCounted == ASSUME IInv, Paid PROVE ValuesCounted
<1> DEFINE references == {r \in References: r[4] # Null}
<1>1. ASSUME NEW v \in DOMAIN heap
      PROVE  heap[v].refs = Cardinality({r \in references: r[4] = v})
  <2>1. v \in Values /\ v # Null
    BY InvFacts, ValuesAssumption DEF HeapType
  <2>2. {r \in references: r[4] = v} = {r \in References: r[4] = v}
    BY <2>1
  <2>3. Held(Ledger(call, drops, heap, kept, lost), v, heap[v].refs)
    BY <2>1 DEF IInv, Balanced, RefsOf
  <2>4. Cardinality(Holders(Ledger(call, drops, heap, kept, lost), v)) = heap[v].refs
    BY <2>3 DEF Held
  <2> QED BY <2>1, <2>2, <2>4, ReferencesCount
<1>2. ASSUME NEW r \in references
      PROVE  r[4] \in DOMAIN heap
  <2>1. r[4] \in Values /\ Entered(Ledger(call, drops, heap, kept, lost), r)
    BY ReferenceIsEntered
  <2>2. PICK s \in Slot: Ledger(call, drops, heap, kept, lost)[s] = r[4]
    BY <2>1 DEF Entered
  <2>3. Balanced(call, drops, heap, kept, lost)
    BY DEF IInv
  <2> QED BY <2>1, <2>2, <2>3, HeldIsAlive
<1> QED BY <1>1, <1>2 DEF ValuesCounted, Paid

\* ValuesCounted: the count of every value is the number of references to it, in
\* every interleaving and after every failure, up to the release of an array that
\* could not be made, and nothing is lost but for a failed allocation
\* (xmlrpc_INCREF(), xmlrpc_DECREF()).
THEOREM RegistryValuesCounted == Spec => []ValuesCounted
<1>1. Init => Paid
  BY DEF Init, Paid
<1>2. IInv /\ Paid /\ [Next]_vars => Paid'
  BY StaysPaid
<1>3. Spec => []Paid
  BY <1>1, <1>2, RegistryInvariant, PTL DEF Spec
<1>4. IInv /\ Paid => ValuesCounted
  BY BalancedIsCounted
<1> QED BY <1>3, <1>4, RegistryInvariant, PTL
=============================================================================
