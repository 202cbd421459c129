----------------------- MODULE TransactionsInvariant ------------------------
(***************************************************************************)
(* The inductive invariant of Transactions, for any set of statements, any *)
(* mix of calls and any bounds, and that the steps of a statement preserve *)
(* it.                                                                     *)
(***************************************************************************)
EXTENDS Transactions, SequenceTheorems, TLAPS

-----------------------------------------------------------------------------
(* What the operators of TxnState do to the work they hold: prefixes and drains. *)

(* A sequence splits at n into its first n elements and what drain(.., n) leaves. *)
LEMMA DrainSplit ==
  ASSUME NEW s \in Seq(Nat), NEW n \in 0..Len(s)
  PROVE  /\ drain(s, n) \in Seq(Nat)
         /\ Len(drain(s, n)) = Len(s) - n
         /\ \A i \in 1..(Len(s) - n) : drain(s, n)[i] = s[n + i]
         /\ SubSeq(s, 1, n) \in Seq(Nat)
         /\ SubSeq(s, 1, n) \o drain(s, n) = s
<1>1. SubSeq(s, 1, n) \o SubSeq(s, n + 1, Len(s)) = SubSeq(s, 1, Len(s))
  <2>1. 1 \in 1..Len(s) + 1 /\ n \in 1 - 1..Len(s) /\ Len(s) \in n..Len(s)
    OBVIOUS
  <2> QED
    BY ONLY s \in Seq(Nat), <2>1, ConcatAdjacentSubSeq, ZenonT(30)
<1>2. SubSeq(s, 1, Len(s)) = s
  BY SubSeqFull
<1>3. /\ SubSeq(s, n + 1, Len(s)) \in Seq(Nat)
      /\ Len(SubSeq(s, n + 1, Len(s))) = Len(s) - n
      /\ \A i \in 1..(Len(s) - n) : SubSeq(s, n + 1, Len(s))[i] = s[n + i]
      /\ SubSeq(s, 1, n) \in Seq(Nat)
  OBVIOUS
<1> QED
  BY <1>1, <1>2, <1>3, ZenonT(30) DEF drain

(* A prefix and what drain leaves behind it make up the whole. *)
LEMMA DrainPrefix ==
  ASSUME NEW s \in Seq(Nat), NEW p \in Seq(Nat), PrefixOf(p, s)
  PROVE  /\ Len(p) \in 0..Len(s)
         /\ drain(s, Len(p)) \in Seq(Nat)
         /\ Range(s) = Range(p) \cup Range(drain(s, Len(p)))
<1>1. Len(p) \in 0..Len(s) /\ SubSeq(s, 1, Len(p)) = p
  BY DEF PrefixOf
<1>3. drain(s, Len(p)) \in Seq(Nat) /\ p \o drain(s, Len(p)) = s
  BY <1>1, DrainSplit, ZenonT(30)
<1>4. ASSUME NEW d \in Seq(Nat) PROVE Range(p \o d) = Range(p) \cup Range(d)
  BY RangeConcatenation
<1> QED
  BY <1>1, <1>3, <1>4, ZenonT(30)

(* A sequence is its own prefix, with nothing behind it. *)
LEMMA PrefixReflexive ==
  ASSUME NEW s \in Seq(Nat)
  PROVE  PrefixOf(s, s) /\ Range(drain(s, Len(s))) = {}
<1>1. PrefixOf(s, s)
  BY SubSeqFull DEF PrefixOf
<1>2. drain(s, Len(s)) = <<>>
  BY SubSeqEmpty DEF drain
<1> QED
  BY <1>1, <1>2 DEF Range

(* What is a prefix stays one when the sequence grows at its end. *)
LEMMA PrefixGrows ==
  ASSUME NEW s \in Seq(Nat), NEW p \in Seq(Nat), NEW t \in Seq(Nat), PrefixOf(p, s)
  PROVE  PrefixOf(p, s \o t)
<1>1. Len(p) \in 0..Len(s) /\ SubSeq(s, 1, Len(p)) = p
  BY DEF PrefixOf
<1>2. Len(s \o t) = Len(s) + Len(t)
  BY ConcatProperties
<1>3. SubSeq(s \o t, 1, Len(p)) = SubSeq(s, 1, Len(p))
  <2>1. CASE Len(p) = 0
    BY <2>1, SubSeqEmpty
  <2>2. CASE Len(p) # 0
    BY <2>2, <1>1, SubSeqOfConcat1
  <2> QED
    BY <2>1, <2>2, ZenonT(30)
<1> QED
  BY <1>1, <1>2, <1>3 DEF PrefixOf

(* Appending adds to what drain leaves behind a prefix, and to nothing else. *)
LEMMA DrainConcat ==
  ASSUME NEW s \in Seq(Nat), NEW t \in Seq(Nat), NEW n \in 0..Len(s)
  PROVE  Range(drain(s \o t, n)) = Range(drain(s, n)) \cup Range(t)
<1> DEFINE st == s \o t
           d == drain(s, n)
           dt == drain(st, n)
<1>1. /\ st \in Seq(Nat)
      /\ Len(st) = Len(s) + Len(t)
      /\ \A i \in 1..(Len(s) + Len(t)) : st[i] = IF i <= Len(s) THEN s[i] ELSE t[i - Len(s)]
  BY ConcatProperties
<1>2. /\ d \in Seq(Nat) /\ Len(d) = Len(s) - n
      /\ \A i \in 1..(Len(s) - n) : d[i] = s[n + i]
  BY DrainSplit
<1>3. n \in 0..Len(st)
  BY <1>1
<1>4. /\ dt \in Seq(Nat) /\ Len(dt) = Len(st) - n
      /\ \A i \in 1..(Len(st) - n) : dt[i] = st[n + i]
  <2> HIDE DEF st
  <2> QED
    BY <1>1, <1>3, DrainSplit, ZenonT(30)
<1> HIDE DEF st, d, dt
<1>5. /\ d \o t \in Seq(Nat)
      /\ Len(d \o t) = Len(d) + Len(t)
      /\ \A i \in 1..(Len(d) + Len(t)) : (d \o t)[i] = IF i <= Len(d) THEN d[i] ELSE t[i - Len(d)]
  BY <1>2, ConcatProperties, ZenonT(30)
<1>6. ASSUME NEW i \in 1..Len(dt) PROVE dt[i] = (d \o t)[i]
  <2>1. dt[i] = st[n + i] /\ n + i \in 1..(Len(s) + Len(t)) /\ i \in 1..(Len(d) + Len(t))
    BY <1>1, <1>2, <1>4
  <2>2. CASE i <= Len(d)
    <3>1. n + i <= Len(s) /\ i \in 1..(Len(s) - n)
      BY <2>2, <1>2
    <3>2. st[n + i] = s[n + i]
      BY <2>1, <3>1, <1>1, ZenonT(30)
    <3>3. (d \o t)[i] = d[i]
      BY <2>1, <2>2, <1>5
    <3> QED
      BY <2>1, <3>1, <3>2, <3>3, <1>2, Zenon
  <2>3. CASE ~(i <= Len(d))
    <3>1. (n + i) - Len(s) = i - Len(d) /\ ~(n + i <= Len(s))
      BY <2>3, <1>2
    <3> QED
      BY <2>1, <2>3, <3>1, <1>1, <1>5, ZenonT(30)
  <2> QED
    BY <2>2, <2>3, ZenonT(30)
<1>7. Len(dt) = Len(d \o t)
  BY <1>1, <1>2, <1>4, <1>5
<1>8. dt = d \o t
  BY <1>4, <1>5, <1>6, <1>7, SeqEqual, ZenonT(30)
<1> QED
  BY <1>2, <1>8, RangeConcatenation DEF d, dt, st

-----------------------------------------------------------------------------
(* Transactions. *)

(* Only a transaction of DML kind has items. *)
Shape(t) == t.kind # "Dml" => t.statements = <<>> /\ t.mutations = <<>>

(* The work of applied is the head of the work of t. *)
Leads(applied, t) ==
  /\ PrefixOf(applied.statements, t.statements)
  /\ PrefixOf(applied.mutations, t.mutations)

(* The work of t behind that of applied. *)
Behind(t, applied) ==
  Range(drain(t.statements, Len(applied.statements)))
    \cup Range(drain(t.mutations, Len(applied.mutations)))

(* The fields of a transaction. *)
LEMMA Fields ==
  ASSUME NEW t \in ManualTxn
  PROVE  /\ t.kind \in Kinds /\ t.snapshot \in Nat
         /\ t.statements \in Seq(Nat) /\ t.mutations \in Seq(Nat)
         /\ Items(t) \subseteq Nat
<1>1. /\ t.kind \in Kinds /\ t.snapshot \in Nat
      /\ t.statements \in Seq(Nat) /\ t.mutations \in Seq(Nat)
  BY DEF ManualTxn
<1>2. Range(t.statements) \in SUBSET Nat /\ Range(t.mutations) \in SUBSET Nat
  BY <1>1, RangeOfSeq
<1> QED
  BY <1>1, <1>2 DEF Items

(* The constructors. *)
LEMMA Constructors ==
  /\ Unset \in ManualTxn /\ Shape(Unset) /\ Items(Unset) = {} /\ ~has_pending_work(Unset)
  /\ \A n \in Nat : Read(n) \in ManualTxn /\ Shape(Read(n)) /\ Items(Read(n)) = {}
  /\ \A a, b \in Seq(Nat) :
       /\ Dml(a, b) \in ManualTxn /\ Shape(Dml(a, b))
       /\ Items(Dml(a, b)) = Range(a) \cup Range(b)
<1>1. <<>> \in Seq(Nat) /\ Range(<<>>) = {}
  BY DEF Range
<1>2. /\ Unset \in ManualTxn /\ Shape(Unset) /\ Items(Unset) = {} /\ ~has_pending_work(Unset)
  BY <1>1 DEF Unset, ManualTxn, Kinds, Shape, Items, has_pending_work
<1>3. \A n \in Nat : Read(n) \in ManualTxn /\ Shape(Read(n)) /\ Items(Read(n)) = {}
  BY <1>1 DEF Read, ManualTxn, Kinds, Shape, Items
<1>4. \A a, b \in Seq(Nat) :
       /\ Dml(a, b) \in ManualTxn /\ Shape(Dml(a, b))
       /\ Items(Dml(a, b)) = Range(a) \cup Range(b)
  BY DEF Dml, ManualTxn, Kinds, Shape, Items
<1> QED
  BY <1>2, <1>3, <1>4

(* A transaction without pending work has no items, and the other way round. *)
LEMMA PendingItems ==
  ASSUME NEW t \in ManualTxn, Shape(t)
  PROVE  has_pending_work(t) <=> Items(t) # {}
<1>1. t.statements \in Seq(Nat) /\ t.mutations \in Seq(Nat)
  BY Fields
<1>2. ASSUME NEW q \in Seq(Nat) PROVE q = <<>> <=> Range(q) = {}
  BY SMTT(30) DEF Range
<1> QED
  BY <1>1, <1>2, ZenonT(30) DEF Shape, has_pending_work, Items

(* Nothing is behind a transaction's own work. *)
LEMMA BehindSelf ==
  ASSUME NEW t \in ManualTxn
  PROVE  Leads(t, t) /\ Behind(t, t) = {}
  BY Fields, PrefixReflexive DEF Leads, Behind

(* The work of a transaction is the work at its head and the work behind that. *)
LEMMA BehindSplit ==
  ASSUME NEW t \in ManualTxn, NEW applied \in ManualTxn, Leads(applied, t)
  PROVE  Items(t) = Items(applied) \cup Behind(t, applied)
<1>1. /\ t.statements \in Seq(Nat) /\ t.mutations \in Seq(Nat)
      /\ applied.statements \in Seq(Nat) /\ applied.mutations \in Seq(Nat)
  BY Fields
<1>2. Range(t.statements)
        = Range(applied.statements) \cup Range(drain(t.statements, Len(applied.statements)))
  BY <1>1, DrainPrefix DEF Leads
<1>3. Range(t.mutations)
        = Range(applied.mutations) \cup Range(drain(t.mutations, Len(applied.mutations)))
  BY <1>1, DrainPrefix DEF Leads
<1> QED
  BY <1>2, <1>3 DEF Items, Behind

(* buffer_dml adds the new statements at the end: everything already buffered *)
(* stays where it is.                                                         *)
LEMMA BufferDml ==
  ASSUME NEW t \in ManualTxn, Shape(t), t.kind \in {"Unset", "Dml"}, NEW new \in Seq(Nat)
  PROVE  LET b == buffer_dml(t, new)
         IN  /\ b \in ManualTxn /\ Shape(b)
             /\ b.kind \in {t.kind, "Dml"}
             /\ Items(b) = Items(t) \cup Range(new)
             /\ \A a \in ManualTxn : t.kind = "Dml" /\ Leads(a, t) =>
                  Leads(a, b) /\ Behind(b, a) = Behind(t, a) \cup Range(new)
<1>1. t.statements \in Seq(Nat) /\ t.mutations \in Seq(Nat)
  BY Fields
<1>2. CASE new = <<>>
  <2>1. buffer_dml(t, new) = t /\ Range(new) = {}
    BY <1>2 DEF buffer_dml, Range
  <2> QED
    BY <2>1
<1>3. CASE new # <<>> /\ t.kind = "Dml"
  <2> DEFINE b == [t EXCEPT !.statements = t.statements \o new]
  <2>1. buffer_dml(t, new) = b
    BY <1>3 DEF buffer_dml
  <2>2. /\ t.statements \o new \in Seq(Nat)
        /\ Range(t.statements \o new) = Range(t.statements) \cup Range(new)
    BY <1>1, ConcatProperties, RangeConcatenation
  <2>3. /\ b \in ManualTxn /\ b.kind = "Dml"
        /\ b.statements = t.statements \o new /\ b.mutations = t.mutations
    BY <1>3, <2>2, ZenonT(30) DEF ManualTxn
  <2> HIDE DEF b
  <2>4. Items(b) = Items(t) \cup Range(new)
    BY <2>2, <2>3 DEF Items
  <2>5. ASSUME NEW a \in ManualTxn, Leads(a, t)
        PROVE  Leads(a, b) /\ Behind(b, a) = Behind(t, a) \cup Range(new)
    <3>1. a.statements \in Seq(Nat) /\ PrefixOf(a.statements, t.statements)
      BY <2>5, Fields DEF Leads
    <3>2. PrefixOf(a.statements, t.statements \o new)
      BY <1>1, <3>1, PrefixGrows
    <3>3. Len(a.statements) \in 0..Len(t.statements)
      BY <1>1, <3>1, DrainPrefix
    <3>4. Range(drain(t.statements \o new, Len(a.statements)))
            = Range(drain(t.statements, Len(a.statements))) \cup Range(new)
      BY <1>1, <3>3, DrainConcat
    <3> QED
      BY <2>3, <2>5, <3>2, <3>4 DEF Leads, Behind
  <2> QED
    BY <2>1, <2>3, <2>4, <2>5, <1>3 DEF Shape
<1>4. CASE new # <<>> /\ t.kind # "Dml"
  <2>1. buffer_dml(t, new) = Dml(new, <<>>)
    BY <1>4 DEF buffer_dml
  <2>2. Items(t) = {} /\ Range(<<>>) = {}
    BY <1>4 DEF Shape, Items, Range
  <2>3. /\ Dml(new, <<>>) \in ManualTxn /\ Shape(Dml(new, <<>>))
        /\ Items(Dml(new, <<>>)) = Range(new) \cup Range(<<>>)
    <3>1. <<>> \in Seq(Nat)
      OBVIOUS
    <3> QED
      BY <3>1, Constructors, ZenonT(30)
  <2>4. Dml(new, <<>>).kind = "Dml"
    BY DEF Dml
  <2> DEFINE b == Dml(new, <<>>)
  <2>5. b \in ManualTxn /\ Shape(b) /\ b.kind = "Dml" /\ Items(b) = Items(t) \cup Range(new)
    BY <2>2, <2>3, <2>4, ZenonT(30)
  <2> HIDE DEF b
  <2>6. buffer_dml(t, new) = b
    BY <2>1 DEF b
  <2> QED
    BY <2>5, <2>6, <1>4
<1> QED
  BY <1>2, <1>3, <1>4

(* The same of buffer_mutations, on the other list. *)
LEMMA BufferMutations ==
  ASSUME NEW t \in ManualTxn, Shape(t), t.kind \in {"Unset", "Dml"}, NEW new \in Seq(Nat)
  PROVE  LET b == buffer_mutations(t, new)
         IN  /\ b \in ManualTxn /\ Shape(b)
             /\ b.kind \in {t.kind, "Dml"}
             /\ Items(b) = Items(t) \cup Range(new)
             /\ \A a \in ManualTxn : t.kind = "Dml" /\ Leads(a, t) =>
                  Leads(a, b) /\ Behind(b, a) = Behind(t, a) \cup Range(new)
<1>1. t.statements \in Seq(Nat) /\ t.mutations \in Seq(Nat)
  BY Fields
<1>2. CASE new = <<>>
  <2>1. buffer_mutations(t, new) = t /\ Range(new) = {}
    BY <1>2 DEF buffer_mutations, Range
  <2> QED
    BY <2>1
<1>3. CASE new # <<>> /\ t.kind = "Dml"
  <2> DEFINE b == [t EXCEPT !.mutations = t.mutations \o new]
  <2>1. buffer_mutations(t, new) = b
    BY <1>3 DEF buffer_mutations
  <2>2. /\ t.mutations \o new \in Seq(Nat)
        /\ Range(t.mutations \o new) = Range(t.mutations) \cup Range(new)
    BY <1>1, ConcatProperties, RangeConcatenation
  <2>3. /\ b \in ManualTxn /\ b.kind = "Dml"
        /\ b.mutations = t.mutations \o new /\ b.statements = t.statements
    BY <1>3, <2>2, ZenonT(30) DEF ManualTxn
  <2> HIDE DEF b
  <2>4. Items(b) = Items(t) \cup Range(new)
    BY <2>2, <2>3 DEF Items
  <2>5. ASSUME NEW a \in ManualTxn, Leads(a, t)
        PROVE  Leads(a, b) /\ Behind(b, a) = Behind(t, a) \cup Range(new)
    <3>1. a.mutations \in Seq(Nat) /\ PrefixOf(a.mutations, t.mutations)
      BY <2>5, Fields DEF Leads
    <3>2. PrefixOf(a.mutations, t.mutations \o new)
      BY <1>1, <3>1, PrefixGrows
    <3>3. Len(a.mutations) \in 0..Len(t.mutations)
      BY <1>1, <3>1, DrainPrefix
    <3>4. Range(drain(t.mutations \o new, Len(a.mutations)))
            = Range(drain(t.mutations, Len(a.mutations))) \cup Range(new)
      BY <1>1, <3>3, DrainConcat
    <3> QED
      BY <2>3, <2>5, <3>2, <3>4 DEF Leads, Behind
  <2> QED
    BY <2>1, <2>3, <2>4, <2>5, <1>3 DEF Shape
<1>4. CASE new # <<>> /\ t.kind # "Dml"
  <2>1. buffer_mutations(t, new) = Dml(<<>>, new)
    BY <1>4 DEF buffer_mutations
  <2>2. Items(t) = {} /\ Range(<<>>) = {}
    BY <1>4 DEF Shape, Items, Range
  <2>3. /\ Dml(<<>>, new) \in ManualTxn /\ Shape(Dml(<<>>, new))
        /\ Items(Dml(<<>>, new)) = Range(<<>>) \cup Range(new)
    <3>1. <<>> \in Seq(Nat)
      OBVIOUS
    <3> QED
      BY <3>1, Constructors, ZenonT(30)
  <2>4. Dml(<<>>, new).kind = "Dml"
    BY DEF Dml
  <2> DEFINE b == Dml(<<>>, new)
  <2>5. b \in ManualTxn /\ Shape(b) /\ b.kind = "Dml" /\ Items(b) = Items(t) \cup Range(new)
    BY <2>2, <2>3, <2>4, ZenonT(30)
  <2> HIDE DEF b
  <2>6. buffer_mutations(t, new) = b
    BY <2>1 DEF b
  <2> QED
    BY <2>5, <2>6, <1>4
<1> QED
  BY <1>2, <1>3, <1>4

(* finish_commit after a commit of the head of the buffer leaves exactly the *)
(* work behind it.                                                           *)
LEMMA FinishCommit ==
  ASSUME NEW t \in ManualTxn, Shape(t), NEW applied \in ManualTxn, Shape(applied),
         applied.kind = "Dml" => t.kind = "Dml" /\ Leads(applied, t)
  PROVE  /\ finish_commit(t, applied) \in ManualTxn /\ Shape(finish_commit(t, applied))
         /\ Items(finish_commit(t, applied))
              = IF applied.kind = "Dml" THEN Behind(t, applied) ELSE Items(t)
<1> DEFINE left == IF t.kind = "Dml" /\ applied.kind = "Dml"
                   THEN Dml(drain(t.statements, Len(applied.statements)),
                            drain(t.mutations, Len(applied.mutations)))
                   ELSE t
<1>1. /\ t.statements \in Seq(Nat) /\ t.mutations \in Seq(Nat)
      /\ applied.statements \in Seq(Nat) /\ applied.mutations \in Seq(Nat)
  BY Fields
<1>2. CASE applied.kind = "Dml"
  <2>1. t.kind = "Dml" /\ Leads(applied, t)
    BY <1>2
  <2>2. /\ drain(t.statements, Len(applied.statements)) \in Seq(Nat)
        /\ drain(t.mutations, Len(applied.mutations)) \in Seq(Nat)
    BY <1>1, <2>1, DrainPrefix, Zenon DEF Leads
  <2>3. left \in ManualTxn /\ Shape(left) /\ Items(left) = Behind(t, applied)
    BY <1>2, <2>1, <2>2, Constructors DEF Behind
  <2>4. finish_commit(t, applied) = IF has_pending_work(left) THEN left ELSE Unset
    BY DEF finish_commit
  <2> HIDE DEF left
  <2>5. ~has_pending_work(left) => Items(left) = {}
    BY <2>3, PendingItems, Zenon
  <2> QED
    BY <1>2, <2>3, <2>4, <2>5, Constructors, ZenonT(30)
<1>3. CASE applied.kind # "Dml"
  <2>1. finish_commit(t, applied) = IF has_pending_work(t) THEN t ELSE Unset
    BY <1>3 DEF finish_commit
  <2>2. ~has_pending_work(t) => Items(t) = {}
    BY PendingItems
  <2> QED
    BY <1>3, <2>1, <2>2, Constructors
<1> QED
  BY <1>2, <1>3

-----------------------------------------------------------------------------
(* The inductive invariant. *)

(* The work thread c holds. *)
Held(c) == Items(work[c])

(* The buffered work that the commit in progress, if any, does not apply. *)
Unsent == IF Committing /\ work[Conn].kind = "Dml" THEN Behind(txn, work[Conn]) ELSE Items(txn)

Shapes == Shape(txn) /\ \A c \in Callers : Shape(work[c])

(* What a thread at p may hold. *)
Fits(p, w) ==
  /\ p = "idle" => w = Unset
  /\ p = "dml" => w.mutations = <<>>
  /\ p \in {"ingest", "ingest_ddl", "ingest_mode", "ingest_buffer"} => w.statements = <<>>

Control ==
  /\ \A c \in Callers : Fits(pc[c], work[c])
  /\ toggling => pc[Conn] \in {"apply", "rpc", "landed", "restore"}
  /\ pc[Conn] = "restore" => toggling

(* Every item anyone knows of has been issued. *)
Known ==
  /\ Items(txn) \subseteq 1..issued
  /\ \A c \in Callers : Held(c) \subseteq 1..issued
  /\ accepted \subseteq 1..issued /\ acked \subseteq 1..issued
  /\ rolledBack \subseteq 1..issued /\ durable \subseteq 1..issued
  /\ ambiguous \subseteq 1..issued

(* What a statement holds is its own. *)
Private ==
  /\ \A s \in Statements :
       /\ Held(s) \cap (accepted \cup acked \cup rolledBack) = {}
       /\ pc[s] # "landed" => Held(s) \cap (durable \cup ambiguous) = {}
  /\ \A s, t \in Statements : s # t => Held(s) \cap Held(t) = {}

(* Buffered work is accepted, and what no commit in progress carries has no *)
(* commit that succeeded behind it.                                         *)
Buffered ==
  /\ Items(txn) \cup Held(Conn) \subseteq accepted
  /\ (Items(txn) \cup Held(Conn)) \cap rolledBack = {}
  /\ Unsent \cap acked = {}
  /\ Unsent \cap Held(Conn) = {}
  /\ Unsent \cap durable \subseteq ambiguous

(* What the connection is about to commit, and has committed. *)
Applying ==
  /\ pc[Conn] \in {"apply", "rpc", "landed", "restore"} => Held(Conn) \cap acked = {}
  /\ pc[Conn] \in {"apply", "rpc", "restore"} => Held(Conn) \cap durable \subseteq ambiguous
  /\ pc[Conn] = "applied" => Held(Conn) \subseteq acked

Doubt == UNION orphans \subseteq ambiguous

IInv ==
  /\ TypeOK
  /\ AutocommitUnset
  /\ AppliedPrefix
  /\ Shapes
  /\ Control
  /\ Known
  /\ Private
  /\ Buffered
  /\ Applying
  /\ Doubt
  /\ NoLostWork
  /\ TwiceOnlyIfAmbiguous
  /\ RolledBackStaysOut

-----------------------------------------------------------------------------
(* Steps of a statement that create, buffer and commit no work. *)

(* Statement s moves from pc[s] to p and holds w afterwards, which is what it *)
(* held before or has no items; nothing else of the ledger changes.           *)
LEMMA QuietStep ==
  ASSUME IInv, NEW s \in Statements, NEW p \in StmtPC, NEW w \in ManualTxn, Shape(w),
         Fits(p, w), p # "landed",
         Items(w) = {} \/ (w = work[s] /\ pc[s] # "landed"),
         pc' = [pc EXCEPT ![s] = p],
         work' = [work EXCEPT ![s] = w],
         UNCHANGED <<txnVars, toggling, serverVars, ledgerVars, issued>>,
         readOnly' \in BOOLEAN, reads' \subseteq Nat, snapshots' \in Nat, manualDdl' \in BOOLEAN
  PROVE  IInv'
<1>1. s \in Callers /\ s # Conn /\ Conn \in Callers
  BY ConnAssumption DEF Callers
<1>2. /\ pc'[Conn] = pc[Conn] /\ work'[Conn] = work[Conn]
      /\ pc'[s] = p /\ work'[s] = w
      /\ \A c \in Callers \ {s} : pc'[c] = pc[c] /\ work'[c] = work[c]
  BY <1>1 DEF IInv, TypeOK
<1>3. Committing' = Committing /\ Pending' = Pending /\ Unsent' = Unsent
  BY <1>2 DEF Committing, Pending, Unsent, txnVars
<1>4. TypeOK'
  BY <1>1, <1>2, Zenon DEF IInv, TypeOK, txnVars, serverVars, ledgerVars, Callers
<1>5. AutocommitUnset' /\ AppliedPrefix'
  BY <1>2, <1>3, Zenon DEF IInv, AutocommitUnset, AppliedPrefix, txnVars
<1>6. Shapes' /\ Control'
  BY <1>1, <1>2 DEF IInv, Shapes, Control, txnVars
<1>7. Items(w) \subseteq Held(s)
  BY Zenon DEF Held
<1>8. Known'
  BY <1>1, <1>2, <1>7, Zenon DEF IInv, Known, Held, txnVars, serverVars, ledgerVars
<1>9. Private'
  <2>1. \A t \in Statements : /\ Held(t)' \subseteq Held(t)
                              /\ pc[t] = "landed" => pc'[t] = "landed" \/ Held(t)' = {}
    <3>1. CASE Items(w) = {}
      BY <1>2, <3>1, Zenon DEF Held, Callers
    <3>2. CASE w = work[s] /\ pc[s] # "landed"
      BY <1>2, <3>2, Zenon DEF Held, Callers
    <3> QED  BY <3>1, <3>2
  <2>2. ASSUME NEW t \in Statements
        PROVE  /\ Held(t)' \cap (accepted \cup acked \cup rolledBack)' = {}
               /\ pc'[t] # "landed" => Held(t)' \cap (durable \cup ambiguous)' = {}
    BY <2>1 DEF IInv, Private, serverVars, ledgerVars
  <2>3. ASSUME NEW t \in Statements, NEW u \in Statements, t # u
        PROVE  Held(t)' \cap Held(u)' = {}
    BY <2>1, <2>3 DEF IInv, Private
  <2> QED  BY <2>2, <2>3 DEF Private
<1>10. Buffered' /\ Applying'
  BY <1>2, <1>3 DEF IInv, Buffered, Applying, Held, txnVars, serverVars, ledgerVars
<1>11. Doubt' /\ NoLostWork' /\ TwiceOnlyIfAmbiguous' /\ RolledBackStaysOut'
  BY <1>3, Zenon DEF IInv, Doubt, NoLostWork, TwiceOnlyIfAmbiguous, RolledBackStaysOut,
              serverVars, ledgerVars
<1> QED
  BY <1>4, <1>5, <1>6, <1>8, <1>9, <1>10, <1>11 DEF IInv

(* Every value that commonly ends up in a thread's hands. *)
LEMMA Locals ==
  ASSUME IInv
  PROVE  /\ Unset \in ManualTxn /\ Shape(Unset) /\ Items(Unset) = {}
         /\ \A p \in StmtPC : Fits(p, Unset)
         /\ \A c \in Callers : work[c] \in ManualTxn /\ Shape(work[c]) /\ work = [work EXCEPT ![c] = work[c]]
<1>1. \A p \in StmtPC : Fits(p, Unset)
  BY Zenon DEF Fits, Unset
<1> QED
  BY <1>1, Constructors DEF IInv, TypeOK, Shapes

(* A statement begins a call with n new items of work. *)
LEMMA IssueStep ==
  ASSUME IInv, NEW s \in Statements, NEW p \in StmtPC, NEW w \in ManualTxn, Shape(w),
         NEW n \in Nat,
         Fits(p, w), p # "landed",
         Items(w) \subseteq (issued + 1)..(issued + n),
         pc' = [pc EXCEPT ![s] = p],
         work' = [work EXCEPT ![s] = w],
         issued' = issued + n,
         UNCHANGED <<txnVars, readOnly, toggling, serverVars, ledgerVars, readVars, manualDdl>>
  PROVE  IInv'
<1>1. s \in Callers /\ s # Conn /\ Conn \in Callers
  BY ConnAssumption, Zenon DEF Callers
<1>2. /\ pc'[Conn] = pc[Conn] /\ work'[Conn] = work[Conn]
      /\ pc'[s] = p /\ work'[s] = w
      /\ \A c \in Callers \ {s} : pc'[c] = pc[c] /\ work'[c] = work[c]
  BY <1>1, Zenon DEF IInv, TypeOK
<1>3. Committing' = Committing /\ Pending' = Pending /\ Unsent' = Unsent
  BY <1>2 DEF Committing, Pending, Unsent, txnVars
<1>4. TypeOK'
  BY <1>1, <1>2 DEF IInv, TypeOK, txnVars, serverVars, ledgerVars, readVars, Callers
<1>5. AutocommitUnset' /\ AppliedPrefix'
  BY <1>2, <1>3, Zenon DEF IInv, AutocommitUnset, AppliedPrefix, txnVars
<1>6. Shapes' /\ Control'
  BY <1>1, <1>2 DEF IInv, Shapes, Control, txnVars
<1>7. issued \in Nat /\ 1..issued \subseteq 1..(issued + n)
  BY DEF IInv, TypeOK
<1>8. Items(w) \subseteq 1..(issued + n) /\ Items(w) \cap 1..issued = {}
  BY <1>7
<1>9. Known'
  <2>1. \A c \in Callers : Held(c)' \subseteq 1..(issued + n)
    BY <1>2, <1>7, <1>8, Zenon DEF IInv, Known, Held
  <2> QED
    BY <2>1, <1>7, Zenon DEF IInv, Known, txnVars, serverVars, ledgerVars
<1>10. Private'
  <2>1. Items(w) \cap (accepted \cup acked \cup rolledBack \cup durable \cup ambiguous) = {}
    BY <1>8 DEF IInv, Known
  <2>2. \A c \in Callers : Held(c) \cap Items(w) = {}
    BY <1>8, Zenon DEF IInv, Known
  <2> QED
    BY <1>1, <1>2, <2>1, <2>2 DEF IInv, Private, Held, Callers, serverVars, ledgerVars
<1>11. Buffered' /\ Applying'
  BY <1>2, <1>3, Zenon DEF IInv, Buffered, Applying, Held, txnVars, serverVars, ledgerVars
<1>12. Doubt' /\ NoLostWork' /\ TwiceOnlyIfAmbiguous' /\ RolledBackStaysOut'
  BY <1>3, Zenon DEF IInv, Doubt, NoLostWork, TwiceOnlyIfAmbiguous, RolledBackStaysOut,
              serverVars, ledgerVars
<1> QED
  BY <1>4, <1>5, <1>6, <1>9, <1>10, <1>11, <1>12 DEF IInv

(* A statement buffers its work at the end of a manual transaction. *)
LEMMA BufferStep ==
  ASSUME IInv, NEW s \in Statements, NEW b \in ManualTxn, Shape(b),
         ~autocommit,
         pc[s] # "landed",
         b.kind \in {txn.kind, "Dml"},
         Items(b) = Items(txn) \cup Held(s),
         \A a \in ManualTxn : txn.kind = "Dml" /\ Leads(a, txn) =>
           Leads(a, b) /\ Behind(b, a) = Behind(txn, a) \cup Held(s),
         txn' = b,
         accepted' = accepted \cup Held(s),
         Return(s),
         UNCHANGED <<autocommit, readOnly, serverVars, acked, ambiguous, rolledBack, readVars,
                     manualDdl, issued>>
  PROVE  IInv'
<1>1. s \in Callers /\ s # Conn /\ Conn \in Callers
  BY ConnAssumption, Zenon DEF Callers
<1>2. /\ pc'[Conn] = pc[Conn] /\ work'[Conn] = work[Conn] /\ toggling' = toggling
      /\ pc'[s] = "idle" /\ work'[s] = Unset
      /\ \A c \in Callers \ {s} : pc'[c] = pc[c] /\ work'[c] = work[c]
  BY <1>1, Zenon DEF IInv, TypeOK, Return
<1>3. ~toggling /\ Committing' = Committing /\ Pending = Items(txn) /\ Pending' = Items(b)
  BY <1>2, Zenon DEF IInv, AutocommitUnset, Committing, Pending
<1>4. ASSUME Committing, work[Conn].kind = "Dml"
      PROVE  /\ txn.kind = "Dml" /\ b.kind = "Dml"
             /\ Leads(work[Conn], b) /\ Behind(b, work[Conn]) = Behind(txn, work[Conn]) \cup Held(s)
  BY <1>1, <1>4, Zenon DEF IInv, TypeOK, AppliedPrefix, Leads
<1>5. Unsent' = Unsent \cup Held(s)
  BY <1>2, <1>3, <1>4, Zenon DEF Unsent
<1>6. Items(Unset) = {} /\ Unset \in ManualTxn /\ Shape(Unset)
  BY Constructors, Zenon
<1>7. Held(s) \subseteq Nat
  BY <1>1, Fields, SMTT(30) DEF IInv, TypeOK, Held
<1>8. TypeOK'
  BY <1>1, <1>2, <1>6, <1>7, ZenonT(30)
     DEF IInv, TypeOK, serverVars, readVars, Callers, StmtPC, ConnPC, Return
<1>9. AutocommitUnset'
  BY <1>2, Zenon DEF IInv, AutocommitUnset
<1>10. AppliedPrefix'
  BY <1>2, <1>3, <1>4, Zenon DEF AppliedPrefix, Leads
<1>11. Shapes' /\ Control'
  BY <1>1, <1>2, <1>6, Zenon DEF IInv, Shapes, Control, Fits
<1>12. /\ Held(s)' = {} /\ Held(Conn)' = Held(Conn)
       /\ \A c \in Callers \ {s} : Held(c)' = Held(c)
  BY <1>1, <1>2, <1>6 DEF Held
<1>13. Known'
  BY <1>1, <1>12, ZenonT(30) DEF IInv, Known, serverVars
<1>14. Private'
  <2>1. \A t \in Statements \ {s} : Held(t) \cap Held(s) = {}
    BY Zenon DEF IInv, Private
  <2> QED
    BY <1>1, <1>2, <1>12, <2>1, SMTT(30) DEF IInv, Private, Callers, serverVars
<1>15. Buffered'
  BY <1>1, <1>5, <1>12 DEF IInv, Buffered, Private, serverVars
<1>16. Applying'
  BY <1>2, <1>12, Zenon DEF IInv, Applying, serverVars
<1>17. Doubt' /\ NoLostWork' /\ TwiceOnlyIfAmbiguous' /\ RolledBackStaysOut'
  BY <1>3, Zenon DEF IInv, Doubt, NoLostWork, TwiceOnlyIfAmbiguous, RolledBackStaysOut, serverVars
<1> QED
  BY <1>8, <1>9, <1>10, <1>11, <1>13, <1>14, <1>15, <1>16, <1>17 DEF IInv

(* A step that touches neither threads nor ledger, and the mode only to leave *)
(* autocommit mode between two calls.                                         *)
LEMMA ModeStep ==
  ASSUME IInv, autocommit' \in BOOLEAN, autocommit' => autocommit,
         autocommit' = autocommit \/ pc[Conn] = "idle",
         readOnly' \in BOOLEAN, manualDdl' \in BOOLEAN,
         UNCHANGED <<txn, threadVars, serverVars, ledgerVars, readVars, issued>>
  PROVE  IInv'
<1>1. Committing' = Committing /\ Pending' = Pending /\ Unsent' = Unsent
  BY Zenon DEF Committing, Pending, Unsent, threadVars
<1>2. TypeOK'
  BY Zenon DEF IInv, TypeOK, threadVars, serverVars, ledgerVars, readVars
<1>3. AutocommitUnset'
  BY Zenon DEF IInv, AutocommitUnset, Control, threadVars
<1>4. AppliedPrefix' /\ Shapes' /\ Control' /\ Known' /\ Private'
  BY <1>1, Zenon DEF IInv, AppliedPrefix, Shapes, Control, Known, Private, Held,
              threadVars, serverVars, ledgerVars
<1>5. Buffered' /\ Applying' /\ Doubt' /\ NoLostWork' /\ TwiceOnlyIfAmbiguous'
      /\ RolledBackStaysOut'
  BY <1>1 DEF IInv, Buffered, Applying, Held, Doubt, NoLostWork, TwiceOnlyIfAmbiguous,
              RolledBackStaysOut, threadVars, serverVars, ledgerVars
<1> QED
  BY <1>2, <1>3, <1>4, <1>5, Zenon DEF IInv

-----------------------------------------------------------------------------
(* Every action of a statement. *)

(* A statement that returns without having done anything. *)
LEMMA QuietReturn ==
  ASSUME IInv, NEW s \in Statements, Return(s),
         UNCHANGED <<txnVars, readOnly, serverVars, ledgerVars, manualDdl, issued>>,
         reads' \subseteq Nat, snapshots' \in Nat
  PROVE  IInv'
<1>1. s # Conn
  BY ConnAssumption, Zenon
<1>2. /\ Unset \in ManualTxn /\ Shape(Unset) /\ Items(Unset) = {} /\ Fits("idle", Unset)
      /\ "idle" \in StmtPC
  BY Locals, Zenon DEF StmtPC
<1>3. toggling' = toggling /\ readOnly' \in BOOLEAN /\ manualDdl' \in BOOLEAN
  BY <1>1, SMTT(30) DEF IInv, TypeOK, Return
<1> QED
  BY <1>1, <1>2, <1>3, QuietStep, ZenonT(30) DEF Return

(* A statement that goes on with what it holds. *)
LEMMA QuietGoto ==
  ASSUME IInv, NEW s \in Statements, NEW p \in StmtPC, p # "landed", pc[s] # "landed",
         Fits(p, work[s]), Goto(s, p),
         UNCHANGED <<txnVars, readOnly, serverVars, ledgerVars, readVars, issued>>,
         manualDdl' \in BOOLEAN
  PROVE  IInv'
<1>1. /\ s \in Callers
      /\ work[s] \in ManualTxn /\ Shape(work[s]) /\ work = [work EXCEPT ![s] = work[s]]
  BY Locals, Zenon DEF Callers
<1>2. readOnly' \in BOOLEAN /\ reads' \subseteq Nat /\ snapshots' \in Nat
  BY Zenon DEF IInv, TypeOK, readVars
<1> QED
  BY <1>1, <1>2, QuietStep, ZenonT(30) DEF Goto

(* Send is one or the other. *)
LEMMA QuietSend ==
  ASSUME IInv, NEW s \in Statements, pc[s] # "landed", Send(s),
         UNCHANGED <<txnVars, readOnly, serverVars, ledgerVars, readVars, manualDdl, issued>>
  PROVE  IInv'
<1>1. Fits("rpc", work[s]) /\ "rpc" \in StmtPC
  BY Zenon DEF Fits, StmtPC
<1>2. manualDdl' \in BOOLEAN /\ reads' \subseteq Nat /\ snapshots' \in Nat
  BY DEF IInv, TypeOK, readVars
<1> QED
  BY <1>1, <1>2, QuietGoto, QuietReturn DEF Send

(* New items are numbered from issued + 1. *)
LEMMA FreshItems ==
  ASSUME NEW n \in Nat, issued \in Nat
  PROVE  /\ Fresh(n) \in Seq(Nat) /\ Range(Fresh(n)) \subseteq (issued + 1)..(issued + n)
         /\ <<>> \in Seq(Nat) /\ Range(<<>>) = {}
<1>1. Fresh(n) \in [1..n -> Nat]
  BY DEF Fresh
<1>2. Fresh(n) \in Seq(Nat)
  BY <1>1 DEF Fresh
<1>3. \A i \in DOMAIN Fresh(n) : Fresh(n)[i] \in (issued + 1)..(issued + n)
  BY DEF Fresh
<1> QED
  BY <1>2, <1>3 DEF Range

(* run_dml and run_ingest issue new work. *)
LEMMA IssueActions ==
  ASSUME IInv, NEW s \in Statements, NEW n \in 0..MaxBatch
  PROVE  /\ \A form \in {"dml", "returning", "partitioned"} : run_dml(s, form, n) => IInv'
         /\ run_ingest(s, n) => IInv'
<1>1. n \in Nat /\ issued \in Nat
  BY BoundsAssumption DEF IInv, TypeOK
<1>2. /\ Fresh(n) \in Seq(Nat) /\ Range(Fresh(n)) \subseteq (issued + 1)..(issued + n)
      /\ <<>> \in Seq(Nat) /\ Range(<<>>) = {}
  BY <1>1, FreshItems
<1>3. /\ \A w \in {Dml(Fresh(n), <<>>), Dml(<<>>, Fresh(n))} :
           w \in ManualTxn /\ Shape(w) /\ Items(w) \subseteq (issued + 1)..(issued + n)
      /\ Dml(Fresh(n), <<>>).mutations = <<>>
      /\ Dml(<<>>, Fresh(n)).statements = <<>>
  <2>1. /\ Dml(Fresh(n), <<>>).mutations = <<>>
        /\ Dml(<<>>, Fresh(n)).statements = <<>>
    BY DEF Dml
  <2> QED
    BY <1>2, <2>1, Constructors, ZenonT(30)
<1>4. ASSUME NEW form \in {"dml", "returning", "partitioned"}, run_dml(s, form, n) PROVE IInv'
  <2> DEFINE w == Dml(Fresh(n), <<>>)
  <2>1. Fits(form, w) /\ form \in StmtPC /\ form # "landed"
    BY <1>3, Zenon DEF Fits, StmtPC
  <2>2. /\ pc' = [pc EXCEPT ![s] = form] /\ work' = [work EXCEPT ![s] = w]
        /\ issued' = issued + n
        /\ UNCHANGED <<txnVars, readOnly, toggling, serverVars, ledgerVars, readVars, manualDdl>>
    BY <1>4 DEF run_dml, Enter
  <2>3. w \in ManualTxn /\ Shape(w) /\ Items(w) \subseteq (issued + 1)..(issued + n)
    BY <1>3
  <2> HIDE DEF w
  <2> QED
    BY <1>1, <2>1, <2>2, <2>3, IssueStep, ZenonT(30)
<1>5. ASSUME run_ingest(s, n) PROVE IInv'
  <2> DEFINE w == Dml(<<>>, Fresh(n))
  <2>1. Fits("ingest", w) /\ "ingest" \in StmtPC
    BY <1>3 DEF Fits, StmtPC
  <2>2. /\ pc' = [pc EXCEPT ![s] = "ingest"] /\ work' = [work EXCEPT ![s] = w]
        /\ issued' = issued + n
        /\ UNCHANGED <<txnVars, readOnly, toggling, serverVars, ledgerVars, readVars, manualDdl>>
    BY <1>5, Zenon DEF run_ingest, Enter
  <2>3. w \in ManualTxn /\ Shape(w) /\ Items(w) \subseteq (issued + 1)..(issued + n)
    BY <1>3, Zenon
  <2> HIDE DEF w
  <2> QED
    BY <1>1, <2>1, <2>2, <2>3, IssueStep, ZenonT(30)
<1> QED
  BY <1>4, <1>5

(* A statement that buffers holds nothing but what it buffers. *)
LEMMA BufferCalls ==
  ASSUME IInv, NEW s \in Statements, run_or_buffer(s) \/ ingest_buffer(s)
  PROVE  \E b : /\ BufferOrSend(s, b)
                /\ \/ /\ b = buffer_dml(txn, work[s].statements)
                      /\ Held(s) = Range(work[s].statements)
                   \/ /\ b = buffer_mutations(txn, work[s].mutations)
                      /\ Held(s) = Range(work[s].mutations)
<1>1. Range(<<>>) = {} /\ s \in Callers
  BY SMTT(30) DEF Range, Callers
<1>2. CASE run_or_buffer(s)
  <2>1. work[s].mutations = <<>>
    BY <1>1, <1>2, Zenon DEF run_or_buffer, IInv, Control, Fits
  <2> QED
    BY <1>1, <1>2, <2>1, Zenon DEF run_or_buffer, Held, Items
<1>3. CASE ingest_buffer(s)
  <2>1. work[s].statements = <<>>
    BY <1>1, <1>3, Zenon DEF ingest_buffer, IInv, Control, Fits
  <2> QED
    BY <1>1, <1>3, <2>1, Zenon DEF ingest_buffer, Held, Items
<1> QED
  BY <1>2, <1>3

(* run_or_buffer and ingest_buffer. *)
LEMMA BufferActions ==
  ASSUME IInv, NEW s \in Statements, run_or_buffer(s) \/ ingest_buffer(s)
  PROVE  IInv'
<1>1. /\ s \in Callers /\ work[s] \in ManualTxn /\ txn \in ManualTxn /\ Shape(txn)
      /\ work[s].statements \in Seq(Nat) /\ work[s].mutations \in Seq(Nat)
      /\ txn.kind \in Kinds
  BY Fields, Zenon DEF Callers, IInv, TypeOK, Shapes
<1>2. PICK b : /\ BufferOrSend(s, b)
               /\ \/ /\ b = buffer_dml(txn, work[s].statements)
                     /\ Held(s) = Range(work[s].statements)
                  \/ /\ b = buffer_mutations(txn, work[s].mutations)
                     /\ Held(s) = Range(work[s].mutations)
  BY BufferCalls, Zenon
<1>3. /\ pc[s] # "landed"
      /\ UNCHANGED <<autocommit, readOnly, serverVars, acked, ambiguous, rolledBack, readVars,
                     manualDdl, issued>>
  BY Zenon DEF run_or_buffer, ingest_buffer
<1>4. CASE /\ ~autocommit /\ check_kind_allowed(autocommit, txn, "Dml")
           /\ txn' = b /\ accepted' = accepted \cup Items(work[s]) /\ Return(s)
  <2>1. txn.kind \in {"Unset", "Dml"}
    BY <1>4, SMTT(30) DEF check_kind_allowed
  <2>2. /\ b \in ManualTxn /\ Shape(b) /\ b.kind \in {txn.kind, "Dml"}
        /\ Items(b) = Items(txn) \cup Held(s)
        /\ \A a \in ManualTxn : txn.kind = "Dml" /\ Leads(a, txn) =>
             Leads(a, b) /\ Behind(b, a) = Behind(txn, a) \cup Held(s)
    BY <1>1, <1>2, <2>1, BufferDml, BufferMutations, SMTT(30)
  <2> QED
    BY <1>3, <1>4, <2>2, BufferStep DEF Held
<1>5. CASE (Return(s) \/ Send(s)) /\ UNCHANGED <<txn, accepted>>
  <2>1. /\ UNCHANGED <<txnVars, ledgerVars>>
        /\ reads' \subseteq Nat /\ snapshots' \in Nat
    BY <1>3, <1>5, Zenon DEF txnVars, ledgerVars, IInv, TypeOK, readVars
  <2> QED
    BY <1>3, <1>5, <2>1, QuietReturn, QuietSend, Zenon
<1> QED
  BY <1>2, <1>4, <1>5, Zenon DEF BufferOrSend

(* manual_read_install opens a snapshot only in a transaction that holds no work. *)
LEMMA ReadInstallStep ==
  ASSUME IInv, NEW s \in Statements, manual_read_install(s)
  PROVE  IInv'
<1>1. /\ s \in Callers /\ s # Conn /\ Conn \in Callers /\ work[s] \in ManualTxn
      /\ pc[s] = "build" /\ Return(s)
      /\ UNCHANGED <<autocommit, readOnly, serverVars, ledgerVars, snapshots, manualDdl, issued>>
  BY ConnAssumption, Zenon DEF Callers, IInv, TypeOK, manual_read_install
<1>2. CASE UNCHANGED <<txn, reads>>
  BY <1>1, <1>2, QuietReturn, Zenon DEF txnVars, IInv, TypeOK
<1>3. CASE /\ ~autocommit /\ check_kind_allowed(autocommit, txn, "Read")
           /\ txn' = start_read_txn(txn, work[s].snapshot)
           /\ reads' = reads \cup {txn'.snapshot}
  <2>1. txn.kind # "Dml" /\ txn \in ManualTxn /\ Shape(txn) /\ ~toggling
    BY <1>3 DEF check_kind_allowed, IInv, TypeOK, Shapes, AutocommitUnset
  <2>2. Items(txn) = {}
    BY <2>1, PendingItems DEF has_pending_work
  <2>3. /\ txn' \in ManualTxn /\ Shape(txn') /\ Items(txn') = {} /\ txn'.kind # "Dml"
        /\ txn'.snapshot \in Nat
    <3>1. CASE txn.kind = "Read"
      BY <3>1, <1>3, <2>1, <2>2, Fields, Zenon DEF start_read_txn
    <3>2. CASE txn.kind # "Read"
      <4>1. work[s].snapshot \in Nat
        BY <1>1, Fields, Zenon
      <4> DEFINE r == Read(work[s].snapshot)
      <4>2. r \in ManualTxn /\ Shape(r) /\ Items(r) = {}
        BY <4>1, Constructors, Zenon
      <4>3. r.kind = "Read" /\ r.snapshot \in Nat
        BY <4>1 DEF Read
      <4>4. txn' = r
        BY <1>3, <3>2, Zenon DEF start_read_txn
      <4> QED
        BY <4>2, <4>3, <4>4, Zenon
    <3> QED
      BY <3>1, <3>2
  <2>4. /\ pc'[Conn] = pc[Conn] /\ work'[Conn] = work[Conn] /\ toggling' = toggling
        /\ pc'[s] = "idle" /\ work'[s] = Unset
        /\ \A c \in Callers \ {s} : pc'[c] = pc[c] /\ work'[c] = work[c]
    BY <1>1, Zenon DEF IInv, TypeOK, Return
  <2>5. Committing' = Committing /\ ~(Committing /\ work[Conn].kind = "Dml")
    BY <2>1, <2>4, Zenon DEF Committing, IInv, AppliedPrefix
  <2>6. Unsent' = {} /\ Pending' = Pending
    BY <2>1, <2>2, <2>3, <2>4, <2>5, Zenon DEF Unsent, Pending
  <2>7. Items(Unset) = {} /\ Unset \in ManualTxn /\ Shape(Unset) /\ Fits("idle", Unset)
    BY Constructors, SMTT(30) DEF Fits, Unset
  <2>8. TypeOK'
    BY <1>1, <1>3, <2>3, <2>4, <2>7, ZenonT(30)
       DEF IInv, TypeOK, Return, serverVars, ledgerVars, StmtPC, ConnPC, Callers
  <2>9. AutocommitUnset' /\ AppliedPrefix' /\ Shapes' /\ Control'
    BY <1>1, <1>3, <2>1, <2>3, <2>4, <2>5, <2>7, ZenonT(30)
       DEF IInv, AutocommitUnset, AppliedPrefix, Shapes, Control
  <2>10. /\ Held(s)' = {} /\ Held(Conn)' = Held(Conn)
         /\ \A c \in Callers \ {s} : Held(c)' = Held(c)
    BY <1>1, <2>4, <2>7, ZenonT(30) DEF Held
  <2>11. Known' /\ Private'
    BY <1>1, <2>3, <2>4, <2>10, ZenonT(30)
       DEF IInv, Known, Private, serverVars, ledgerVars, Callers
  <2>12. Buffered' /\ Applying'
    BY <1>1, <2>3, <2>4, <2>6, <2>10, ZenonT(30)
       DEF IInv, Buffered, Applying, serverVars, ledgerVars
  <2>13. Doubt' /\ NoLostWork' /\ TwiceOnlyIfAmbiguous' /\ RolledBackStaysOut'
    BY <1>1, <2>6, ZenonT(30)
       DEF IInv, Doubt, NoLostWork, TwiceOnlyIfAmbiguous, RolledBackStaysOut,
                      serverVars, ledgerVars
  <2> QED
    BY <2>8, <2>9, <2>11, <2>12, <2>13, Zenon DEF IInv
<1> QED
  BY <1>2, <1>3, Zenon DEF manual_read_install

(* The steps of a statement. *)
LEMMA StatementSteps ==
  ASSUME IInv, NEW s \in Statements, StatementStep(s)
  PROVE  IInv'
<1>1. reads \subseteq Nat /\ snapshots \in Nat /\ manualDdl \in BOOLEAN /\ autocommit \in BOOLEAN
      /\ s \in Callers /\ Fits(pc[s], work[s])
  BY DEF IInv, TypeOK, Control, Callers
<1>2. ASSUME NEW form \in Calls \cap {"dml", "returning", "partitioned"}, NEW n \in 0..MaxBatch,
             run_dml(s, form, n)
      PROVE  IInv'
  BY <1>2, IssueActions
<1>3. CASE run_or_buffer(s)
  BY <1>3, BufferActions
<1>4. CASE run_unbufferable(s)
  BY <1>1, <1>4, QuietReturn, QuietSend, ZenonT(30) DEF run_unbufferable, readVars
<1>5. CASE build_fails(s)
  BY <1>1, <1>5, QuietReturn, Zenon DEF build_fails, readVars
<1>6. CASE ensure_query_allowed(s)
  BY <1>1, <1>6, QuietGoto, Zenon DEF ensure_query_allowed, StmtPC, Fits
<1>7. CASE manual_read_lookup(s)
  <2>1. CASE Return(s)
    <3>1. txn.snapshot \in Nat
      BY Fields DEF IInv, TypeOK
    <3>2. reads' \subseteq Nat /\ snapshots' \in Nat
      <4>1. \/ UNCHANGED readVars
            \/ reads' = reads \cup {txn.snapshot} /\ UNCHANGED snapshots
            \/ UNCHANGED reads /\ snapshots' = snapshots + 1
        BY <1>7, Zenon DEF manual_read_lookup
      <4>2. snapshots' \in Nat
        BY <1>1, <4>1 DEF readVars
      <4>3. reads' = reads \/ reads' = reads \cup {txn.snapshot}
        BY <4>1 DEF readVars
      <4>4. reads' \subseteq Nat
        BY <1>1, <3>1, <4>3, ZenonT(30)
      <4> QED
        BY <4>2, <4>4, Zenon
    <3> QED
      BY <1>7, <2>1, <3>2, QuietReturn, Zenon DEF manual_read_lookup
  <2>2. CASE Enter(s, "build", Read(snapshots + 1)) /\ snapshots' = snapshots + 1 /\ UNCHANGED reads
    <3>1. /\ Read(snapshots + 1) \in ManualTxn /\ Shape(Read(snapshots + 1))
          /\ Items(Read(snapshots + 1)) = {}
      BY <1>1, Constructors
    <3>2. Fits("build", Read(snapshots + 1)) /\ "build" \in StmtPC
      BY Zenon DEF Fits, StmtPC
    <3>3. readOnly' \in BOOLEAN /\ reads' \subseteq Nat /\ snapshots' \in Nat /\ manualDdl' \in BOOLEAN
      BY <1>1, <1>7, <2>2 DEF manual_read_lookup, IInv, TypeOK
    <3> QED
      BY <1>7, <2>2, <3>1, <3>2, <3>3, QuietStep, ZenonT(30) DEF manual_read_lookup, Enter
  <2> QED
    BY <1>7, <2>1, <2>2, Zenon DEF manual_read_lookup
<1>8. CASE manual_read_install(s)
  BY <1>8, ReadInstallStep
<1>9. ASSUME NEW n \in 0..MaxBatch, run_ingest(s, n) PROVE IInv'
  BY <1>9, IssueActions, Zenon
<1>10. CASE run_bound_ingest(s)
  <2>1. \A p \in {"ingest_ddl", "ingest_mode"} : Fits(p, work[s]) /\ p \in StmtPC /\ p # "landed"
    BY <1>1, <1>10, SMTT(30) DEF run_bound_ingest, Fits, StmtPC
  <2> QED
    BY <1>1, <1>10, <2>1, QuietReturn, QuietGoto, Zenon DEF run_bound_ingest, readVars
<1>11. CASE ingest_ddl(s)
  <2>1. Fits("ingest_mode", work[s]) /\ "ingest_mode" \in StmtPC
    BY <1>1, <1>11, Zenon DEF ingest_ddl, Fits, StmtPC
  <2> QED
    BY <1>1, <1>11, <2>1, QuietReturn, QuietGoto, ZenonT(30)
       DEF ingest_ddl, SchemaChange, readVars
<1>12. CASE ingest_mode_check(s)
  <2>1. Fits("ingest_buffer", work[s]) /\ "ingest_buffer" \in StmtPC
    BY <1>1, <1>12, ZenonT(30) DEF ingest_mode_check, Fits, StmtPC
  <2> QED
    BY <1>1, <1>12, <2>1, QuietReturn, QuietGoto, QuietSend, ZenonT(30)
       DEF ingest_mode_check, readVars
<1>13. CASE ingest_buffer(s)
  BY <1>13, BufferActions
<1>14. CASE run_ddl(s)
  <2>1. readOnly \in BOOLEAN
    BY DEF IInv, TypeOK
  <2> QED
    BY <1>1, <1>14, <2>1, ModeStep, ZenonT(30) DEF run_ddl, SchemaChange, txnVars
<1> QED
  BY <1>2, <1>3, <1>4, <1>5, <1>6, <1>7, <1>8, <1>9, <1>10, <1>11, <1>12, <1>13, <1>14, Zenon
     DEF StatementStep
=============================================================================
