------------------------ MODULE ThreadHistoryProofs ------------------------
(***************************************************************************)
(* Proofs about ThreadHistory, for any channels, page sizes, numbers of    *)
(* checkpoints and writes: pages tile the thread, and the values of an     *)
(* entry are the net effect of the writes of its page.                     *)
(*                                                                         *)
(* The values are computed by two folds, one over the writes of a          *)
(* checkpoint and one over the checkpoints of a page; FoldFacts says what  *)
(* a fold keeps, here the relation of what is folded so far to the writes  *)
(* done so far.                                                            *)
(***************************************************************************)
EXTENDS ThreadHistory, Induction, SequenceTheorems, TLAPS

(* The two folds: a write on top of the values, an entry after the older.  *)
AddWrite(none, values, w) == Accumulate(values, w)
AddEntry(writes, done, n) ==
  Append(done, [id |-> n,
                values |-> FoldLeft(Accumulate,
                  IF done = <<>> THEN Nothing ELSE done[Len(done)].values,
                  writes[n])])

WriteFold == INSTANCE FoldFacts WITH op <- AddWrite
EntryFold == INSTANCE FoldFacts WITH op <- AddEntry

LEMMA WritesFold ==
  ASSUME NEW values, NEW q
  PROVE  FoldLeft(Accumulate, values, q) = WriteFold!Fold(<<>>, values, q, DOMAIN q)
  BY DEF FoldLeft, MapThenFoldSet, Max, WriteFold!Fold, WriteFold!Largest, AddWrite

LEMMA EntriesFold ==
  ASSUME NEW ids
  PROVE  Reconstruct(ids) =
           Reverse(EntryFold!Fold(checkpoints, <<>>, Reverse(ids), DOMAIN Reverse(ids)))
  BY DEF Reconstruct, FoldLeft, MapThenFoldSet, Max, EntryFold!Fold, EntryFold!Largest, AddEntry

-----------------------------------------------------------------------------
(* The saver                                                                *)

Write == [channel : Channels \cup Reserved, kind : Kinds, items : Seq(Nat \X Nat)]
SaverOk ==
  /\ checkpoints \in Seq(Seq(Write))
  /\ \A n \in DOMAIN checkpoints : \A i \in DOMAIN checkpoints[n] :
       checkpoints[n][i].items = <<<<n, i>>>>

(* The places of the writes of the checkpoints from first to last, those   *)
(* of them to channel c, and a write as the saver has it.                  *)
Places(first, last) == UNION {{n} \X DOMAIN checkpoints[n] : n \in first .. last}
On(c, W) == {p \in W : checkpoints[p[1]][p[2]].channel = c}
All == Places(1, Len(checkpoints))

LEMMA WritesToOn ==
  ASSUME NEW c, NEW first, NEW last PROVE WritesTo(c, first, last) = On(c, Places(first, last))
  BY DEF WritesTo, On, Places

LEMMA PlaceOf ==
  ASSUME SaverOk, NEW p \in All
  PROVE  /\ p = <<p[1], p[2]>> /\ p[1] \in 1 .. Len(checkpoints) /\ p[1] \in Nat /\ p[2] \in Nat
         /\ p[2] \in DOMAIN checkpoints[p[1]]
         /\ checkpoints[p[1]][p[2]] \in Write
         /\ checkpoints[p[1]][p[2]].items = <<p>>
<1>1. PICK n \in 1 .. Len(checkpoints) : p \in {n} \X DOMAIN checkpoints[n]
  BY DEF All, Places
<1>2. Len(checkpoints) \in Nat /\ DOMAIN checkpoints = 1 .. Len(checkpoints)
      /\ checkpoints[n] \in Seq(Write)
  BY ElementOfSeq DEF SaverOk
<1>3. PICK i \in DOMAIN checkpoints[n] : p = <<n, i>>
  BY <1>1
<1>4. i \in Nat /\ checkpoints[n][i] \in Write
  BY <1>2, ElementOfSeq
<1>5. n \in Nat /\ p[1] = n /\ p[2] = i
  BY <1>2, <1>3
<1>6. checkpoints[n][i].items = <<<<n, i>>>>
  BY <1>2 DEF SaverOk
<1> QED
  BY <1>2, <1>3, <1>4, <1>5, <1>6

-----------------------------------------------------------------------------
(* One write                                                                *)

Held == [kind : {"absent", "list", "scalar"}, items : Seq(Nat \X Nat)]
(* values are what the writes at W leave, or they raised.                  *)
Effect(values, W) ==
  IF values = Broken THEN \E c \in Channels : Mixed(On(c, W))
  ELSE /\ values \in [Channels -> Held]
       /\ \A c \in Channels : ~Mixed(On(c, W)) /\ IsValueOf(values[c], On(c, W))

LEMMA NotBroken == ASSUME NEW values \in [Channels -> Held] PROVE values # Broken
<1> SUFFICES ASSUME values = Broken PROVE FALSE
  OBVIOUS
<1>1. DOMAIN values = {"raised"} /\ values["raised"].kind = "raised"
  BY DEF Broken
<1>2. "raised" \in Channels
  BY <1>1
<1>3. values["raised"] \in Held
  BY <1>2
<1> QED
  BY <1>1, <1>3 DEF Held

(* A list on top of none or of lists.                                      *)
LEMMA ListOnLists ==
  ASSUME SaverOk, NEW V \in SUBSET All, NEW p \in All, KindAt(p) = "list",
         \A q \in V : Earlier(q, p),
         NEW held \in Held, IsValueOf(held, V), ~Mixed(V), held.kind # "scalar"
  PROVE  /\ ~Mixed(V \cup {p})
         /\ IsValueOf([kind |-> "list", items |-> held.items \o <<p>>], V \cup {p})
<1> DEFINE items == held.items \o <<p>>
<1>1. /\ p[1] \in Nat /\ p[2] \in Nat /\ p = <<p[1], p[2]>>
      /\ \A q \in V : q[1] \in Nat /\ q[2] \in Nat
  BY PlaceOf
<1>2. \A q \in V : ~Earlier(p, q) /\ q # p
  BY <1>1 DEF Earlier
<1>3. ~Earlier(p, p)
  BY <1>1 DEF Earlier
<1>4. ASSUME NEW q \in V PROVE KindAt(q) # "scalar"
  <2>1. PICK l \in V : /\ \A r \in V : r = l \/ Earlier(r, l)
                       /\ KindAt(l) = "list"
    BY DEF IsValueOf
  <2> QED
    BY <2>1 DEF Mixed
<1>5. ~Mixed(V \cup {p})
  BY <1>4 DEF Mixed
<1>6. Range(held.items) = V /\ \A i, j \in DOMAIN held.items :
                                 i < j => Earlier(held.items[i], held.items[j])
  <2>1. CASE V = {} /\ held = Absent
    BY <2>1 DEF Absent, Range
  <2>2. CASE ~(V = {} /\ held = Absent)
    BY <2>2 DEF IsValueOf
  <2> QED
    BY <2>1, <2>2
<1> DEFINE n == Len(held.items)
<1>7. /\ held.items \in Seq(Nat \X Nat) /\ n \in Nat /\ DOMAIN held.items = 1 .. n
      /\ p \in Nat \X Nat
  BY <1>1 DEF Held
<1>8. /\ DOMAIN items = 1 .. n + 1
      /\ \A i \in 1 .. n : items[i] = held.items[i]
      /\ items[n + 1] = p
  BY <1>7
<1> HIDE DEF items, n
<1>9. Range(items) = V \cup {p}
  <2>1. 1 .. n + 1 = (1 .. n) \cup {n + 1}
    BY <1>7
  <2>2. Range(items) = {items[i] : i \in 1 .. n} \cup {p}
    BY <1>8, <2>1 DEF Range
  <2>3. {items[i] : i \in 1 .. n} = Range(held.items)
    BY <1>7, <1>8 DEF Range
  <2> QED
    BY <1>6, <2>2, <2>3
<1>10. ASSUME NEW i \in DOMAIN items, NEW j \in DOMAIN items, i < j
       PROVE  Earlier(items[i], items[j])
  <2>1. i \in 1 .. n
    BY <1>7, <1>8, <1>10
  <2>2. CASE j \in 1 .. n
    BY <1>6, <1>7, <1>8, <1>10, <2>1, <2>2
  <2>3. CASE j = n + 1
    <3>1. items[i] \in V
      BY <1>6, <1>7, <1>8, <2>1 DEF Range
    <3> QED
      BY <1>8, <2>3, <3>1
  <2> QED
    BY <1>7, <1>8, <2>2, <2>3
<1>11. \A q \in V \cup {p} : q = p \/ Earlier(q, p)
  OBVIOUS
<1>12. IsValueOf([kind |-> "list", items |-> items], V \cup {p})
  BY <1>9, <1>10, <1>11 DEF IsValueOf
<1> QED
  BY <1>5, <1>12 DEF items

(* A scalar, on top of anything but a list that waits for one after it.    *)
LEMMA ScalarOnAny ==
  ASSUME SaverOk, NEW V \in SUBSET All, NEW p \in All, KindAt(p) = "scalar",
         \A q \in V : Earlier(q, p), ~Mixed(V)
  PROVE  /\ ~Mixed(V \cup {p})
         /\ IsValueOf([kind |-> "scalar", items |-> <<p>>], V \cup {p})
<1>1. /\ p[1] \in Nat /\ p[2] \in Nat
      /\ \A q \in V : q[1] \in Nat /\ q[2] \in Nat
  BY PlaceOf
<1>2. \A q \in V : ~Earlier(p, q)
  BY <1>1 DEF Earlier
<1>3. ~Earlier(p, p)
  BY <1>1 DEF Earlier
<1>4. ~Mixed(V \cup {p})
  BY <1>2, <1>3 DEF Mixed
<1>5. \A q \in V \cup {p} : q = p \/ Earlier(q, p)
  OBVIOUS
<1> QED
  BY <1>4, <1>5 DEF IsValueOf

LEMMA ScalarHeld ==
  ASSUME NEW value, NEW V, IsValueOf(value, V), value.kind = "scalar"
  PROVE  \E l \in V : KindAt(l) = "scalar"
  BY DEF IsValueOf, Absent

(* What Accumulate does, when it does not raise, to the values of W gives  *)
(* those of W and the write at p, if p comes after W; when it raises, a    *)
(* list has met a scalar.                                                  *)
LEMMA AccumulateEffect ==
  ASSUME SaverOk, Channels \cap Reserved = {},
         NEW W \in SUBSET All, NEW p \in All, \A q \in W : Earlier(q, p),
         NEW values, Effect(values, W)
  PROVE  Effect(Accumulate(values, checkpoints[p[1]][p[2]]), W \cup {p})
<1> DEFINE w == checkpoints[p[1]][p[2]]
           U == W \cup {p}
           after == Accumulate(values, w)
<1>1. /\ w.channel \in Channels \cup Reserved /\ w.kind \in {"list", "scalar"}
      /\ w.items = <<p>> /\ w.kind = KindAt(p) /\ p \in Nat \X Nat
  BY PlaceOf DEF Write, Kinds, KindAt
<1>2. \A c : On(c, W) \subseteq On(c, U) /\ (c # w.channel => On(c, U) = On(c, W))
  BY DEF On
<1>3. On(w.channel, U) = On(w.channel, W) \cup {p}
  BY DEF On
<1> HIDE DEF w, U
<1>4. CASE values = Broken
  <2>1. after = Broken
    BY <1>4 DEF Accumulate
  <2>2. PICK c \in Channels : Mixed(On(c, W))
    BY <1>4 DEF Effect
  <2>3. Mixed(On(c, U))
    BY <1>2, <2>2 DEF Mixed
  <2> QED
    BY <2>1, <2>3 DEF Effect, U, w
<1>5. CASE values # Broken
  <2>1. /\ values \in [Channels -> Held]
        /\ \A c \in Channels : ~Mixed(On(c, W)) /\ IsValueOf(values[c], On(c, W))
    BY <1>5 DEF Effect
  <2>2. CASE w.channel \in Reserved
    <3>1. after = values
      BY <2>2 DEF Accumulate
    <3>2. \A c \in Channels : On(c, U) = On(c, W)
      BY <1>2, <2>2
    <3> QED
      BY <1>5, <2>1, <3>1, <3>2 DEF Effect, U, w
  <2>3. CASE w.channel \in Channels
    <3> DEFINE c0 == w.channel
               held == values[c0]
               V == On(c0, W)
    <3>1. /\ held \in Held /\ ~Mixed(V) /\ IsValueOf(held, V) /\ V \in SUBSET All
          /\ \A q \in V : Earlier(q, p)
          /\ w.channel \notin Reserved
      BY <2>1, <2>3 DEF On
    <3>2. ASSUME NEW v \in Held, after = [values EXCEPT ![c0] = v],
                 ~Mixed(V \cup {p}), IsValueOf(v, V \cup {p})
          PROVE  Effect(after, U)
      <4>1. after \in [Channels -> Held] /\ after # Broken
        BY <2>1, <2>3, <3>2, NotBroken
      <4>2. ASSUME NEW c \in Channels
            PROVE  ~Mixed(On(c, U)) /\ IsValueOf(after[c], On(c, U))
        <5>1. CASE c = c0
          BY <1>3, <2>1, <3>2, <5>1
        <5>2. CASE c # c0
          BY <1>2, <2>1, <3>2, <5>2
        <5> QED
          BY <5>1, <5>2
      <4> QED
        BY <4>1, <4>2 DEF Effect
    <3>3. CASE w.kind = "scalar"
      <4> DEFINE v == [kind |-> "scalar", items |-> w.items]
      <4>1. after = [values EXCEPT ![c0] = v]
        BY <1>5, <3>1, <3>3 DEF Accumulate
      <4>2. v \in Held /\ v = [kind |-> "scalar", items |-> <<p>>]
        BY <1>1 DEF Held
      <4>3. ~Mixed(V \cup {p}) /\ IsValueOf(v, V \cup {p})
        BY <1>1, <3>1, <3>3, <4>2, ScalarOnAny
      <4> QED
        BY <3>2, <4>1, <4>2, <4>3 DEF U, w
    <3>4. CASE w.kind = "list" /\ held.kind # "scalar"
      <4> DEFINE v == [kind |-> "list", items |-> held.items \o w.items]
      <4>1. after = [values EXCEPT ![c0] = v]
        BY <1>5, <3>1, <3>4 DEF Accumulate
      <4>2. v \in Held
        BY <1>1, <3>1 DEF Held
      <4>3. ~Mixed(V \cup {p}) /\ IsValueOf(v, V \cup {p})
        BY <1>1, <3>1, <3>4, ListOnLists
      <4> QED
        BY <3>2, <4>1, <4>2, <4>3 DEF U, w
    <3>5. CASE w.kind = "list" /\ held.kind = "scalar"
      <4>1. after = Broken
        BY <1>5, <3>1, <3>5 DEF Accumulate
      <4>2. PICK l \in V : KindAt(l) = "scalar"
        BY <3>1, <3>5, ScalarHeld
      <4>3. Mixed(On(c0, U))
        BY <1>1, <1>3, <3>1, <3>5, <4>2 DEF Mixed
      <4> QED
        BY <2>3, <4>1, <4>3 DEF Effect, U, w
    <3> QED
      BY <1>1, <3>3, <3>4, <3>5
  <2> QED
    BY <1>1, <2>2, <2>3
<1> QED
  BY <1>4, <1>5

-----------------------------------------------------------------------------
(* One checkpoint                                                           *)

LEMMA CheckpointEffect ==
  ASSUME SaverOk, Channels \cap Reserved = {},
         NEW n \in 1 .. Len(checkpoints),
         NEW W \in SUBSET All, \A q \in W : q[1] < n,
         NEW values, Effect(values, W)
  PROVE  Effect(FoldLeft(Accumulate, values, checkpoints[n]),
                W \cup ({n} \X DOMAIN checkpoints[n]))
<1> DEFINE f == checkpoints[n]
           D == DOMAIN f
           Values == [Channels -> Held] \cup {Broken}
           J == {e \in (SUBSET D) \X Values : Effect(e[2], W \cup ({n} \X e[1]))}
<1>1. f \in Seq(Write) /\ Len(f) \in Nat /\ D = 1 .. Len(f) /\ D \subseteq 0 .. Len(f) /\ n \in Nat
  BY ElementOfSeq DEF SaverOk
<1>2. \A e : Effect(e, W) => e \in Values
  BY DEF Effect
<1>3. \A e, T : Effect(e, W \cup ({n} \X T)) => e \in Values
  BY DEF Effect
<1>4. \A T \in SUBSET D : \A y : <<T, y>> \in J <=> Effect(y, W \cup ({n} \X T))
  BY <1>3
<1> HIDE DEF J, Values
<1>5. <<{}, values>> \in J
  <2>1. W \cup ({n} \X {}) = W
    OBVIOUS
  <2> QED
    BY <1>4, <2>1
<1>6. ASSUME NEW T \in SUBSET D, NEW x \in D, NEW y, \A t \in T : t < x, <<T, y>> \in J
      PROVE  <<T \cup {x}, AddWrite(<<>>, y, f[x])>> \in J
  <2> DEFINE V == W \cup ({n} \X T)
             p == <<n, x>>
  <2>1. Effect(y, V)
    BY <1>4, <1>6
  <2>2. /\ {n} \X D \subseteq All /\ p \in All /\ V \in SUBSET All
        /\ V \cup {p} = W \cup ({n} \X (T \cup {x})) /\ p[1] = n /\ p[2] = x
    BY DEF All, Places
  <2>3. \A q \in V : Earlier(q, p)
    BY <1>6 DEF Earlier
  <2> HIDE DEF V, p
  <2>4. Effect(Accumulate(y, checkpoints[p[1]][p[2]]), V \cup {p})
    BY <2>1, <2>2, <2>3, AccumulateEffect
  <2> QED
    BY <1>4, <2>2, <2>4 DEF AddWrite
<1>7. <<D, WriteFold!Fold(<<>>, values, f, D)>> \in J
  <2>1. WriteFold!Keeps(<<>>, f, D, J)
    BY <1>6 DEF WriteFold!Keeps
  <2> HIDE DEF f, D
  <2> QED
    BY <1>1, <1>5, <2>1, WriteFold!FoldKeeps
<1>8. FoldLeft(Accumulate, values, f) = WriteFold!Fold(<<>>, values, f, D)
  BY WritesFold
<1> QED
  BY <1>4, <1>7, <1>8

-----------------------------------------------------------------------------
(* One page                                                                 *)

Entry == [id : Nat, values : [Channels -> Held] \cup {Broken}]
(* Entries, oldest first, of the checkpoints above low.                    *)
Rebuilt(done, low) ==
  \A i \in 1 .. Len(done) :
    done[i].id = low + i /\ Effect(done[i].values, Places(low + 1, low + i))

LEMMA MorePlaces ==
  ASSUME NEW first \in Nat, NEW n \in Nat, first <= n
  PROVE  /\ Places(first, n) = Places(first, n - 1) \cup ({n} \X DOMAIN checkpoints[n])
         /\ \A q \in Places(first, n - 1) : q[1] < n
<1>1. first .. n = (first .. n - 1) \cup {n} /\ \A k \in first .. n - 1 : k < n
  OBVIOUS
<1>2. \A q \in Places(first, n - 1) : q[1] \in first .. n - 1
  BY DEF Places
<1>3. Places(first, n) = Places(first, n - 1) \cup ({n} \X DOMAIN checkpoints[n])
  BY <1>1 DEF Places
<1> QED
  BY <1>1, <1>2, <1>3

LEMMA NothingEffect == Effect(Nothing, {})
<1>1. Nothing \in [Channels -> Held] /\ \A c \in Channels : Nothing[c] = Absent
  BY DEF Nothing, Absent, Held
<1>2. \A c : On(c, {}) = {}
  BY DEF On
<1>3. ~Mixed({}) /\ IsValueOf(Absent, {})
  BY DEF Mixed, IsValueOf
<1> QED
  BY <1>1, <1>2, <1>3, NotBroken DEF Effect

(* The next entry of a page.                                               *)
LEMMA EntryEffect ==
  ASSUME SaverOk, Channels \cap Reserved = {}, NEW low \in Nat,
         NEW done \in Seq(Entry), Rebuilt(done, low), low + Len(done) + 1 <= Len(checkpoints)
  PROVE  LET n == low + Len(done) + 1
             more == AddEntry(checkpoints, done, n)
         IN  more \in Seq(Entry) /\ Len(more) = Len(done) + 1 /\ Rebuilt(more, low)
<1> DEFINE n == low + Len(done) + 1
           base == IF done = <<>> THEN Nothing ELSE done[Len(done)].values
           values == FoldLeft(Accumulate, base, checkpoints[n])
           e == [id |-> n, values |-> values]
           more == AddEntry(checkpoints, done, n)
<1>1. /\ Len(done) \in Nat /\ Len(checkpoints) \in Nat /\ n \in Nat
      /\ low + 1 \in Nat /\ low + 1 <= n /\ n \in 1 .. Len(checkpoints)
  BY DEF SaverOk
<1>2. more = Append(done, e)
  BY DEF AddEntry
<1>3. Effect(base, Places(low + 1, n - 1))
  <2>1. CASE done = <<>>
    <3>1. n - 1 = low /\ low + 1 .. low = {}
      BY <1>1, <2>1
    <3>2. Places(low + 1, low) = {}
      BY <3>1 DEF Places
    <3> QED
      BY <2>1, <3>1, <3>2, NothingEffect
  <2>2. CASE done # <<>>
    <3>1. Len(done) \in 1 .. Len(done) /\ n - 1 = low + Len(done)
      BY <1>1, <2>2, EmptySeq
    <3> QED
      BY <2>2, <3>1 DEF Rebuilt
  <2> QED
    BY <2>1, <2>2
<1>4. Places(low + 1, n - 1) \in SUBSET All
  <2>1. low + 1 .. n - 1 \subseteq 1 .. Len(checkpoints)
    BY <1>1
  <2> QED
    BY <2>1 DEF Places, All
<1> HIDE DEF n, base
<1>5. Effect(values, Places(low + 1, n))
  <2>1. \A q \in Places(low + 1, n - 1) : q[1] < n
    BY <1>1, MorePlaces
  <2>2. Effect(values, Places(low + 1, n - 1) \cup ({n} \X DOMAIN checkpoints[n]))
    BY <1>1, <1>3, <1>4, <2>1, CheckpointEffect
  <2> QED
    BY <1>1, <2>2, MorePlaces
<1>6. e \in Entry
  BY <1>1, <1>5 DEF Effect, Entry
<1> HIDE DEF e, more
<1>7. /\ more \in Seq(Entry) /\ Len(more) = Len(done) + 1
      /\ \A i \in 1 .. Len(done) : more[i] = done[i]
      /\ more[Len(done) + 1] = e
  BY <1>2, <1>6
<1>8. Rebuilt(more, low)
  <2>1. e.id = low + (Len(done) + 1) /\ Effect(e.values, Places(low + 1, low + (Len(done) + 1)))
    <3>1. low + (Len(done) + 1) = n
      BY <1>1 DEF n
    <3> QED
      BY <1>5, <3>1 DEF e
  <2>2. \A i \in 1 .. Len(more) : i \in 1 .. Len(done) \/ i = Len(done) + 1
    BY <1>1, <1>7
  <2> QED
    BY <1>7, <2>1, <2>2 DEF Rebuilt
<1> QED
  BY <1>7, <1>8 DEF more, n

(* The entries of the checkpoints above low, newest first.                 *)
LEMMA PageEffect ==
  ASSUME SaverOk, Channels \cap Reserved = {}, NEW low \in Nat, NEW count \in Nat,
         low + count <= Len(checkpoints),
         NEW ids, ids = [i \in 1 .. count |-> low + count + 1 - i]
  PROVE  LET es == Reconstruct(ids) IN
         /\ es \in Seq(Entry) /\ DOMAIN es = 1 .. count /\ Len(es) = count
         /\ \A i \in 1 .. count :
              /\ es[i].id = low + count + 1 - i
              /\ Effect(es[i].values, Places(low + 1, es[i].id))
<1> DEFINE rev == Reverse(ids)
           J == {e \in (SUBSET (1 .. count)) \X Seq(Entry) :
                   e[1] = 1 .. Len(e[2]) /\ Rebuilt(e[2], low)}
           done == EntryFold!Fold(checkpoints, <<>>, rev, DOMAIN rev)
<1>1. Len(ids) = count /\ DOMAIN rev = 1 .. count
  BY DEF Reverse
<1>2. \A j \in 1 .. count : rev[j] = low + j
  <2>1. ASSUME NEW j \in 1 .. count PROVE rev[j] = low + j
    <3>1. rev[j] = ids[(count - j) + 1] /\ (count - j) + 1 \in 1 .. count
      BY <1>1 DEF Reverse
    <3> QED
      BY <3>1
  <2> QED
    BY <2>1
<1>3. Len(checkpoints) \in Nat
  BY DEF SaverOk
<1>4. <<{}, <<>>>> \in J
  <2>1. Len(<<>>) = 0 /\ 1 .. 0 = {} /\ <<>> \in Seq(Entry)
    OBVIOUS
  <2> QED
    BY <2>1 DEF Rebuilt
<1>5. EntryFold!Keeps(checkpoints, rev, 1 .. count, J)
  <2> SUFFICES ASSUME NEW T \in SUBSET (1 .. count), NEW x \in 1 .. count, NEW d,
                      \A t \in T : t < x, \A t \in 1 .. count : t < x => t \in T,
                      <<T, d>> \in J
               PROVE  <<T \cup {x}, AddEntry(checkpoints, d, rev[x])>> \in J
    BY DEF EntryFold!Keeps
  <2>1. d \in Seq(Entry) /\ Len(d) \in Nat /\ T = 1 .. Len(d) /\ Rebuilt(d, low)
    OBVIOUS
  <2>2. Len(d) = x - 1
    <3>1. ~(Len(d) >= x)
      <4>1. Len(d) >= x => x \in T
        BY <2>1
      <4> QED
        BY <4>1
    <3>2. ~(Len(d) < x - 1)
      <4>1. Len(d) < x - 1 => Len(d) + 1 \in 1 .. count /\ Len(d) + 1 < x /\ Len(d) + 1 \notin T
        BY <2>1
      <4> QED
        BY <4>1
    <3> QED
      BY <2>1, <3>1, <3>2
  <2>3. rev[x] = low + Len(d) + 1 /\ low + Len(d) + 1 <= Len(checkpoints)
    BY <1>2, <1>3, <2>1, <2>2
  <2> DEFINE more == AddEntry(checkpoints, d, rev[x])
  <2>4. more \in Seq(Entry) /\ Len(more) = Len(d) + 1 /\ Rebuilt(more, low)
    BY <2>1, <2>3, EntryEffect
  <2>5. T \cup {x} = 1 .. Len(d) + 1
    BY <2>1, <2>2
  <2> HIDE DEF more, rev
  <2> QED
    BY <2>4, <2>5 DEF more
<1>6. <<1 .. count, done>> \in J
  <2>1. 1 .. count \subseteq 0 .. count
    OBVIOUS
  <2> HIDE DEF J, rev
  <2> QED
    BY <1>1, <1>4, <1>5, <2>1, EntryFold!FoldKeeps
<1> HIDE DEF done, rev
<1>7. done \in Seq(Entry) /\ Len(done) = count /\ Rebuilt(done, low)
  <2>1. done \in Seq(Entry) /\ 1 .. count = 1 .. Len(done) /\ Rebuilt(done, low) /\ Len(done) \in Nat
    BY <1>6
  <2>2. Len(done) = count
    <3>1. Len(done) > count => Len(done) \in 1 .. Len(done)
      BY <2>1
    <3>2. Len(done) < count => count \in 1 .. count
      OBVIOUS
    <3> QED
      BY <2>1, <3>1, <3>2
  <2> QED
    BY <2>1, <2>2
<1> DEFINE es == Reconstruct(ids)
<1>8. es = Reverse(done)
  BY EntriesFold DEF done, rev
<1>9. /\ es \in Seq(Entry) /\ DOMAIN es = 1 .. count /\ Len(es) = count
      /\ \A i \in 1 .. count : es[i] = done[(count - i) + 1] /\ (count - i) + 1 \in 1 .. count
  <2>1. \A i \in 1 .. count : (count - i) + 1 \in 1 .. count
    OBVIOUS
  <2>2. es = [i \in 1 .. count |-> done[(count - i) + 1]]
    BY <1>7, <1>8 DEF Reverse
  <2>3. \A i \in 1 .. count : done[i] \in Entry
    BY <1>7, ElementOfSeq
  <2>4. es \in [1 .. count -> Entry]
    BY <2>1, <2>2, <2>3
  <2> HIDE DEF es
  <2> QED
    BY <2>1, <2>2, <2>4
<1> HIDE DEF es
<1>10. ASSUME NEW i \in 1 .. count
       PROVE  /\ es[i].id = low + count + 1 - i
              /\ Effect(es[i].values, Places(low + 1, es[i].id))
  <2> DEFINE j == (count - i) + 1
  <2>1. j \in 1 .. count /\ es[i] = done[j] /\ low + j = low + count + 1 - i
    BY <1>9
  <2> HIDE DEF j
  <2>2. done[j].id = low + j /\ Effect(done[j].values, Places(low + 1, low + j))
    BY <1>7, <2>1 DEF Rebuilt
  <2> QED
    BY <2>1, <2>2
<1> QED
  BY <1>9, <1>10 DEF es

-----------------------------------------------------------------------------
(* One answer                                                               *)

Newest(cursor) == IF cursor = 0 THEN Len(checkpoints) ELSE cursor - 1
Count(limit, cursor) == IF Newest(cursor) < limit THEN Newest(cursor) ELSE limit

LEMMA ReadIs ==
  ASSUME SaverOk, NEW limit \in Int, limit >= 1, NEW cursor \in 0 .. Len(checkpoints)
  PROVE  LET es == ReadThreadHistory(limit, cursor)
             n == Newest(cursor)
             m == Count(limit, cursor)
         IN  /\ n \in 0 .. Len(checkpoints) /\ m \in 0 .. n
             /\ es \in Seq(Entry) /\ DOMAIN es = 1 .. m /\ Len(es) = m
             /\ \A i \in 1 .. m :
                  /\ es[i].id = n + 1 - i
                  /\ Effect(es[i].values, Places(n - m + 1, es[i].id))
<1> DEFINE n == Newest(cursor)
           m == Count(limit, cursor)
           ids == Alist(limit, cursor)
           low == n - m
<1>1. Len(checkpoints) \in Nat
  BY DEF SaverOk
<1>2. n \in 0 .. Len(checkpoints)
  BY <1>1 DEF Newest
<1>3. m \in 0 .. n
  BY <1>2 DEF Count
<1>4. ids = [i \in 1 .. m |-> n + 1 - i]
  BY DEF Alist, Newest, Count
<1> HIDE DEF n, m, ids
<1>5. low \in Nat /\ m \in Nat /\ low + m = n /\ n \in Nat
  BY <1>1, <1>2, <1>3
<1>6. ids = [i \in 1 .. m |-> low + m + 1 - i]
  BY <1>4, <1>5
<1>7. low + m <= Len(checkpoints)
  BY <1>1, <1>2, <1>5
<1> DEFINE es == Reconstruct(ids)
<1> HIDE DEF low
<1>8. /\ es \in Seq(Entry) /\ DOMAIN es = 1 .. m /\ Len(es) = m
      /\ \A i \in 1 .. m :
           /\ es[i].id = low + m + 1 - i
           /\ Effect(es[i].values, Places(low + 1, es[i].id))
  BY <1>5, <1>6, <1>7, HistoryAssumption, PageEffect
<1>9. ReadThreadHistory(limit, cursor) = es
  BY DEF ReadThreadHistory, ids
<1> QED
  BY <1>2, <1>3, <1>5, <1>8, <1>9 DEF n, m, low

(* An answer is refused, fails because an entry raised, or is the page.    *)
LEMMA AnswerIs ==
  ASSUME SaverOk, NEW limit \in Int, NEW before, Cursor(before) \in 0 .. Len(checkpoints)
  PROVE  LET answer == History(limit, before)
             es == ReadThreadHistory(limit, Cursor(before))
         IN  \/ answer = Error(422)
             \/ /\ limit >= 1 /\ answer = Error(500)
                /\ \E i \in DOMAIN es : es[i].values = Broken
             \/ /\ limit >= 1 /\ answer = [status |-> 200, entries |-> es]
                /\ \A i \in DOMAIN es : es[i].values # Broken
  BY DEF History

LEMMA AnswerTyped ==
  ASSUME SaverOk, NEW limit \in Int, NEW before, Cursor(before) \in 0 .. Len(checkpoints)
  PROVE  LET answer == History(limit, before) IN
         /\ answer.status \in {200, 422, 500}
         /\ answer.status # 200 => answer.entries = <<>>
         /\ \A i \in DOMAIN answer.entries : DOMAIN answer.entries[i].values = Channels
<1> DEFINE es == ReadThreadHistory(limit, Cursor(before))
<1>1. CASE History(limit, before) \in {Error(422), Error(500)}
  BY <1>1 DEF Error
<1>2. CASE /\ limit >= 1 /\ History(limit, before) = [status |-> 200, entries |-> es]
           /\ \A i \in DOMAIN es : es[i].values # Broken
  <2>1. ASSUME NEW i \in DOMAIN es PROVE DOMAIN es[i].values = Channels
    <3>1. Effect(es[i].values, Places(Newest(Cursor(before)) - Count(limit, Cursor(before)) + 1, es[i].id))
      BY <1>2, ReadIs
    <3> QED
      BY <1>2, <3>1 DEF Effect
  <2> QED
    BY <1>2, <2>1
<1> QED
  BY <1>1, <1>2, AnswerIs

LEMMA AnswerEffect ==
  ASSUME SaverOk, NEW limit \in Int, NEW before, Cursor(before) \in 0 .. Len(checkpoints)
  PROVE  NetEffect(History(limit, before))
<1> DEFINE answer == History(limit, before)
           es == ReadThreadHistory(limit, Cursor(before))
           n == Newest(Cursor(before))
           m == Count(limit, Cursor(before))
<1>1. CASE answer = Error(422)
  BY <1>1 DEF Error, NetEffect
<1>2. ASSUME limit >= 1
      PROVE  /\ n \in 0 .. Len(checkpoints) /\ m \in 0 .. n /\ Len(checkpoints) \in Nat
             /\ DOMAIN es = 1 .. m /\ Len(es) = m
             /\ \A i \in 1 .. m : /\ es[i].id = n + 1 - i
                                  /\ Effect(es[i].values, Places(n - m + 1, es[i].id))
  <2>1. Len(checkpoints) \in Nat
    BY DEF SaverOk
  <2>2. /\ n \in 0 .. Len(checkpoints) /\ m \in 0 .. n
        /\ DOMAIN es = 1 .. m /\ Len(es) = m
        /\ \A i \in 1 .. m : /\ es[i].id = n + 1 - i
                             /\ Effect(es[i].values, Places(n - m + 1, es[i].id))
    BY <1>2, ReadIs
  <2> QED
    BY <2>1, <2>2
<1> HIDE DEF es, n, m
<1>3. CASE /\ limit >= 1 /\ answer = Error(500)
           /\ \E i \in DOMAIN es : es[i].values = Broken
  <2>1. PICK i \in 1 .. m : es[i].values = Broken
    BY <1>2, <1>3
  <2>2. PICK c \in Channels : Mixed(On(c, Places(n - m + 1, es[i].id)))
    BY <1>2, <1>3, <2>1 DEF Effect
  <2>3. On(c, Places(n - m + 1, es[i].id)) \subseteq On(c, All)
    <3>1. n - m + 1 .. es[i].id \subseteq 1 .. Len(checkpoints)
      BY <1>2, <1>3
    <3> QED
      BY <3>1 DEF On, Places, All
  <2>4. Mixed(WritesTo(c, 1, Len(checkpoints)))
    BY <2>2, <2>3, WritesToOn DEF Mixed, All
  <2> QED
    BY <1>3, <2>4 DEF NetEffect, Error
<1>4. CASE /\ limit >= 1 /\ answer = [status |-> 200, entries |-> es]
           /\ \A i \in DOMAIN es : es[i].values # Broken
  <2>1. ASSUME NEW i \in DOMAIN es, NEW c \in Channels
        PROVE  LET ws == WritesTo(c, es[Len(es)].id, es[i].id)
               IN  ~Mixed(ws) /\ IsValueOf(es[i].values[c], ws)
    <3>1. m \in 1 .. m /\ i \in 1 .. m /\ es[Len(es)].id = n - m + 1
      BY <1>2, <1>4
    <3>2. Effect(es[i].values, Places(n - m + 1, es[i].id))
      BY <1>2, <1>4, <3>1
    <3> QED
      BY <1>4, <3>1, <3>2, WritesToOn DEF Effect
  <2> QED
    BY <1>4, <2>1 DEF NetEffect
<1> QED
  BY <1>1, <1>3, <1>4, AnswerIs DEF es

LEMMA EveryPage ==
  ASSUME SaverOk, NEW limit \in Limits, NEW id \in 0 .. Len(checkpoints)
  PROVE  limit \in Int /\ Cursor([form |-> "id", id |-> id]) \in 0 .. Len(checkpoints)
  BY HistoryAssumption DEF Cursor

-----------------------------------------------------------------------------
(* The theorems                                                             *)

ListOk == listed \in Seq(1 .. Len(checkpoints)) /\ PagesTile
HistoryInv == SaverOk /\ ListOk

LEMMA Added == ASSUME HistoryInv, NewCheckpoint PROVE HistoryInv'
<1>1. /\ Len(checkpoints) \in Nat /\ DOMAIN checkpoints = 1 .. Len(checkpoints)
      /\ checkpoints' = Append(checkpoints, <<>>) /\ <<>> \in Seq(Write)
      /\ listed' = listed
  BY DEF HistoryInv, SaverOk, NewCheckpoint
<1>2. /\ checkpoints' \in Seq(Seq(Write)) /\ Len(checkpoints') = Len(checkpoints) + 1
      /\ DOMAIN checkpoints' = 1 .. Len(checkpoints) + 1
      /\ \A n \in 1 .. Len(checkpoints) : checkpoints'[n] = checkpoints[n]
      /\ checkpoints'[Len(checkpoints) + 1] = <<>>
  BY <1>1 DEF HistoryInv, SaverOk
<1>3. SaverOk'
  <2> SUFFICES ASSUME NEW n \in DOMAIN checkpoints', NEW i \in DOMAIN checkpoints'[n]
               PROVE  checkpoints'[n][i].items = <<<<n, i>>>>
    BY <1>2 DEF SaverOk
  <2>1. CASE n \in 1 .. Len(checkpoints)
    BY <1>1, <1>2, <2>1 DEF HistoryInv, SaverOk
  <2>2. CASE n = Len(checkpoints) + 1
    BY <1>2, <2>2
  <2> QED
    BY <1>1, <1>2, <2>1, <2>2
<1>4. ListOk'
  <2>1. 1 .. Len(checkpoints) \subseteq 1 .. Len(checkpoints')
    BY <1>1, <1>2
  <2>2. listed \in Seq(1 .. Len(checkpoints'))
    BY <2>1, SeqMonotonic DEF HistoryInv, ListOk
  <2> QED
    BY <1>1, <2>2 DEF HistoryInv, ListOk, PagesTile
<1> QED
  BY <1>3, <1>4 DEF HistoryInv

LEMMA Written ==
  ASSUME HistoryInv, NEW c \in Channels \cup Reserved, NEW k \in Kinds, WriteTo(c, k)
  PROVE  HistoryInv'
<1> DEFINE n == Len(checkpoints)
           ws == checkpoints[n]
           w == [channel |-> c, kind |-> k, items |-> <<<<n, Len(ws) + 1>>>>]
<1>1. /\ n \in Nat /\ n \in 1 .. n /\ checkpoints' = [checkpoints EXCEPT ![n] = Append(ws, w)]
      /\ checkpoints \in Seq(Seq(Write)) /\ listed' = listed /\ DOMAIN checkpoints = 1 .. n
  BY DEF HistoryInv, SaverOk, WriteTo
<1>2. ws \in Seq(Write) /\ Len(ws) \in Nat /\ DOMAIN ws = 1 .. Len(ws) /\ w \in Write
  <2>1. ws \in Seq(Write)
    BY <1>1, ElementOfSeq
  <2>2. <<n, Len(ws) + 1>> \in Nat \X Nat
    BY <1>1, <2>1
  <2> QED
    BY <2>1, <2>2 DEF Write
<1> HIDE DEF n
<1>3. /\ Append(ws, w) \in Seq(Write) /\ DOMAIN Append(ws, w) = 1 .. Len(ws) + 1
      /\ \A i \in 1 .. Len(ws) : Append(ws, w)[i] = ws[i]
      /\ Append(ws, w)[Len(ws) + 1] = w
  BY <1>2
<1>4. /\ checkpoints' \in Seq(Seq(Write)) /\ Len(checkpoints') = n /\ DOMAIN checkpoints' = 1 .. n
      /\ \A j \in 1 .. n : checkpoints'[j] = IF j = n THEN Append(ws, w) ELSE checkpoints[j]
  <2> HIDE DEF ws, w
  <2>1. checkpoints' \in Seq(Seq(Write)) /\ Len(checkpoints') = Len(checkpoints)
    BY <1>1, <1>3, ExceptSeq
  <2> QED
    BY <1>1, <2>1 DEF n
<1>5. SaverOk'
  <2> SUFFICES ASSUME NEW j \in DOMAIN checkpoints', NEW i \in DOMAIN checkpoints'[j]
               PROVE  checkpoints'[j][i].items = <<<<j, i>>>>
    BY <1>4 DEF SaverOk
  <2>1. CASE j # n
    BY <1>1, <1>4, <2>1 DEF HistoryInv, SaverOk
  <2>2. CASE j = n /\ i \in 1 .. Len(ws)
    <3>1. checkpoints'[j][i] = checkpoints[j][i]
      BY <1>1, <1>3, <1>4, <2>2
    <3>2. checkpoints[j][i].items = <<<<j, i>>>>
      BY <1>1, <1>2, <2>2 DEF HistoryInv, SaverOk
    <3> QED
      BY <3>1, <3>2
  <2>3. CASE j = n /\ i = Len(ws) + 1
    <3>1. checkpoints'[j][i] = w
      BY <1>1, <1>3, <1>4, <2>3
    <3>2. w.items = <<<<n, Len(ws) + 1>>>>
      OBVIOUS
    <3> HIDE DEF w, ws
    <3>3. checkpoints'[j][i].items = w.items
      BY <3>1
    <3>4. <<<<j, i>>>> = <<<<n, Len(ws) + 1>>>>
      BY <2>3
    <3> QED
      BY <3>2, <3>3, <3>4
  <2> QED
    BY <1>2, <1>3, <1>4, <2>1, <2>2, <2>3
<1>6. ListOk'
  BY <1>1, <1>4 DEF HistoryInv, ListOk, PagesTile, n
<1> QED
  BY <1>5, <1>6 DEF HistoryInv

(* The client asks again from the last checkpoint it has.                  *)
LEMMA Fetched ==
  ASSUME HistoryInv, NEW limit \in Limits, NEW form \in Forms, Fetch(limit, form)
  PROVE  HistoryInv'
<1> DEFINE cursor == Cursor(Before(form))
           es == ReadThreadHistory(limit, cursor)
           n == Newest(cursor)
           m == Count(limit, cursor)
           ids == [i \in DOMAIN History(limit, Before(form)).entries |->
                     History(limit, Before(form)).entries[i].id]
           l == Len(listed)
<1>1. /\ SaverOk /\ listed \in Seq(1 .. Len(checkpoints)) /\ l \in Nat
      /\ \A i \in 1 .. l - 1 : listed[i + 1] = listed[i] - 1
      /\ \A i \in 1 .. l : listed[i] \in 1 .. Len(checkpoints)
      /\ Len(checkpoints) \in Nat /\ limit \in Int
      /\ checkpoints' = checkpoints /\ listed' = listed \o ids
  <2>1. checkpoints' = checkpoints /\ listed' = listed \o ids
    BY DEF Fetch
  <2>2. SaverOk /\ listed \in Seq(1 .. Len(checkpoints)) /\ PagesTile
    BY DEF HistoryInv, ListOk
  <2>3. Len(checkpoints) \in Nat /\ limit \in Int
    BY <2>2, HistoryAssumption DEF SaverOk
  <2>4. \A i \in 1 .. l : listed[i] \in 1 .. Len(checkpoints)
    BY <2>2, ElementOfSeq
  <2>5. l \in Nat /\ \A i \in 1 .. l - 1 : listed[i + 1] = listed[i] - 1
    BY <2>2 DEF PagesTile
  <2> QED
    BY <2>1, <2>2, <2>3, <2>4, <2>5
<1>2. /\ cursor \in 0 .. Len(checkpoints)
      /\ listed # <<>> => cursor = listed[l] /\ l \in 1 .. l
  <2>1. CASE listed = <<>>
    BY <1>1, <2>1 DEF Cursor, Before
  <2>2. CASE listed # <<>>
    <3>1. l \in 1 .. l
      BY <1>1, <2>2, EmptySeq
    <3>2. cursor = listed[l]
      BY <2>2 DEF Cursor, Before, Forms
    <3> QED
      BY <1>1, <3>1, <3>2
  <2> QED
    BY <2>1, <2>2
<1> HIDE DEF cursor, es, n, m, ids, l
<1>3. /\ ids \in Seq(1 .. Len(checkpoints)) /\ Len(ids) \in Nat /\ DOMAIN ids = 1 .. Len(ids)
      /\ \A i \in 1 .. Len(ids) - 1 : ids[i + 1] = ids[i] - 1
      /\ (ids # <<>> /\ listed # <<>>) => ids[1] = listed[l] - 1
  <2>1. CASE History(limit, Before(form)) \in {Error(422), Error(500)}
    <3>1. History(limit, Before(form)).entries = <<>>
      BY <2>1 DEF Error
    <3>2. ids = <<>>
      BY <3>1 DEF ids
    <3> QED
      BY <3>2
  <2>2. CASE limit >= 1 /\ History(limit, Before(form)) = [status |-> 200, entries |-> es]
    <3>1. /\ n \in 0 .. Len(checkpoints) /\ m \in 0 .. n
          /\ DOMAIN es = 1 .. m /\ \A i \in 1 .. m : es[i].id = n + 1 - i
      BY <1>1, <1>2, <2>2, ReadIs DEF es, n, m
    <3>2. ids = [i \in 1 .. m |-> n + 1 - i]
      BY <2>2, <3>1 DEF ids
    <3>3. m \in Nat /\ n \in Nat /\ \A i \in 1 .. m : n + 1 - i \in 1 .. Len(checkpoints)
      BY <1>1, <3>1
    <3>4. ids \in Seq(1 .. Len(checkpoints)) /\ Len(ids) = m
      BY <3>2, <3>3
    <3>5. ASSUME ids # <<>>, listed # <<>> PROVE ids[1] = listed[l] - 1
      <4>1. m >= 1
        BY <3>3, <3>4, <3>5
      <4>2. ids[1] = n
        BY <3>2, <3>3, <4>1
      <4>3. n = listed[l] - 1
        BY <1>1, <1>2, <3>5 DEF n, Newest
      <4> QED
        BY <4>2, <4>3
    <3>6. \A i \in 1 .. m - 1 : ids[i + 1] = ids[i] - 1
      BY <3>2, <3>3
    <3> QED
      BY <3>2, <3>3, <3>4, <3>5, <3>6
  <2> QED
    BY <1>1, <1>2, <2>1, <2>2, AnswerIs DEF cursor, es
<1> DEFINE more == listed \o ids
           k == Len(ids)
<1>4. /\ more \in Seq(1 .. Len(checkpoints)) /\ Len(more) = l + k /\ k \in Nat
      /\ \A i \in 1 .. l : more[i] = listed[i]
      /\ \A i \in 1 .. k : more[l + i] = ids[i]
  BY <1>1, <1>3 DEF l
<1> HIDE DEF more, k
<1>5. ASSUME NEW i \in 1 .. l + k - 1 PROVE more[i + 1] = more[i] - 1
  <2>1. CASE i < l
    <3>1. i \in 1 .. l - 1 /\ i \in 1 .. l /\ i + 1 \in 1 .. l
      BY <1>1, <1>4, <2>1
    <3> QED
      BY <1>1, <1>4, <3>1
  <2>2. CASE i = l
    <3>1. 1 \in 1 .. k /\ i \in 1 .. l
      BY <1>1, <1>4, <2>2
    <3>2. listed # <<>> /\ ids # <<>>
      BY <1>1, <1>3, <3>1 DEF k, l
    <3>3. more[l + 1] = ids[1] /\ more[l] = listed[l]
      BY <1>4, <2>2, <3>1
    <3> QED
      BY <1>3, <2>2, <3>2, <3>3
  <2>3. CASE i > l
    <3>1. PICK j \in 1 .. k - 1 : i = l + j
      <4>1. i - l \in 1 .. k - 1 /\ i = l + (i - l)
        BY <1>1, <1>4, <2>3
      <4> QED
        BY <4>1
    <3>2. j \in 1 .. k /\ j + 1 \in 1 .. k /\ i + 1 = l + (j + 1)
      BY <1>1, <1>4, <3>1
    <3>3. more[i] = ids[j] /\ more[i + 1] = ids[j + 1]
      BY <1>4, <3>1, <3>2
    <3> QED
      BY <1>3, <3>1, <3>3 DEF k
  <2> QED
    BY <1>1, <1>4, <2>1, <2>2, <2>3
<1>6. listed' = more /\ SaverOk'
  BY <1>1 DEF more, SaverOk
<1> QED
  BY <1>1, <1>4, <1>5, <1>6 DEF HistoryInv, ListOk, PagesTile

LEMMA HistoryStep == HistoryInv /\ [Next]_vars => HistoryInv'
<1> SUFFICES ASSUME HistoryInv, [Next]_vars PROVE HistoryInv'
  OBVIOUS
<1>1. CASE UNCHANGED vars
  BY <1>1 DEF vars, HistoryInv, SaverOk, ListOk, PagesTile
<1> QED
  BY <1>1, Added, Written, Fetched DEF Next

LEMMA HistoryInit == Init => HistoryInv
<1> SUFFICES ASSUME Init PROVE HistoryInv
  OBVIOUS
<1>1. checkpoints = <<>> /\ listed = <<>> /\ Len(<<>>) = 0 /\ DOMAIN <<>> = {}
  BY DEF Init
<1>2. SaverOk
  BY <1>1 DEF SaverOk
<1>3. ListOk
  BY <1>1 DEF ListOk, PagesTile
<1> QED
  BY <1>2, <1>3 DEF HistoryInv

LEMMA HistoryAlways == Spec => []HistoryInv
  BY HistoryInit, HistoryStep, PTL DEF Spec

(* The saver's writes, the client's list and every answer keep their shape *)
(* (state.py:95-133, router.py:163-185): an entry has a value for each     *)
(* channel of the state, an error has no entries.                          *)
THEOREM HistoryTyping == Spec => []TypeOK
<1>1. HistoryInv => TypeOK
  <2> SUFFICES ASSUME HistoryInv PROVE TypeOK
    OBVIOUS
  <2>1. ASSUME NEW n \in DOMAIN checkpoints, NEW i \in DOMAIN checkpoints[n]
        PROVE  /\ checkpoints[n][i].channel \in Channels \cup Reserved
               /\ checkpoints[n][i].kind \in Kinds /\ checkpoints[n][i].items = <<<<n, i>>>>
    <3>1. checkpoints[n] \in Seq(Write)
      BY ElementOfSeq DEF HistoryInv, SaverOk
    <3>2. checkpoints[n][i] \in Write
      BY <3>1, ElementOfSeq
    <3> QED
      BY <3>2 DEF HistoryInv, SaverOk, Write
  <2>2. SaverOk /\ listed \in Seq(1 .. Len(checkpoints))
    BY DEF HistoryInv, ListOk
  <2> QED
    BY <2>1, <2>2, EveryPage, AnswerTyped DEF TypeOK, Pages
<1> QED
  BY <1>1, HistoryAlways, PTL

(* Page after page, whatever sizes a client asks for and while checkpoints *)
(* are added, it gets the checkpoints below its first one, newest first:   *)
(* none twice, none skipped (router.py:163-185, the before cursor).        *)
THEOREM PagesAlwaysTile == Spec => []PagesTile
<1>1. HistoryInv => PagesTile
  BY DEF HistoryInv, ListOk
<1> QED
  BY <1>1, HistoryAlways, PTL

(* The values of an entry are, channel by channel, what the writes from    *)
(* the oldest checkpoint of its page to its own leave, and a page fails    *)
(* only if a list was written to a channel that held a scalar              *)
(* (state.py:112-131).                                                     *)
THEOREM NetEffects == Spec => []EntriesAreNetEffect
<1>1. HistoryInv => EntriesAreNetEffect
  <2> SUFFICES ASSUME HistoryInv PROVE EntriesAreNetEffect
    OBVIOUS
  <2>1. SaverOk
    BY DEF HistoryInv
  <2> QED
    BY <2>1, EveryPage, AnswerEffect DEF EntriesAreNetEffect, Pages
<1> QED
  BY <1>1, HistoryAlways, PTL
=============================================================================
