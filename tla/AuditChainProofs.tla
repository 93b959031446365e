---------------------------- MODULE AuditChainProofs ----------------------------
(* Soundness of the audit chain for any number of processes, rows, cases   *)
(* and users: the chain itself, its receipts, and what verify_chain says.  *)
EXTENDS AuditChain, TLAPS

(* A prune record commits to hashes and a hash to prune records, so links  *)
(* have no set of their own: a sequence is one over its own elements.      *)
IsSeq(s) == s \in Seq({s[i] : i \in DOMAIN s})

LEMMA SeqIsSeq == ASSUME NEW S, NEW s \in Seq(S) PROVE IsSeq(s)
  BY DEF IsSeq

LEMMA Wider == ASSUME NEW s, IsSeq(s), NEW T PROVE s \in Seq({s[i] : i \in DOMAIN s} \cup T)
  BY DEF IsSeq

LEMMA EmptyIsSeq == IsSeq(<<>>) /\ Len(<<>>) = 0
  BY DEF IsSeq

LEMMA Append1 ==
  ASSUME NEW s, IsSeq(s), NEW x
  PROVE  /\ IsSeq(Append(s, x))
         /\ Len(s) \in Nat /\ Len(Append(s, x)) = Len(s) + 1
         /\ Append(s, x)[Len(s) + 1] = x
         /\ \A i \in 1..Len(s) : Append(s, x)[i] = s[i]
<1> DEFINE T == {s[i] : i \in DOMAIN s} \cup {x}
<1>1. s \in Seq(T) /\ x \in T
  BY Wider
<1>2. Append(s, x) \in Seq(T)
  BY <1>1
<1>3. IsSeq(Append(s, x))
  BY <1>2, SeqIsSeq
<1> HIDE DEF T
<1> QED
  BY <1>1, <1>2, <1>3

LEMMA Concat ==
  ASSUME NEW s, IsSeq(s), NEW t, IsSeq(t)
  PROVE  /\ IsSeq(s \o t)
         /\ Len(s) \in Nat /\ Len(t) \in Nat /\ Len(s \o t) = Len(s) + Len(t)
         /\ \A i \in 1..Len(s) : (s \o t)[i] = s[i]
         /\ \A i \in 1..Len(t) : (s \o t)[Len(s) + i] = t[i]
<1> DEFINE T == {s[i] : i \in DOMAIN s} \cup {t[i] : i \in DOMAIN t}
<1>1. s \in Seq(T) /\ t \in Seq(T)
  BY Wider
<1> HIDE DEF T
<1>2. s \o t \in Seq(T)
  BY <1>1
<1>3. IsSeq(s \o t)
  BY <1>2, SeqIsSeq
<1> QED
  BY <1>1, <1>2, <1>3

LEMMA Longer ==
  \A s, t, u : IsSeq(s) /\ IsSeq(t) /\ u = s \o t =>
    /\ Len(s) \in Nat /\ Len(t) \in Nat /\ Len(u) = Len(s) + Len(t)
    /\ \A i \in 1..Len(s) : u[i] = s[i]
    /\ \A i \in 1..Len(t) : u[Len(s) + i] = t[i]
<1> SUFFICES ASSUME NEW s, NEW t, IsSeq(s), IsSeq(t)
             PROVE  /\ Len(s) \in Nat /\ Len(t) \in Nat /\ Len(s \o t) = Len(s) + Len(t)
                    /\ \A i \in 1..Len(s) : (s \o t)[i] = s[i]
                    /\ \A i \in 1..Len(t) : (s \o t)[Len(s) + i] = t[i]
  OBVIOUS
<1> QED
  BY Concat

(* Two links chained off the same one differ when their contents do.       *)
LEMMA AppendInjective ==
  ASSUME NEW s, IsSeq(s), NEW x, NEW y, Append(s, x) = Append(s, y)
  PROVE  x = y
  BY Append1

LEMMA Domains == ASSUME NEW s, IsSeq(s) PROVE DOMAIN s = 1..Len(s) /\ Len(s) \in Nat
  BY DEF IsSeq

(***************************************************************************)
(* A chain is good if every link is chained off the one before it, seals a *)
(* row or records a purge of links before it, and no row is sealed twice.  *)
(***************************************************************************)
HashBefore(c, i) == IF i = 1 THEN <<>> ELSE c[i - 1].hash

Chained(c, i) ==
  /\ IsSeq(c[i].prev)
  /\ c[i].hash = Append(c[i].prev, c[i].what)
  /\ c[i].prev = HashBefore(c, i)

IsRow(what) == what = RowContent(what.id, what.actor) /\ what.id \in Ids

IsRecord(c, i) ==
  LET what == c[i].what
  IN  /\ what = PruneContent(what.seqs, what.digest)
      /\ what.seqs # {}
      /\ what.seqs \subseteq 1..(i - 1)
      /\ what.digest = {c[s].hash : s \in what.seqs}

SealsOnce(c) ==
  \A i, j \in 1..Len(c) :
    c[i].what.kind = "row" /\ c[j].what.kind = "row" /\ c[i].what.id = c[j].what.id => i = j

Good(c) ==
  /\ IsSeq(c)
  /\ \A i \in 1..Len(c) : Chained(c, i) /\ (IsRow(c[i].what) \/ IsRecord(c, i))
  /\ SealsOnce(c)

LEMMA Kinds ==
  /\ \A r, u : RowContent(r, u).kind = "row" /\ RowContent(r, u).id = r
                 /\ RowContent(r, u).actor = u /\ RowContent(r, u).seqs = {}
  /\ \A s, d : PruneContent(s, d).kind = "prune" /\ PruneContent(s, d).seqs = s
                 /\ PruneContent(s, d).digest = d
  /\ \A what : IsRow(what) => what.kind = "row" /\ what.id \in Ids /\ what.seqs = {}
  /\ \A c, i : IsRecord(c, i) => c[i].what.kind = "prune"
<1>1. \A r, u : RowContent(r, u).kind = "row" /\ RowContent(r, u).id = r
                 /\ RowContent(r, u).actor = u /\ RowContent(r, u).seqs = {}
  BY DEF RowContent
<1>2. \A s, d : PruneContent(s, d).kind = "prune" /\ PruneContent(s, d).seqs = s
                 /\ PruneContent(s, d).digest = d
  BY DEF PruneContent
<1>3. \A what : IsRow(what) => what.kind = "row" /\ what.id \in Ids /\ what.seqs = {}
  BY <1>1 DEF IsRow
<1>4. \A c, i : IsRecord(c, i) => c[i].what.kind = "prune"
  BY <1>2 DEF IsRecord
<1> QED
  BY <1>1, <1>2, <1>3, <1>4

(* What a good chain promises of itself, ChainSound says of chain.         *)
LEMMA GoodIsSound == ASSUME Good(chain) PROVE ChainSound
<1>1. DOMAIN chain = 1..Len(chain) /\ Len(chain) \in Nat
  BY Domains DEF Good
<1>2. ASSUME NEW i \in DOMAIN chain PROVE ~BrokenLink(i) /\ ~InvalidRecord(i)
  <2>1. Chained(chain, i) /\ (IsRow(chain[i].what) \/ IsRecord(chain, i))
    BY <1>1, <1>2 DEF Good
  <2>2. ~BrokenLink(i)
    BY <2>1 DEF BrokenLink, PrevOf, Chained, HashBefore
  <2>3. CASE IsRow(chain[i].what)
    BY <2>2, <2>3, Kinds DEF InvalidRecord
  <2>4. CASE IsRecord(chain, i)
    <3>1. \A s \in chain[i].what.seqs : s < i
      BY <1>1, <1>2, <2>4 DEF IsRecord
    <3>2. chain[i].hash = Append(chain[i].prev, chain[i].what)
      BY <2>1 DEF Chained
    <3>3. /\ chain[i].what.seqs # {}
          /\ chain[i].what.digest = {chain[s].hash : s \in chain[i].what.seqs}
          /\ chain[i].what.kind = "prune"
      BY <2>4, Kinds DEF IsRecord
    <3> QED
      BY <2>2, <3>1, <3>2, <3>3 DEF InvalidRecord, Recorded
  <2> QED
    BY <2>1, <2>3, <2>4
<1>3. SealsOnce(chain)
  BY DEF Good
<1> QED
  BY <1>1, <1>2, <1>3 DEF ChainSound, SealsOnce

(* Links that may follow a good chain c: they continue it, seal rows it    *)
(* has not sealed, each once, or record a purge of links it has.           *)
Continues(c, links) ==
  /\ IsSeq(links)
  /\ \A i \in 1..Len(links) :
       /\ IsSeq(links[i].prev)
       /\ links[i].hash = Append(links[i].prev, links[i].what)
       /\ links[i].prev = IF i = 1 THEN HashOf(c) ELSE links[i - 1].hash
       /\ \/ /\ IsRow(links[i].what)
             /\ \A j \in 1..Len(c) :
                  c[j].what.kind = "row" => c[j].what.id # links[i].what.id
          \/ /\ links[i].what = PruneContent(links[i].what.seqs, links[i].what.digest)
             /\ links[i].what.seqs # {}
             /\ links[i].what.seqs \subseteq 1..Len(c)
             /\ links[i].what.digest = {c[s].hash : s \in links[i].what.seqs}
  /\ SealsOnce(links)

LEMMA GoodGrows ==
  ASSUME NEW c, Good(c), NEW l, Continues(c, l)
  PROVE  Good(c \o l)
<1> DEFINE d == c \o l
           n == Len(c)
           m == Len(l)
<1>1. /\ IsSeq(c) /\ IsSeq(l) /\ IsSeq(d)
      /\ n \in Nat /\ m \in Nat /\ Len(d) = n + m
      /\ \A i \in 1..n : d[i] = c[i]
      /\ \A i \in 1..m : d[n + i] = l[i]
  BY Concat DEF Good, Continues
<1> HIDE DEF d
<1>2. \A i \in 1..n : Chained(c, i) /\ (IsRow(c[i].what) \/ IsRecord(c, i))
  BY DEF Good
<1>3. HashOf(c) = HashBefore(d, n + 1)
  <2>1. CASE n = 0
    <3>1. c = <<>>
      BY <1>1, <2>1 DEF IsSeq
    <3> QED
      BY <2>1, <3>1 DEF HashOf, HashBefore
  <2>2. CASE n # 0
    <3>1. c # <<>> /\ n \in 1..n /\ n + 1 # 1 /\ (n + 1) - 1 = n
      BY <1>1, <2>2, EmptyIsSeq
    <3>2. d[n] = c[n]
      BY <1>1, <3>1
    <3> QED
      BY <3>1, <3>2 DEF HashOf, HashBefore
  <2> QED
    BY <2>1, <2>2
<1>4. ASSUME NEW i \in 1..n PROVE Chained(d, i) /\ (IsRow(d[i].what) \/ IsRecord(d, i))
  <2>1. d[i] = c[i] /\ Chained(c, i)
    BY <1>1, <1>2, <1>4
  <2>2. HashBefore(d, i) = HashBefore(c, i)
    <3>1. CASE i = 1
      BY <3>1 DEF HashBefore
    <3>2. CASE i # 1
      <4>1. i - 1 \in 1..n
        BY <1>1, <1>4, <3>2
      <4>2. d[i - 1] = c[i - 1]
        BY <1>1, <4>1
      <4> QED
        BY <3>2, <4>2 DEF HashBefore
    <3> QED
      BY <3>1, <3>2
  <2>3. Chained(d, i)
    BY <2>1, <2>2 DEF Chained
  <2>4. CASE IsRow(c[i].what)
    BY <2>1, <2>3, <2>4
  <2>5. CASE IsRecord(c, i)
    <3>1. c[i].what.seqs \subseteq 1..n
      BY <1>1, <1>4, <2>5 DEF IsRecord
    <3>2. {d[s].hash : s \in c[i].what.seqs} = {c[s].hash : s \in c[i].what.seqs}
      BY <1>1, <3>1
    <3>3. IsRecord(d, i)
      BY <2>1, <2>5, <3>2 DEF IsRecord
    <3> QED
      BY <2>3, <3>3
  <2> QED
    BY <1>2, <1>4, <2>4, <2>5
<1>5. ASSUME NEW i \in 1..m
      PROVE  Chained(d, n + i) /\ (IsRow(d[n + i].what) \/ IsRecord(d, n + i))
  <2>1. d[n + i] = l[i]
    BY <1>1, <1>5
  <2>2. l[i].prev = HashBefore(d, n + i)
    <3>1. CASE i = 1
      BY <1>3, <1>5, <3>1 DEF Continues
    <3>2. CASE i # 1
      <4>1. i - 1 \in 1..m /\ n + i # 1 /\ (n + i) - 1 = n + (i - 1)
        BY <1>1, <1>5, <3>2
      <4>2. d[n + (i - 1)] = l[i - 1]
        BY <1>1, <4>1
      <4>3. l[i].prev = l[i - 1].hash
        BY <1>5, <3>2 DEF Continues
      <4> QED
        BY <4>1, <4>2, <4>3 DEF HashBefore
    <3> QED
      BY <3>1, <3>2
  <2>3. IsSeq(l[i].prev) /\ l[i].hash = Append(l[i].prev, l[i].what)
    BY <1>5 DEF Continues
  <2>4. Chained(d, n + i)
    BY <2>1, <2>2, <2>3 DEF Chained
  <2>5. CASE IsRow(l[i].what)
    BY <2>1, <2>4, <2>5
  <2>6. CASE /\ l[i].what = PruneContent(l[i].what.seqs, l[i].what.digest)
             /\ l[i].what.seqs # {}
             /\ l[i].what.seqs \subseteq 1..n
             /\ l[i].what.digest = {c[s].hash : s \in l[i].what.seqs}
    <3>1. {d[s].hash : s \in l[i].what.seqs} = {c[s].hash : s \in l[i].what.seqs}
      BY <1>1, <2>6
    <3>2. \A s \in 1..n : s \in 1..((n + i) - 1)
      BY <1>1, <1>5
    <3>3. l[i].what.seqs \subseteq 1..((n + i) - 1)
      BY <2>6, <3>2
    <3>4. IsRecord(d, n + i)
      BY <2>1, <2>6, <3>1, <3>3 DEF IsRecord
    <3> QED
      BY <2>4, <3>4
  <2> QED
    BY <1>5, <2>5, <2>6 DEF Continues
<1>6. \A k \in 1..Len(d) : k \in 1..n \/ \E i \in 1..m : k = n + i
  <2> SUFFICES ASSUME NEW k \in 1..Len(d), k \notin 1..n
               PROVE  \E i \in 1..m : k = n + i
    OBVIOUS
  <2>1. k - n \in 1..m /\ k = n + (k - n)
    BY <1>1
  <2> QED
    BY <2>1
<1>7. SealsOnce(d)
  <2> SUFFICES ASSUME NEW i \in 1..Len(d), NEW j \in 1..Len(d),
                      d[i].what.kind = "row", d[j].what.kind = "row",
                      d[i].what.id = d[j].what.id
               PROVE  i = j
    BY DEF SealsOnce
  <2>1. ASSUME NEW a \in 1..n, NEW b \in 1..m,
               d[a].what.kind = "row", d[n + b].what.kind = "row",
               d[a].what.id = d[n + b].what.id
        PROVE  FALSE
    <3>1. d[a] = c[a] /\ d[n + b] = l[b]
      BY <1>1, <2>1
    <3>2. l[b].what # PruneContent(l[b].what.seqs, l[b].what.digest)
      BY <2>1, <3>1, Kinds
    <3>3. \A k \in 1..n : c[k].what.kind = "row" => c[k].what.id # l[b].what.id
      BY <2>1, <3>2 DEF Continues
    <3> QED
      BY <2>1, <3>1, <3>3
  <2>2. CASE i \in 1..n /\ j \in 1..n
    <3>1. d[i] = c[i] /\ d[j] = c[j]
      BY <1>1, <2>2
    <3> QED
      BY <2>2, <3>1 DEF Good, SealsOnce
  <2>3. ASSUME NEW a \in 1..m, i = n + a, NEW b \in 1..m, j = n + b PROVE i = j
    <3>1. d[i] = l[a] /\ d[j] = l[b]
      BY <1>1, <2>3
    <3>2. a = b
      BY <3>1 DEF Continues, SealsOnce
    <3> QED
      BY <2>3, <3>2
  <2> QED
    BY <1>6, <2>1, <2>2, <2>3
<1>8. \A k \in 1..Len(d) : Chained(d, k) /\ (IsRow(d[k].what) \/ IsRecord(d, k))
  BY <1>4, <1>5, <1>6
<1>9. Good(d)
  BY <1>1, <1>7, <1>8 DEF Good
<1> QED
  BY <1>9 DEF d

(* The two kinds of batch: rows sealed in order, and the record of a purge. *)
LEMMA EmptyContinues == ASSUME NEW c PROVE Continues(c, <<>>)
  BY EmptyIsSeq DEF Continues, SealsOnce

LEMMA HashIsSeq == ASSUME NEW c, Good(c) PROVE IsSeq(HashOf(c))
<1>1. IsSeq(c) /\ Len(c) \in Nat
  BY Domains DEF Good
<1>2. CASE c = <<>>
  BY <1>2, EmptyIsSeq DEF HashOf
<1>3. CASE c # <<>>
  <2>1. Len(c) \in 1..Len(c)
    <3>1. Len(c) # 0
      BY <1>1, <1>3 DEF IsSeq
    <3> QED
      BY <1>1, <3>1
  <2>2. Chained(c, Len(c))
    BY <2>1 DEF Good
  <2>3. IsSeq(c[Len(c)].hash)
    BY <2>2, Append1 DEF Chained
  <2> QED
    BY <1>3, <2>3 DEF HashOf
<1> QED
  BY <1>2, <1>3

LEMMA RecordContinues ==
  ASSUME NEW c, Good(c), NEW listed \in SUBSET (1..Len(c)), listed # {}
  PROVE  Continues(c, <<Link(HashOf(c), PruneContent(listed, {c[i].hash : i \in listed}))>>)
<1> DEFINE what == PruneContent(listed, {c[i].hash : i \in listed})
           link == Link(HashOf(c), what)
           l    == <<link>>
<1>1. what.seqs = listed /\ what.digest = {c[i].hash : i \in listed}
  BY Kinds
<1> HIDE DEF what
<1>2. link.what = what /\ link.prev = HashOf(c) /\ link.hash = Append(HashOf(c), what)
  BY DEF Link
<1> HIDE DEF link
<1>3. IsSeq(l) /\ Len(l) = 1 /\ l[1] = link
  BY DEF IsSeq
<1>4. \A i \in 1..1 : i = 1
  OBVIOUS
<1>5. what = PruneContent(what.seqs, what.digest)
  BY <1>1 DEF what
<1>6. SealsOnce(l)
  BY <1>3, <1>4 DEF SealsOnce
<1>7. IsSeq(HashOf(c))
  BY HashIsSeq
<1>8. Continues(c, l)
  <2> HIDE DEF l
  <2> QED
    BY <1>1, <1>2, <1>3, <1>4, <1>5, <1>6, <1>7 DEF Continues
<1> QED
  BY <1>8 DEF l, link, what

LEMMA RowsContinue ==
  ASSUME Good(chain), written \in 0..MaxRows, DOMAIN audit \subseteq 1..written,
         NEW n \in Nat, NEW batch \in Batches(n)
  PROVE  Continues(chain, LinksFrom(HashOf(chain),
                            [i \in 1..n |-> RowContent(batch[i], audit[batch[i]])]))
<1> DEFINE w   == [i \in 1..n |-> RowContent(batch[i], audit[batch[i]])]
           tip == HashOf(chain)
           l   == LinksFrom(tip, w)
           T   == {tip[i] : i \in DOMAIN tip} \cup {w[i] : i \in 1..n}
<1>1. batch \in [1..n -> Pending]
  BY DEF Batches
<1>2. Pending \subseteq Ids
  BY ChainAssumption DEF Pending, Ids
<1>3. \A i \in 1..n : /\ w[i] = RowContent(batch[i], audit[batch[i]])
                      /\ w[i].id = batch[i] /\ w[i].kind = "row"
                      /\ IsRow(w[i])
  BY <1>1, <1>2, Kinds DEF IsRow
<1>4. tip \in Seq(T)
  BY HashIsSeq, Wider
<1>5. w \in Seq(T) /\ Len(w) = n /\ DOMAIN w = 1..n
  <2>1. w \in [1..n -> T]
    OBVIOUS
  <2> QED
    BY <2>1
<1> HIDE DEF w, tip, T
<1>6. /\ IsSeq(l) /\ Len(l) = n
      /\ \A i \in 1..n : l[i] = Link(tip \o SubSeq(w, 1, i - 1), w[i])
  <2>1. l = [i \in 1..n |-> Link(tip \o SubSeq(w, 1, i - 1), w[i])]
    BY <1>5 DEF LinksFrom
  <2>2. l \in Seq({l[i] : i \in 1..n}) /\ Len(l) = n
    BY <2>1
  <2>3. \A i \in 1..n : l[i] = Link(tip \o SubSeq(w, 1, i - 1), w[i])
    BY <2>1
  <2> HIDE DEF l
  <2>4. IsSeq(l)
    BY <2>2, SeqIsSeq
  <2> QED
    BY <2>2, <2>3, <2>4
<1> HIDE DEF l
<1>7. ASSUME NEW i \in 1..n
      PROVE  /\ IsSeq(l[i].prev)
             /\ l[i].hash = Append(l[i].prev, l[i].what)
             /\ l[i].what = w[i]
             /\ l[i].prev = tip \o SubSeq(w, 1, i - 1)
             /\ l[i].hash = tip \o SubSeq(w, 1, i)
  <2>1. /\ l[i].what = w[i]
        /\ l[i].prev = tip \o SubSeq(w, 1, i - 1)
        /\ l[i].hash = Append(tip \o SubSeq(w, 1, i - 1), w[i])
    BY <1>6, <1>7 DEF Link
  <2>2. SubSeq(w, 1, i - 1) \in Seq(T) /\ SubSeq(w, 1, i) \in Seq(T)
    BY <1>5, <1>7
  <2>3. SubSeq(w, 1, i) = Append(SubSeq(w, 1, i - 1), w[i])
    BY <1>5, <1>7, <2>2
  <2>4. w[i] \in T
    BY <1>5, <1>7
  <2>5. Append(tip \o SubSeq(w, 1, i - 1), w[i]) = tip \o SubSeq(w, 1, i)
    BY <1>4, <2>2, <2>3, <2>4
  <2>6. IsSeq(tip \o SubSeq(w, 1, i - 1))
    <3>1. tip \o SubSeq(w, 1, i - 1) \in Seq(T)
      BY <1>4, <2>2
    <3> QED
      BY <3>1, SeqIsSeq
  <2> QED
    BY <2>1, <2>5, <2>6
<1>8. ASSUME NEW i \in 1..n
      PROVE  l[i].prev = IF i = 1 THEN tip ELSE l[i - 1].hash
  <2>1. CASE i = 1
    <3>1. SubSeq(w, 1, i - 1) = <<>>
      BY <1>5, <2>1
    <3>2. tip \o <<>> = tip
      BY <1>4
    <3> QED
      BY <1>7, <2>1, <3>1, <3>2
  <2>2. CASE i # 1
    <3>1. i - 1 \in 1..n
      BY <1>8, <2>2
    <3>2. l[i - 1].hash = tip \o SubSeq(w, 1, i - 1)
      BY <1>7, <3>1
    <3> QED
      BY <1>7, <2>2, <3>2
  <2> QED
    BY <2>1, <2>2
<1>9. ASSUME NEW i \in 1..n, NEW j \in 1..Len(chain), chain[j].what.kind = "row"
      PROVE  chain[j].what.id # l[i].what.id
  <2>1. batch[i] \notin SealedIds
    BY <1>1 DEF Pending
  <2>2. j \in DOMAIN chain
    BY Domains DEF Good
  <2>3. chain[j].what.id \in SealedIds
    BY <1>9, <2>2 DEF SealedIds
  <2>4. l[i].what.id = batch[i]
    BY <1>3, <1>7
  <2> QED
    BY <2>1, <2>3, <2>4
<1>10. SealsOnce(l)
  <2>1. ASSUME NEW i \in 1..n, NEW j \in 1..n, i < j PROVE batch[i] # batch[j]
    <3>1. i \in 1..(j - 1)
      BY <2>1
    <3>0. Ids \subseteq Nat
      BY ChainAssumption DEF Ids
    <3>2. batch[i] \in Pending /\ batch[i] \in Nat
      BY <1>1, <1>2, <3>0
    <3>3. batch[i] < batch[j]
      BY <3>1, <3>2 DEF Batches
    <3> QED
      BY <3>2, <3>3
  <2>2. \A i \in 1..n : l[i].what.id = batch[i]
    BY <1>3, <1>7
  <2>3. \A i, j \in 1..n : i < j \/ j < i \/ i = j
    OBVIOUS
  <2> QED
    BY <1>6, <2>1, <2>2, <2>3 DEF SealsOnce
<1>11. Continues(chain, l)
  BY <1>3, <1>6, <1>7, <1>8, <1>9, <1>10 DEF Continues, tip
<1> QED
  BY <1>11 DEF l, tip, w

(***************************************************************************)
(* The inductive invariant of the chain.  What a transaction has computed  *)
(* still continues the chain when it commits, because from its read to its *)
(* commit it holds the lock and nobody else can append.                    *)
(***************************************************************************)
RowsTyped ==
  /\ written \in 0..MaxRows
  /\ audit = [r \in DOMAIN audit |-> audit[r]]
  /\ DOMAIN audit \subseteq 1..written
  /\ \A r \in DOMAIN audit : audit[r] \in Users \cup {Anon}
  /\ aged \in 0..written
  /\ held \subseteq Cases
  /\ tampered \subseteq Ids

TxTyped(t) ==
  /\ t = [op |-> t.op, pc |-> t.pc, listed |-> t.listed, gone |-> t.gone, links |-> t.links]
  /\ t.op \in {"none", "seal", "prune", "anchor"}
  /\ t.pc \in {"idle", "lock", "read", "delete", "stamp", "commit"}
  /\ t.listed \subseteq 1..Len(chain)
  /\ t.gone \subseteq Ids

Holding == {"read", "delete", "stamp", "commit"}

ChainInv ==
  /\ Good(chain)
  /\ lock \in Procs \cup {NoProc}
  /\ tx = [p \in Procs |-> tx[p]]
  /\ \A p \in Procs :
       /\ TxTyped(tx[p])
       /\ tx[p].pc \in Holding => lock = p
       /\ tx[p].pc \in {"stamp", "commit"} => Continues(chain, tx[p].links)

IInv == RowsTyped /\ ChainInv

LEMMA InitInv == ASSUME Init PROVE IInv
<1>1. RowsTyped
  BY ChainAssumption DEF Init, RowsTyped
<1>2. Good(<<>>)
  BY EmptyIsSeq DEF Good, SealsOnce
<1>3. TxTyped(Idle)
  BY DEF TxTyped, Idle
<1>4. tx = [p \in Procs |-> Idle]
  BY DEF Init
<1>5. \A p \in Procs : tx[p] = Idle
  BY <1>4
<1>6. Idle.pc = "idle"
  BY DEF Idle
<1>7. chain = <<>> /\ lock = NoProc
  BY DEF Init
<1>8. TxTyped(Idle) /\ Idle.pc \notin Holding /\ Idle.pc \notin {"stamp", "commit"}
  BY <1>3, <1>6 DEF Holding
<1>9. tx = [p \in Procs |-> tx[p]]
  BY <1>4
<1>10. ChainInv
  <2>1. Good(chain)
    BY <1>2, <1>7
  <2>2. \A p \in Procs : /\ TxTyped(tx[p])
                         /\ tx[p].pc \in Holding => lock = p
                         /\ tx[p].pc \in {"stamp", "commit"} => Continues(chain, tx[p].links)
    BY <1>5, <1>8
  <2> QED
    BY <1>7, <1>9, <2>1, <2>2 DEF ChainInv
<1> QED
  BY <1>1, <1>10 DEF IInv

(* Requests, holds, time and hands on the table leave the chain alone.     *)
Outside ==
  \/ \E u \in Users : WriteRow(u) \/ Anonymize(u)
  \/ Age
  \/ \E c \in Cases : PlaceHold(c) \/ ReleaseHold(c)
  \/ \E r \in Ids : RemoveRow(r) \/ \E u \in Users : ChangeRow(r, u)

LEMMA OutsideKeeps == ASSUME IInv, Outside PROVE IInv' /\ Keeps
<1>0. RowsTyped /\ MaxRows \in Nat
  BY ChainAssumption DEF IInv
<1>1. ASSUME NEW u \in Users, WriteRow(u) PROVE RowsTyped'
  <2>1. written' \in 0..MaxRows /\ aged' \in 0..written'
    BY <1>0, <1>1 DEF RowsTyped, WriteRow
  <2>2. DOMAIN audit' = DOMAIN audit \cup {written + 1}
    BY <1>1 DEF WriteRow
  <2>3. DOMAIN audit' \subseteq 1..written'
    BY <1>0, <1>1, <2>2 DEF RowsTyped, WriteRow
  <2>4. /\ audit' = [r \in DOMAIN audit' |-> audit'[r]]
        /\ \A r \in DOMAIN audit' : audit'[r] \in Users \cup {Anon}
    BY <1>0, <1>1, <2>2 DEF RowsTyped, WriteRow
  <2> QED
    BY <1>0, <1>1, <2>1, <2>3, <2>4 DEF RowsTyped, WriteRow
<1>2. ASSUME NEW u \in Users, Anonymize(u) PROVE RowsTyped'
  BY <1>0, <1>2 DEF RowsTyped, Anonymize
<1>3. ASSUME Age PROVE RowsTyped'
  <2>1. aged' \in 0..written'
    BY <1>0, <1>3 DEF RowsTyped, Age
  <2>2. written' = written /\ audit' = audit /\ held' = held /\ tampered' = tampered
    BY <1>3 DEF Age
  <2> QED
    BY <1>0, <2>1, <2>2 DEF RowsTyped
<1>4. ASSUME NEW c \in Cases, PlaceHold(c) \/ ReleaseHold(c) PROVE RowsTyped'
  BY <1>0, <1>4 DEF RowsTyped, PlaceHold, ReleaseHold
<1>5. ASSUME NEW r \in Ids, RemoveRow(r) PROVE RowsTyped'
  BY <1>0, <1>5 DEF RowsTyped, RemoveRow, InHand
<1>6. ASSUME NEW r \in Ids, NEW u \in Users, ChangeRow(r, u) PROVE RowsTyped'
  BY <1>0, <1>6 DEF RowsTyped, ChangeRow, InHand
<1>7. Keeps
  BY DEF Outside, WriteRow, Anonymize, Age, PlaceHold, ReleaseHold, RemoveRow, ChangeRow, InHand
<1>8. ChainInv'
  BY <1>7 DEF IInv, ChainInv, Keeps, TxTyped
<1> QED
  BY <1>1, <1>2, <1>3, <1>4, <1>5, <1>6, <1>7, <1>8 DEF IInv, Outside

(* A step of a transaction that writes only its own notes.                 *)
LEMMA NoteKeeps ==
  ASSUME IInv, NEW p \in Procs, NEW t, TxTyped(t), Goes(p, t), Reads,
         lock' \in Procs \cup {NoProc},
         t.pc \in Holding => lock' = p,
         \A q \in Procs \ {p} : tx[q].pc \in Holding => lock' = q,
         t.pc \in {"stamp", "commit"} => Continues(chain, t.links)
  PROVE  IInv'
<1>1. RowsTyped'
  BY DEF IInv, RowsTyped, Reads
<1>2. chain' = chain
  BY DEF Reads
<1>3. tx = [q \in Procs |-> tx[q]] /\ tx' = [tx EXCEPT ![p] = t]
  BY DEF IInv, ChainInv, Goes
<1>4. tx' = [q \in Procs |-> IF q = p THEN t ELSE tx[q]]
  BY <1>3
<1>5. tx' = [q \in Procs |-> tx'[q]] /\ tx'[p] = t /\ \A q \in Procs \ {p} : tx'[q] = tx[q]
  BY <1>4
<1>6. ASSUME NEW q \in Procs
      PROVE  /\ TxTyped(tx[q])'
             /\ tx'[q].pc \in Holding => lock' = q
             /\ tx'[q].pc \in {"stamp", "commit"} => Continues(chain, tx'[q].links)
  <2>1. CASE q = p
    <3>1. TxTyped(tx[q])'
      BY <1>2, <1>5, <2>1 DEF TxTyped
    <3> QED
      BY <1>5, <2>1, <3>1
  <2>2. CASE q # p
    <3>1. tx'[q] = tx[q] /\ TxTyped(tx[q])
      BY <1>5, <2>2 DEF IInv, ChainInv
    <3>2. TxTyped(tx[q])'
      BY <1>2, <3>1 DEF TxTyped
    <3> QED
      BY <2>2, <3>1, <3>2 DEF IInv, ChainInv
  <2> QED
    BY <2>1, <2>2
<1>7. Good(chain)'
  BY <1>2 DEF IInv, ChainInv
<1>8. ChainInv'
  BY <1>2, <1>5, <1>6, <1>7 DEF ChainInv
<1> QED
  BY <1>1, <1>8 DEF IInv

(* The five ways a transaction notes something down, and that its notes    *)
(* keep their shape.                                                       *)
Pcs == {"idle", "lock", "read", "delete", "stamp", "commit"}

Starts(t, op, pc) == [t EXCEPT !.op = op, !.pc = pc]

LEMMA StartsTyped ==
  ASSUME NEW t, TxTyped(t), NEW pc \in Pcs, NEW op \in {"seal", "prune", "anchor"}
  PROVE  LET u == Starts(t, op, pc)
         IN  /\ TxTyped(u) /\ u.op = op /\ u.pc = pc /\ u.listed = t.listed
             /\ u.gone = t.gone /\ u.links = t.links
<1> DEFINE u == Starts(t, op, pc)
<1>1. PICK o, k, a, g, l : t = [op |-> o, pc |-> k, listed |-> a, gone |-> g, links |-> l]
  BY DEF TxTyped
<1>2. [t EXCEPT !.op = op] =
        [op |-> op, pc |-> k, listed |-> a, gone |-> g, links |-> l]
  BY <1>1
<1>3. [[op |-> op, pc |-> k, listed |-> a, gone |-> g, links |-> l] EXCEPT !.pc = pc] =
        [op |-> op, pc |-> pc, listed |-> a, gone |-> g, links |-> l]
  OBVIOUS
<1>4. [t EXCEPT !.op = op, !.pc = pc] =
        [[t EXCEPT !.op = op] EXCEPT !.pc = pc]
  BY <1>1
<1>5. Starts(t, op, pc) = [op |-> op, pc |-> pc, listed |-> a, gone |-> g, links |-> l]
  BY <1>2, <1>3, <1>4, Zenon DEF Starts
<1> HIDE DEF u
<1>6. t.op = o /\ t.listed = a /\ t.gone = g /\ t.links = l
  BY <1>1
<1>7. u = [op |-> op, pc |-> pc, listed |-> a, gone |-> g, links |-> l]
  BY <1>5 DEF u
<1>8. /\ u.op = op /\ u.pc = pc /\ u.listed = t.listed
      /\ u.gone = t.gone /\ u.links = t.links
  BY <1>6, <1>7
<1>9. u = [op |-> u.op, pc |-> u.pc, listed |-> u.listed, gone |-> u.gone, links |-> u.links]
  BY <1>7
<1>10. TxTyped(u)
  BY <1>8, <1>9 DEF TxTyped, Pcs
<1> QED
  BY <1>8, <1>10 DEF u

MovesOn(t, pc) == [t EXCEPT !.pc = pc]

LEMMA MovesOnTyped ==
  ASSUME NEW t, TxTyped(t), NEW pc \in Pcs
  PROVE  LET u == MovesOn(t, pc)
         IN  /\ TxTyped(u) /\ u.op = t.op /\ u.pc = pc /\ u.listed = t.listed
             /\ u.gone = t.gone /\ u.links = t.links
<1> DEFINE u == MovesOn(t, pc)
<1>1. PICK o, k, a, g, l : t = [op |-> o, pc |-> k, listed |-> a, gone |-> g, links |-> l]
  BY DEF TxTyped
<1>2. [t EXCEPT !.pc = pc] =
        [op |-> o, pc |-> pc, listed |-> a, gone |-> g, links |-> l]
  BY <1>1
<1>3. MovesOn(t, pc) = [op |-> o, pc |-> pc, listed |-> a, gone |-> g, links |-> l]
  BY <1>2, Zenon DEF MovesOn
<1> HIDE DEF u
<1>4. t.op = o /\ t.listed = a /\ t.gone = g /\ t.links = l
  BY <1>1
<1>5. u = [op |-> o, pc |-> pc, listed |-> a, gone |-> g, links |-> l]
  BY <1>3 DEF u
<1>6. /\ u.op = t.op /\ u.pc = pc /\ u.listed = t.listed
      /\ u.gone = t.gone /\ u.links = t.links
  BY <1>4, <1>5
<1>7. u = [op |-> u.op, pc |-> u.pc, listed |-> u.listed, gone |-> u.gone, links |-> u.links]
  BY <1>5
<1>8. TxTyped(u)
  BY <1>6, <1>7 DEF TxTyped, Pcs
<1> QED
  BY <1>6, <1>8 DEF u

Lists(t, pc, listed) == [t EXCEPT !.pc = pc, !.listed = listed]

LEMMA ListsTyped ==
  ASSUME NEW t, TxTyped(t), NEW pc \in Pcs, NEW listed \in SUBSET (1..Len(chain))
  PROVE  LET u == Lists(t, pc, listed)
         IN  /\ TxTyped(u) /\ u.op = t.op /\ u.pc = pc /\ u.listed = listed
             /\ u.gone = t.gone /\ u.links = t.links
<1> DEFINE u == Lists(t, pc, listed)
<1>1. PICK o, k, a, g, l : t = [op |-> o, pc |-> k, listed |-> a, gone |-> g, links |-> l]
  BY DEF TxTyped
<1>2. [t EXCEPT !.pc = pc] =
        [op |-> o, pc |-> pc, listed |-> a, gone |-> g, links |-> l]
  BY <1>1
<1>3. [[op |-> o, pc |-> pc, listed |-> a, gone |-> g, links |-> l] EXCEPT !.listed = listed] =
        [op |-> o, pc |-> pc, listed |-> listed, gone |-> g, links |-> l]
  OBVIOUS
<1>4. [t EXCEPT !.pc = pc, !.listed = listed] =
        [[t EXCEPT !.pc = pc] EXCEPT !.listed = listed]
  BY <1>1
<1>5. Lists(t, pc, listed) = [op |-> o, pc |-> pc, listed |-> listed, gone |-> g, links |-> l]
  BY <1>2, <1>3, <1>4, Zenon DEF Lists
<1> HIDE DEF u
<1>6. t.op = o /\ t.listed = a /\ t.gone = g /\ t.links = l
  BY <1>1
<1>7. u = [op |-> o, pc |-> pc, listed |-> listed, gone |-> g, links |-> l]
  BY <1>5 DEF u
<1>8. /\ u.op = t.op /\ u.pc = pc /\ u.listed = listed
      /\ u.gone = t.gone /\ u.links = t.links
  BY <1>6, <1>7
<1>9. u = [op |-> u.op, pc |-> u.pc, listed |-> u.listed, gone |-> u.gone, links |-> u.links]
  BY <1>7
<1>10. TxTyped(u)
  BY <1>8, <1>9 DEF TxTyped, Pcs
<1> QED
  BY <1>8, <1>10 DEF u

Computes(t, links, pc) == [t EXCEPT !.links = links, !.pc = pc]

LEMMA ComputesTyped ==
  ASSUME NEW t, TxTyped(t), NEW pc \in Pcs, NEW links
  PROVE  LET u == Computes(t, links, pc)
         IN  /\ TxTyped(u) /\ u.op = t.op /\ u.pc = pc /\ u.listed = t.listed
             /\ u.gone = t.gone /\ u.links = links
<1> DEFINE u == Computes(t, links, pc)
<1>1. PICK o, k, a, g, l : t = [op |-> o, pc |-> k, listed |-> a, gone |-> g, links |-> l]
  BY DEF TxTyped
<1>2. [t EXCEPT !.links = links] =
        [op |-> o, pc |-> k, listed |-> a, gone |-> g, links |-> links]
  BY <1>1
<1>3. [[op |-> o, pc |-> k, listed |-> a, gone |-> g, links |-> links] EXCEPT !.pc = pc] =
        [op |-> o, pc |-> pc, listed |-> a, gone |-> g, links |-> links]
  OBVIOUS
<1>4. [t EXCEPT !.links = links, !.pc = pc] =
        [[t EXCEPT !.links = links] EXCEPT !.pc = pc]
  BY <1>1
<1>5. Computes(t, links, pc) = [op |-> o, pc |-> pc, listed |-> a, gone |-> g, links |-> links]
  BY <1>2, <1>3, <1>4, Zenon DEF Computes
<1> HIDE DEF u
<1>6. t.op = o /\ t.listed = a /\ t.gone = g /\ t.links = l
  BY <1>1
<1>7. u = [op |-> o, pc |-> pc, listed |-> a, gone |-> g, links |-> links]
  BY <1>5 DEF u
<1>8. /\ u.op = t.op /\ u.pc = pc /\ u.listed = t.listed
      /\ u.gone = t.gone /\ u.links = links
  BY <1>6, <1>7
<1>9. u = [op |-> u.op, pc |-> u.pc, listed |-> u.listed, gone |-> u.gone, links |-> u.links]
  BY <1>7
<1>10. TxTyped(u)
  BY <1>8, <1>9 DEF TxTyped, Pcs
<1> QED
  BY <1>8, <1>10 DEF u

Deletes(t, pc, gone, links) == [t EXCEPT !.pc = pc, !.gone = gone, !.links = links]

LEMMA DeletesTyped ==
  ASSUME NEW t, TxTyped(t), NEW pc \in Pcs, NEW gone \in SUBSET Ids, NEW links
  PROVE  LET u == Deletes(t, pc, gone, links)
         IN  /\ TxTyped(u) /\ u.op = t.op /\ u.pc = pc /\ u.listed = t.listed
             /\ u.gone = gone /\ u.links = links
<1> DEFINE u == Deletes(t, pc, gone, links)
<1>1. PICK o, k, a, g, l : t = [op |-> o, pc |-> k, listed |-> a, gone |-> g, links |-> l]
  BY DEF TxTyped
<1>2. [t EXCEPT !.pc = pc] =
        [op |-> o, pc |-> pc, listed |-> a, gone |-> g, links |-> l]
  BY <1>1
<1>3. [[op |-> o, pc |-> pc, listed |-> a, gone |-> g, links |-> l] EXCEPT !.gone = gone] =
        [op |-> o, pc |-> pc, listed |-> a, gone |-> gone, links |-> l]
  OBVIOUS
<1>4. [[op |-> o, pc |-> pc, listed |-> a, gone |-> gone, links |-> l] EXCEPT !.links = links] =
        [op |-> o, pc |-> pc, listed |-> a, gone |-> gone, links |-> links]
  OBVIOUS
<1>5. [t EXCEPT !.pc = pc, !.gone = gone, !.links = links] =
        [[[t EXCEPT !.pc = pc] EXCEPT !.gone = gone] EXCEPT !.links = links]
  BY <1>1
<1>6. Deletes(t, pc, gone, links) = [op |-> o, pc |-> pc, listed |-> a, gone |-> gone, links |-> links]
  BY <1>2, <1>3, <1>4, <1>5, Zenon DEF Deletes
<1> HIDE DEF u
<1>7. t.op = o /\ t.listed = a /\ t.gone = g /\ t.links = l
  BY <1>1
<1>8. u = [op |-> o, pc |-> pc, listed |-> a, gone |-> gone, links |-> links]
  BY <1>6 DEF u
<1>9. /\ u.op = t.op /\ u.pc = pc /\ u.listed = t.listed
      /\ u.gone = gone /\ u.links = links
  BY <1>7, <1>8
<1>10. u = [op |-> u.op, pc |-> u.pc, listed |-> u.listed, gone |-> u.gone, links |-> u.links]
  BY <1>8
<1>11. TxTyped(u)
  BY <1>9, <1>10 DEF TxTyped, Pcs
<1> QED
  BY <1>9, <1>11 DEF u

LEMMA TxFacts ==
  ASSUME IInv, NEW p \in Procs
  PROVE  /\ TxTyped(tx[p]) /\ Good(chain)
         /\ lock \in Procs \cup {NoProc}
         /\ tx[p].pc \in Holding => lock = p
         /\ \A q \in Procs : tx[q].pc \in Holding => lock = q
         /\ tx[p].pc \in {"stamp", "commit"} => Continues(chain, tx[p].links)
  BY DEF IInv, ChainInv

LEMMA BeginKeeps == ASSUME IInv, NEW p \in Procs, NEW op \in {"seal", "prune", "anchor"}, Begin(p, op)
                    PROVE  IInv'
<1> DEFINE t == Starts(Idle, op, "lock")
<1>0. TxTyped(Idle)
  BY DEF TxTyped, Idle
<1>1. TxTyped(t) /\ t.pc = "lock"
  BY <1>0, StartsTyped DEF Pcs
<1>2. Goes(p, t) /\ Reads /\ lock' = lock
  BY DEF Begin, Starts
<1> HIDE DEF t
<1> QED
  BY <1>1, <1>2, TxFacts, NoteKeeps DEF Holding

LEMMA FailKeeps == ASSUME IInv, NEW p \in Procs, Fail(p) PROVE IInv'
<1>1. TxTyped(Idle) /\ Idle.pc = "idle"
  BY DEF TxTyped, Idle
<1>2. Goes(p, Idle) /\ Reads /\ lock' = IF lock = p THEN NoProc ELSE lock
  BY DEF Fail, Frees
<1> QED
  BY <1>1, <1>2, TxFacts, NoteKeeps DEF Holding

LEMMA LockKeeps == ASSUME IInv, NEW p \in Procs, SealLock(p) PROVE IInv'
<1> DEFINE t == MovesOn(tx[p], "read")
<1>1. TxTyped(t) /\ t.pc = "read"
  BY TxFacts, MovesOnTyped DEF Pcs
<1>2. Goes(p, t) /\ Reads /\ lock = NoProc /\ lock' = p
  BY DEF SealLock, MovesOn
<1>3. \A q \in Procs : tx[q].pc \notin Holding
  BY <1>2, TxFacts, ChainAssumption
<1> HIDE DEF t
<1> QED
  BY <1>1, <1>2, <1>3, NoteKeeps

LEMMA SealKeeps == ASSUME IInv, NEW p \in Procs, Seal(p) PROVE IInv'
<1> DEFINE Seals(n, batch) ==
             LET whats == [i \in 1..n |-> RowContent(batch[i], audit[batch[i]])]
                 links == LinksFrom(HashOf(chain), whats)
                 tip   == TipOf(chain \o links)
             IN  Goes(p, [tx[p] EXCEPT !.links = links,
                           !.pc = IF Stamps(p, tip) THEN "stamp" ELSE "commit"])
<1>0. PICK n \in 0..MaxRows : \E batch \in Batches(n) : Seals(n, batch)
  BY DEF Seal
<1>1. PICK batch \in Batches(n) : Seals(n, batch)
  BY <1>0
<1> DEFINE links == LinksFrom(HashOf(chain),
                              [i \in 1..n |-> RowContent(batch[i], audit[batch[i]])])
           pc == IF Stamps(p, TipOf(chain \o links)) THEN "stamp" ELSE "commit"
           t == Computes(tx[p], links, pc)
<1>2. Goes(p, t)
  BY <1>1 DEF Computes
<1>3. Continues(chain, links)
  <2>1. n \in Nat
    BY ChainAssumption
  <2>2. written \in 0..MaxRows /\ DOMAIN audit \subseteq 1..written /\ Good(chain)
    BY DEF IInv, RowsTyped, ChainInv
  <2> QED
    BY <2>1, <2>2, RowsContinue
<1>4. pc \in {"stamp", "commit"}
  OBVIOUS
<1>5. Reads /\ lock' = lock /\ tx[p].pc = "read"
  BY DEF Seal, At
<1> HIDE DEF links, pc
<1>6. TxTyped(t) /\ t.pc = pc /\ t.links = links
  <2>1. TxTyped(tx[p]) /\ pc \in Pcs
    BY <1>4, TxFacts DEF Pcs
  <2> QED
    BY <2>1, ComputesTyped
<1>7. lock' = p
  BY <1>5, TxFacts DEF Holding
<1> HIDE DEF t
<1>8. \A q \in Procs \ {p} : tx[q].pc \in Holding => lock' = q
  BY <1>5, TxFacts
<1> QED
  BY <1>2, <1>3, <1>5, <1>6, <1>7, <1>8, NoteKeeps

LEMMA SelectKeeps == ASSUME IInv, NEW p \in Procs, PruneSelect(p) PROVE IInv'
<1> DEFINE listed == {i \in DOMAIN chain : chain[i].what.kind = "row" /\ chain[i].what.id \in Due}
           t == Lists(tx[p], "delete", listed)
<1>1. Goes(p, t) /\ Reads /\ lock' = lock /\ tx[p].pc = "read"
  BY DEF PruneSelect, At, Lists
<1>2. listed \in SUBSET (1..Len(chain))
  BY TxFacts, Domains DEF Good
<1> HIDE DEF listed
<1>3. TxTyped(t) /\ t.pc = "delete"
  <2>1. TxTyped(tx[p]) /\ "delete" \in Pcs
    BY TxFacts DEF Pcs
  <2> QED
    BY <1>2, <2>1, ListsTyped
<1> HIDE DEF t
<1>4. lock' = p /\ \A q \in Procs \ {p} : tx[q].pc \in Holding => lock' = q
  BY <1>1, TxFacts DEF Holding
<1> QED
  BY <1>1, <1>3, <1>4, NoteKeeps

LEMMA DeleteKeeps == ASSUME IInv, NEW p \in Procs, PruneDelete(p) PROVE IInv'
<1> DEFINE listed == tx[p].listed
           rec == PruneContent(listed, {chain[i].hash : i \in listed})
           links == IF listed = {} \/ Due = {} THEN <<>> ELSE <<Link(HashOf(chain), rec)>>
           t == Deletes(tx[p], "commit", Due, links)
<1>1. Goes(p, t) /\ Reads /\ lock' = lock /\ tx[p].pc = "delete"
  BY DEF PruneDelete, At, Deletes
<1>2. listed \in SUBSET (1..Len(chain)) /\ Good(chain)
  BY TxFacts DEF TxTyped
<1>3. Continues(chain, links)
  BY <1>2, RecordContinues, EmptyContinues
<1>4. Due \in SUBSET Ids
  <2>1. DOMAIN audit \subseteq 1..written /\ written \in 0..MaxRows
    BY DEF IInv, RowsTyped
  <2>2. \A r \in 1..written : r \in 1..MaxRows
    BY <2>1, ChainAssumption
  <2>3. Due \subseteq DOMAIN audit
    BY DEF Due
  <2> QED
    BY <2>1, <2>2, <2>3 DEF Ids
<1> HIDE DEF links
<1>5. TxTyped(t) /\ t.pc = "commit" /\ t.links = links
  <2>1. TxTyped(tx[p]) /\ "commit" \in Pcs
    BY TxFacts DEF Pcs
  <2> QED
    BY <1>4, <2>1, DeletesTyped
<1> HIDE DEF t
<1>6. lock' = p /\ \A q \in Procs \ {p} : tx[q].pc \in Holding => lock' = q
  BY <1>1, TxFacts DEF Holding
<1> QED
  BY <1>1, <1>3, <1>5, <1>6, NoteKeeps

LEMMA StampKeeps == ASSUME IInv, NEW p \in Procs, Stamp(p) PROVE IInv'
<1> DEFINE t == MovesOn(tx[p], "commit")
<1>1. Goes(p, t) /\ Reads /\ lock' = lock /\ tx[p].pc = "stamp"
  BY DEF Stamp, At, MovesOn
<1>2. TxTyped(t) /\ t.pc = "commit" /\ t.links = tx[p].links
  BY TxFacts, MovesOnTyped DEF Pcs
<1> HIDE DEF t
<1>3. lock' = p /\ \A q \in Procs \ {p} : tx[q].pc \in Holding => lock' = q
  BY <1>1, TxFacts DEF Holding
<1>4. Continues(chain, tx[p].links)
  BY <1>1, TxFacts
<1> QED
  BY <1>1, <1>2, <1>3, <1>4, NoteKeeps

(* A commit appends to the chain and holds the lock: no other process has  *)
(* read the chain and not finished.                                        *)
LEMMA Grown ==
  ASSUME IInv, NEW p \in Procs, Commit(p)
  PROVE  /\ lock = p /\ Continues(chain, tx[p].links)
         /\ chain' = chain \o tx[p].links /\ Good(chain')
         /\ Len(chain) \in Nat /\ Len(tx[p].links) \in Nat
         /\ Len(chain') = Len(chain) + Len(tx[p].links)
         /\ 1..Len(chain) \subseteq 1..Len(chain')
         /\ \A i \in 1..Len(chain) : chain'[i] = chain[i]
         /\ \A i \in 1..Len(tx[p].links) : chain'[Len(chain) + i] = tx[p].links[i]
<1>1. tx[p].pc = "commit" /\ chain' = chain \o tx[p].links
  BY DEF Commit, Appended
<1>2. lock = p /\ Continues(chain, tx[p].links) /\ Good(chain)
  BY <1>1, TxFacts DEF Holding
<1>3. Good(chain')
  BY <1>1, <1>2, GoodGrows
<1>4. IsSeq(chain) /\ IsSeq(tx[p].links)
  BY <1>2 DEF Good, Continues
<1>5. /\ Len(chain) \in Nat /\ Len(tx[p].links) \in Nat
      /\ Len(chain') = Len(chain) + Len(tx[p].links)
      /\ \A i \in 1..Len(chain) : chain'[i] = chain[i]
      /\ \A i \in 1..Len(tx[p].links) : chain'[Len(chain) + i] = tx[p].links[i]
  BY <1>1, <1>4, Longer
<1>6. 1..Len(chain) \subseteq 1..Len(chain')
  BY <1>5
<1> QED
  BY <1>1, <1>2, <1>3, <1>5, <1>6

LEMMA CommitKeeps == ASSUME IInv, NEW p \in Procs, Commit(p) PROVE IInv'
<1>1. RowsTyped'
  BY DEF IInv, RowsTyped, Commit, Untouched
<1>3. tx = [q \in Procs |-> tx[q]] /\ tx' = [tx EXCEPT ![p] = Idle]
  BY DEF IInv, ChainInv, Commit, Goes
<1>4. tx' = [q \in Procs |-> IF q = p THEN Idle ELSE tx[q]]
  BY <1>3
<1>5. tx' = [q \in Procs |-> tx'[q]] /\ tx'[p] = Idle /\ \A q \in Procs \ {p} : tx'[q] = tx[q]
  BY <1>4
<1>6. lock' = NoProc
  BY Grown DEF Commit, Frees
<1>7. ASSUME NEW q \in Procs
      PROVE  TxTyped(tx[q])' /\ tx'[q].pc \notin Holding
  <2>1. CASE q = p
    <3>1. TxTyped(tx[q])'
      BY <1>5, <2>1 DEF TxTyped, Idle
    <3> QED
      BY <1>5, <2>1, <3>1 DEF Idle, Holding
  <2>2. CASE q # p
    <3>1. tx'[q] = tx[q] /\ TxTyped(tx[q]) /\ tx[q].pc \notin Holding
      BY <1>5, <2>2, TxFacts, Grown
    <3>2. TxTyped(tx[q])'
      BY <3>1, Grown DEF TxTyped
    <3> QED
      BY <3>1, <3>2
  <2> QED
    BY <2>1, <2>2
<1>8. ChainInv'
  BY <1>5, <1>6, <1>7, Grown DEF ChainInv, Holding
<1> QED
  BY <1>1, <1>8 DEF IInv

LEMMA NextKeeps == ASSUME IInv, [Next]_vars PROVE IInv'
<1>1. CASE UNCHANGED vars
  BY <1>1 DEF vars, IInv, RowsTyped, ChainInv, TxTyped
<1>2. CASE Outside
  BY <1>2, OutsideKeeps
<1>3. ASSUME NEW p \in Procs,
             (\E op \in {"seal", "prune", "anchor"} : Begin(p, op)) \/ Work(p) \/ Fail(p)
      PROVE  IInv'
  BY <1>3, BeginKeeps, LockKeeps, SealKeeps, SelectKeeps, DeleteKeeps, StampKeeps,
     CommitKeeps, FailKeeps DEF Work
<1> QED
  BY <1>1, <1>2, <1>3 DEF Next, Outside

THEOREM ChainInvariant == Spec => []IInv
<1>1. Init => IInv
  BY InitInv
<1>2. IInv /\ [Next]_vars => IInv'
  BY NextKeeps
<1> QED
  BY <1>1, <1>2, PTL DEF Spec

(* _seal_lock is enough: however sealers, purges and anchorings interleave *)
(* and fail, the committed chain is whole and seals no audit row twice.    *)
THEOREM ChainStaysSound == Spec => []ChainSound
<1>1. IInv => ChainSound
  BY GoodIsSound DEF IInv, ChainInv
<1> QED
  BY <1>1, ChainInvariant, PTL

LEMMA GrownOnly ==
  ASSUME IInv, NEW p \in Procs, Commit(p)
  PROVE  /\ Len(chain) \in Nat /\ Len(tx[p].links) \in Nat
         /\ Len(chain') = Len(chain) + Len(tx[p].links)
         /\ \A i \in 1..Len(chain) : chain'[i] = chain[i]
         /\ \A i \in 1..Len(tx[p].links) : chain'[Len(chain) + i] = tx[p].links[i]
  BY Grown, Zenon

(***************************************************************************)
(* Receipts.  What an anchoring has signed is the tip of the chain as its  *)
(* own commit will leave it, whatever is committed in between.             *)
(***************************************************************************)
Proves(a, c) == a.at \in 1..Len(c) /\ c[a.at].hash = a.hash

ReceiptInv ==
  /\ \A a \in anchors : Proves(a, chain)
  /\ asked = [p \in Procs |-> asked[p]]
  /\ \A p \in Procs : \A a \in asked[p] :
       tx[p].pc \in {"stamp", "commit"} /\ Proves(a, chain \o tx[p].links)

(* The tip of a chain that is not empty is a link of it.                   *)
LEMMA TipProves ==
  ASSUME NEW c, IsSeq(c), TipOf(c).at # 0
  PROVE  Proves(TipOf(c), c)
<1>1. TipOf(c).at = Len(c) /\ TipOf(c).hash = HashOf(c)
  BY DEF TipOf
<1>2. Len(c) \in 1..Len(c) /\ c # <<>>
  BY <1>1, Domains, EmptyIsSeq
<1>3. HashOf(c) = c[Len(c)].hash
  BY <1>2 DEF HashOf
<1> QED
  BY <1>1, <1>2, <1>3 DEF Proves

(* Steps of a transaction before its commit, and its end without one.      *)
LEMMA NoteReceipts ==
  ASSUME ReceiptInv, tx = [q \in Procs |-> tx[q]], chain' = chain, anchors' = anchors,
         NEW p \in Procs, NEW t, tx' = [tx EXCEPT ![p] = t],
         NEW A, asked' = [asked EXCEPT ![p] = A],
         \A a \in A : t.pc \in {"stamp", "commit"} /\ Proves(a, chain \o t.links)
  PROVE  ReceiptInv'
<1>1. /\ tx'[p] = t /\ \A q \in Procs \ {p} : tx'[q] = tx[q]
      /\ asked'[p] = A /\ \A q \in Procs \ {p} : asked'[q] = asked[q]
      /\ asked' = [q \in Procs |-> asked'[q]]
  BY DEF ReceiptInv
<1>2. \A a \in anchors' : Proves(a, chain)'
  BY DEF ReceiptInv, Proves
<1>3. ASSUME NEW q \in Procs, NEW a \in asked'[q]
      PROVE  tx'[q].pc \in {"stamp", "commit"} /\ Proves(a, chain' \o tx'[q].links)
  BY <1>1, <1>3 DEF ReceiptInv
<1> QED
  BY <1>1, <1>2, <1>3 DEF ReceiptInv, Proves

LEMMA SealReceipts == ASSUME IInv, ReceiptInv, NEW p \in Procs, Seal(p) PROVE ReceiptInv'
<1> DEFINE Seals(n, batch) ==
             LET whats == [i \in 1..n |-> RowContent(batch[i], audit[batch[i]])]
                 links == LinksFrom(HashOf(chain), whats)
                 tip   == TipOf(chain \o links)
             IN  /\ Goes(p, [tx[p] EXCEPT !.links = links,
                               !.pc = IF Stamps(p, tip) THEN "stamp" ELSE "commit"])
                 /\ asked' = [asked EXCEPT ![p] = IF Stamps(p, tip) THEN {tip} ELSE {}]
<1>0. PICK n \in 0..MaxRows : \E batch \in Batches(n) : Seals(n, batch)
  BY DEF Seal
<1>1. PICK batch \in Batches(n) : Seals(n, batch)
  BY <1>0
<1> DEFINE links == LinksFrom(HashOf(chain),
                              [i \in 1..n |-> RowContent(batch[i], audit[batch[i]])])
           tip == TipOf(chain \o links)
           pc  == IF Stamps(p, tip) THEN "stamp" ELSE "commit"
           A   == IF Stamps(p, tip) THEN {tip} ELSE {}
           t   == Computes(tx[p], links, pc)
<1>2. tx' = [tx EXCEPT ![p] = t] /\ asked' = [asked EXCEPT ![p] = A]
  BY <1>1 DEF Computes, Goes
<1>3. Continues(chain, links)
  <2>1. n \in Nat
    BY ChainAssumption
  <2>2. written \in 0..MaxRows /\ DOMAIN audit \subseteq 1..written /\ Good(chain)
    BY DEF IInv, RowsTyped, ChainInv
  <2> QED
    BY <2>1, <2>2, RowsContinue
<1> HIDE DEF links
<1>4. IsSeq(chain \o links)
  BY <1>3, TxFacts, Concat DEF Good, Continues
<1>5. \A a \in A : Proves(a, chain \o links)
  <2>1. ASSUME Stamps(p, tip) PROVE Proves(tip, chain \o links)
    BY <1>4, <2>1, TipProves DEF Stamps
  <2> QED
    BY <2>1
<1>6. pc \in {"stamp", "commit"}
  OBVIOUS
<1> HIDE DEF pc, A
<1>7. t.pc = pc /\ t.links = links
  <2>1. TxTyped(tx[p]) /\ pc \in Pcs
    BY <1>6, TxFacts DEF Pcs
  <2> QED
    BY <2>1, ComputesTyped
<1> HIDE DEF t
<1>8. chain' = chain /\ anchors' = anchors /\ tx = [q \in Procs |-> tx[q]]
  BY DEF Seal, Reads, IInv, ChainInv
<1>9. \A a \in A : t.pc \in {"stamp", "commit"} /\ Proves(a, chain \o t.links)
  BY <1>5, <1>6, <1>7
<1> QED
  BY <1>2, <1>8, <1>9, NoteReceipts

(* The other steps before a commit ask for nothing new.                    *)
LEMMA OtherReceipts ==
  ASSUME IInv, ReceiptInv, NEW p \in Procs,
         \/ \E op \in {"seal", "prune", "anchor"} : Begin(p, op)
         \/ SealLock(p) \/ PruneSelect(p) \/ PruneDelete(p) \/ Stamp(p) \/ Fail(p)
  PROVE  ReceiptInv'
<1>0. tx = [q \in Procs |-> tx[q]] /\ asked = [q \in Procs |-> asked[q]]
  BY DEF IInv, ChainInv, ReceiptInv
<1>1. chain' = chain /\ anchors' = anchors
  BY DEF Begin, SealLock, PruneSelect, PruneDelete, Stamp, Fail, Reads
<1>2. CASE Stamp(p)
  <2> DEFINE t == MovesOn(tx[p], "commit")
             A == asked[p]
  <2>1. tx' = [tx EXCEPT ![p] = t] /\ asked' = [asked EXCEPT ![p] = A]
    BY <1>0, <1>2 DEF Stamp, Goes, MovesOn
  <2>2. t.pc = "commit" /\ t.links = tx[p].links
    BY TxFacts, MovesOnTyped DEF Pcs
  <2>3. \A a \in A : t.pc \in {"stamp", "commit"} /\ Proves(a, chain \o t.links)
    BY <2>2 DEF ReceiptInv
  <2> HIDE DEF t, A
  <2> QED
    BY <1>0, <1>1, <2>1, <2>3, NoteReceipts
<1>3. CASE ~Stamp(p)
  <2> DEFINE A == {}
  <2>1. asked' = [asked EXCEPT ![p] = A]
    <3>1. CASE Fail(p)
      BY <3>1 DEF Fail
    <3>2. CASE ~Fail(p)
      <4>1. asked' = asked /\ tx[p].pc \notin {"stamp", "commit"}
        BY <1>3, <3>2 DEF Begin, SealLock, PruneSelect, PruneDelete, At
      <4>2. asked[p] = {}
        BY <4>1 DEF ReceiptInv
      <4> QED
        BY <1>0, <4>1, <4>2
    <3> QED
      BY <3>1, <3>2
  <2>2. \E t : tx' = [tx EXCEPT ![p] = t]
    BY <1>3 DEF Begin, SealLock, PruneSelect, PruneDelete, Fail, Goes
  <2>3. \A a \in A : FALSE
    OBVIOUS
  <2> HIDE DEF A
  <2> QED
    BY <1>0, <1>1, <2>1, <2>2, <2>3, NoteReceipts
<1> QED
  BY <1>2, <1>3

(* A commit turns what it asked for into receipts; nobody else has asked,  *)
(* for it holds the lock.                                                  *)
LEMMA CommitReceipts == ASSUME IInv, ReceiptInv, NEW p \in Procs, Commit(p) PROVE ReceiptInv'
<1>1. /\ chain' = chain \o tx[p].links /\ anchors' = anchors \cup asked[p]
      /\ asked' = [asked EXCEPT ![p] = {}]
  BY DEF Commit, Appended
<1>2. \A a : Proves(a, chain) => Proves(a, chain')
  BY GrownOnly DEF Proves
<1>3. \A a \in anchors' : Proves(a, chain)'
  BY <1>1, <1>2 DEF ReceiptInv, Proves
<1>4. ASSUME NEW q \in Procs PROVE asked'[q] = {}
  <2>1. CASE q = p
    BY <1>1, <2>1 DEF ReceiptInv
  <2>2. CASE q # p
    <3>1. asked'[q] = asked[q]
      BY <1>1, <2>2 DEF ReceiptInv
    <3>2. tx[q].pc \notin Holding
      BY <2>2, TxFacts, Grown
    <3> QED
      BY <3>1, <3>2 DEF ReceiptInv, Holding
  <2> QED
    BY <2>1, <2>2
<1>5. asked' = [q \in Procs |-> asked'[q]]
  BY <1>1 DEF ReceiptInv
<1> QED
  BY <1>3, <1>4, <1>5 DEF ReceiptInv

LEMMA ReceiptStep == IInv /\ ReceiptInv /\ [Next]_vars => ReceiptInv'
<1> SUFFICES ASSUME IInv, ReceiptInv, [Next]_vars PROVE ReceiptInv'
  OBVIOUS
<1>1. ASSUME UNCHANGED <<chain, anchors, asked, tx>> PROVE ReceiptInv'
  BY <1>1 DEF ReceiptInv, Proves
<1>2. CASE Outside
  BY <1>1, <1>2, OutsideKeeps DEF Keeps
<1>3. CASE UNCHANGED vars
  BY <1>1, <1>3 DEF vars
<1>4. ASSUME NEW p \in Procs,
             (\E op \in {"seal", "prune", "anchor"} : Begin(p, op)) \/ Work(p) \/ Fail(p)
      PROVE  ReceiptInv'
  BY <1>4, SealReceipts, OtherReceipts, CommitReceipts DEF Work
<1> QED
  BY <1>2, <1>3, <1>4 DEF Next, Outside

LEMMA ReceiptInvariant == Spec => []ReceiptInv
<1>1. Init => ReceiptInv
  BY DEF Init, ReceiptInv
<1> QED
  BY <1>1, ReceiptStep, ChainInvariant, PTL DEF Spec

(* A receipt of anchor_chain_tip proves what it says: the tip was fixed    *)
(* before the authority was asked, and the link it names is on the chain   *)
(* with the hash that was signed, for good.                                *)
THEOREM ReceiptsStayTrue == Spec => []ReceiptsProve
<1>1. IInv /\ ReceiptInv => ReceiptsProve
  <2> SUFFICES ASSUME IInv, ReceiptInv PROVE ReceiptsProve
    OBVIOUS
  <2>1. DOMAIN chain = 1..Len(chain)
    BY Domains DEF IInv, ChainInv, Good
  <2> QED
    BY <2>1 DEF ReceiptInv, ReceiptsProve, Proves
<1> QED
  BY <1>1, ChainInvariant, ReceiptInvariant, PTL

(* The types, for any processes, rows, cases and users.                    *)
THEOREM TypeCorrect == Spec => []TypeOK
<1>1. ASSUME IInv, ReceiptInv PROVE TypeOK
  <2>1. DOMAIN chain = 1..Len(chain)
    BY <1>1, Domains DEF IInv, ChainInv, Good
  <2>2. \A i \in DOMAIN chain : chain[i].what.kind \in {"row", "prune"}
    BY <1>1, <2>1, Kinds DEF IInv, ChainInv, Good
  <2>3. \A p \in Procs : TxTyped(tx[p])
    BY <1>1 DEF IInv, ChainInv
  <2>4. \A a \in anchors : a.at \in DOMAIN chain
    BY <1>1, <2>1 DEF ReceiptInv, Proves
  <2>5. ASSUME NEW p \in Procs, NEW a \in asked[p] PROVE a.at \in Nat
    <3>1. Continues(chain, tx[p].links) /\ Good(chain)
      BY <1>1, <2>5, TxFacts DEF ReceiptInv
    <3>2. Len(chain \o tx[p].links) \in Nat
      BY <3>1, Concat DEF Good, Continues
    <3> QED
      BY <1>1, <2>5, <3>2 DEF ReceiptInv, Proves
  <2> QED
    BY <1>1, <2>1, <2>2, <2>3, <2>4, <2>5 DEF TypeOK, IInv, RowsTyped, ChainInv, TxTyped
<1> QED
  BY <1>1, ChainInvariant, ReceiptInvariant, PTL

(* Whatever verify_chain cannot see was either named by a purge or is       *)
(* still what was sealed: a row that is not is reported.                    *)
THEOREM TamperingIsFound == Spec => []TamperingFound
<1>1. ASSUME IInv PROVE TamperingFound
  <2> SUFFICES ASSUME NEW i \in DOMAIN chain, AlteredRow(i) PROVE Break(i)
    BY DEF TamperingFound
  <2> DEFINE what == chain[i].what
             r    == what.id
  <2>1. IsRow(what) /\ Chained(chain, i)
    <3>1. i \in 1..Len(chain) /\ Good(chain)
      BY <1>1, Domains DEF IInv, ChainInv, Good
    <3>2. what.kind = "row"
      BY DEF AlteredRow
    <3> QED
      BY <3>1, <3>2, Kinds DEF Good
  <2>2. what.kind = "row" /\ \A j \in DOMAIN chain : i \notin chain[j].what.seqs
    BY DEF AlteredRow
  <2>3. CASE r \notin DOMAIN audit
    <3>1. i \notin Covered
      BY <2>2 DEF Covered
    <3> QED
      BY <2>2, <2>3, <3>1 DEF Break, MissingRow
  <2>4. CASE r \in DOMAIN audit
    <3>1. audit[r] # what.actor
      BY <2>4 DEF AlteredRow
    <3>2. IsSeq(chain[i].prev) /\ chain[i].hash = Append(chain[i].prev, what)
      BY <2>1 DEF Chained
    <3>3. ASSUME Append(chain[i].prev, RowContent(r, audit[r])) = chain[i].hash
          PROVE  FALSE
      <4>1. RowContent(r, audit[r]) = what
        BY <3>2, <3>3, AppendInjective
      <4>2. RowContent(r, audit[r]).actor = audit[r]
        BY Kinds
      <4> QED
        BY <3>1, <4>1, <4>2
    <3> QED
      BY <2>2, <2>4, <3>3 DEF Break, ContentTampered
  <2> QED
    BY <2>3, <2>4
<1>2. IInv => TamperingFound
  BY <1>1
<1> QED
  BY <1>2, ChainInvariant, PTL

(***************************************************************************)
(* No false alarm.  Every sealed row is there as it was sealed, or has     *)
(* been anonymized or changed by hand, or is named by the record of a      *)
(* purge; and every transaction under way will leave it so.                *)
(***************************************************************************)
RowKept(what) ==
  \/ what.id \in tampered
  \/ what.id \in DOMAIN audit /\ audit[what.id] \in {what.actor, Anon}

Sealed(i) == chain[i].what.kind = "row"

Purged(i) == chain[i].what.id \notin DOMAIN audit
               /\ \E j \in 1..Len(chain) : i \in chain[j].what.seqs

TxAccounts(t) ==
  /\ t.pc \in {"stamp", "commit"} =>
       \A i \in 1..Len(t.links) : t.links[i].what.kind = "row" =>
         t.links[i].what.id \in 1..written /\ RowKept(t.links[i].what)
  /\ t.gone # {} =>
       t.pc = "commit" /\ \A i \in 1..Len(t.links) : t.links[i].what.kind # "row"
  /\ t.op = "prune" /\ t.pc = "delete" =>
       \A i \in 1..Len(chain) : Sealed(i) /\ chain[i].what.id \in Due => i \in t.listed
  /\ t.pc = "commit" =>
       \A i \in 1..Len(chain) : Sealed(i) /\ chain[i].what.id \in t.gone =>
         \E j \in 1..Len(t.links) : i \in t.links[j].what.seqs

Accounted ==
  /\ \A i \in 1..Len(chain) : Sealed(i) =>
       chain[i].what.id \in 1..written /\ (RowKept(chain[i].what) \/ Purged(i))
  /\ \A p \in Procs : TxAccounts(tx[p])

LEMMA NoteAccounts ==
  ASSUME IInv, Accounted, NEW p \in Procs, NEW t, Goes(p, t), Reads, TxAccounts(t)
  PROVE  Accounted'
<1>1. /\ chain' = chain /\ audit' = audit /\ tampered' = tampered /\ written' = written
      /\ aged' = aged /\ held' = held
  BY DEF Reads
<1>2. Due' = Due
  BY <1>1 DEF Due
<1>3. tx' = [q \in Procs |-> IF q = p THEN t ELSE tx[q]]
  BY DEF IInv, ChainInv, Goes
<1>4. ASSUME NEW q \in Procs PROVE TxAccounts(tx[q])'
  <2>1. tx'[q] = IF q = p THEN t ELSE tx[q]
    BY <1>3
  <2>2. TxAccounts(tx'[q])
    BY <2>1 DEF Accounted
  <2> QED
    BY <1>1, <1>2, <2>2 DEF TxAccounts, RowKept, Sealed
<1>5. (\A i \in 1..Len(chain) : Sealed(i) =>
        chain[i].what.id \in 1..written /\ (RowKept(chain[i].what) \/ Purged(i)))'
  BY <1>1 DEF Accounted, Sealed, RowKept, Purged
<1> QED
  BY <1>4, <1>5 DEF Accounted

(* What happens outside keeps the account if it keeps the rows that are    *)
(* sealed, brings none back, and adds none to a purge under way.           *)
LEMMA OutsideAccounts ==
  ASSUME IInv, Accounted, Keeps, written' \in Nat, written <= written',
         \A what : what.id \in 1..written /\ RowKept(what) => RowKept(what)',
         \A r \in 1..written : r \notin DOMAIN audit => r \notin DOMAIN audit',
         Purging = {} \/ Due' \cap (1..written) \subseteq Due
  PROVE  Accounted'
<1>1. chain' = chain /\ tx' = tx
  BY DEF Keeps
<1>2. written \in Nat
  BY ChainAssumption DEF IInv, RowsTyped
<1>3. 1..written \subseteq 1..written'
  BY <1>2
<1>4. ASSUME NEW i \in 1..Len(chain), Sealed(i)
      PROVE  /\ chain[i].what.id \in 1..written'
             /\ RowKept(chain[i].what)' \/ Purged(i)'
  <2>1. chain[i].what.id \in 1..written
    BY <1>4 DEF Accounted
  <2>2. CASE RowKept(chain[i].what)
    <3>1. RowKept(chain[i].what)'
      BY <1>1, <2>1, <2>2 DEF RowKept
    <3> QED
      BY <1>3, <2>1, <3>1
  <2>3. CASE Purged(i)
    <3>1. Purged(i)'
      BY <1>1, <2>1, <2>3 DEF Purged
    <3> QED
      BY <1>3, <2>1, <3>1
  <2> QED
    BY <1>4, <2>2, <2>3 DEF Accounted
<1>5. ASSUME NEW p \in Procs PROVE TxAccounts(tx[p])'
  <2> DEFINE t == tx[p]
  <2>1. TxAccounts(t) /\ tx'[p] = t
    BY <1>1 DEF Accounted
  <2>2. t.pc \in {"stamp", "commit"} =>
          \A i \in 1..Len(t.links) : t.links[i].what.kind = "row" =>
            t.links[i].what.id \in 1..written' /\ RowKept(t.links[i].what)'
    BY <1>3, <2>1 DEF TxAccounts
  <2>3. ASSUME t.op = "prune", t.pc = "delete", NEW i \in 1..Len(chain), Sealed(i),
               chain[i].what.id \in Due'
        PROVE  i \in t.listed
    <3>1. p \in Purging
      BY <2>3 DEF Purging
    <3>2. chain[i].what.id \in 1..written
      BY <2>3 DEF Accounted
    <3> QED
      BY <2>1, <2>3, <3>1, <3>2 DEF TxAccounts
  <2> QED
    BY <1>1, <2>1, <2>2, <2>3 DEF TxAccounts, Sealed
<1> QED
  BY <1>1, <1>4, <1>5 DEF Accounted, Sealed

LEMMA OutsideStepAccounts == ASSUME IInv, Accounted, Outside, ~HoldsMove PROVE Accounted'
<1>0. /\ Keeps /\ RowsTyped /\ MaxRows \in Nat /\ written \in Nat /\ aged \in 0..written
      /\ DOMAIN audit \subseteq 1..written
  BY OutsideKeeps, ChainAssumption DEF IInv, RowsTyped
<1>1. ASSUME NEW u \in Users, WriteRow(u) PROVE Accounted'
  <2>1. written' = written + 1 /\ aged' = aged /\ held' = held /\ tampered' = tampered
    BY <1>1 DEF WriteRow
  <2>2. /\ DOMAIN audit' = DOMAIN audit \cup {written + 1}
        /\ \A r \in DOMAIN audit : audit'[r] = audit[r]
    BY <1>0, <1>1 DEF WriteRow
  <2>3. \A r \in 1..written : r # written + 1
    BY <1>0
  <2>4. \A what : what.id \in 1..written /\ RowKept(what) => RowKept(what)'
    BY <2>1, <2>2 DEF RowKept
  <2>5. Due' \cap (1..written) \subseteq Due
    BY <2>1, <2>2, <2>3 DEF Due
  <2>6. written' \in Nat /\ written <= written'
    BY <1>0, <2>1
  <2> QED
    BY <1>0, <2>2, <2>3, <2>4, <2>5, <2>6, OutsideAccounts
<1>2. ASSUME written' = written,
             \A what : what.id \in 1..written /\ RowKept(what) => RowKept(what)',
             DOMAIN audit' \subseteq DOMAIN audit,
             Purging = {} \/ Due' \subseteq Due
      PROVE  Accounted'
  <2>1. written' \in Nat /\ written <= written'
    BY <1>0, <1>2
  <2> QED
    BY <1>0, <1>2, <2>1, OutsideAccounts
<1>3. ASSUME NEW u \in Users, Anonymize(u) PROVE Accounted'
  <2>1. /\ written' = written /\ tampered' = tampered /\ aged' = aged /\ held' = held
        /\ DOMAIN audit' = DOMAIN audit
        /\ \A r \in DOMAIN audit : audit'[r] = audit[r] \/ audit'[r] = Anon
    BY <1>3 DEF Anonymize
  <2>2. \A what : RowKept(what) => RowKept(what)'
    BY <2>1 DEF RowKept
  <2>3. Due' \subseteq Due
    BY <2>1 DEF Due
  <2> QED
    BY <1>2, <2>1, <2>2, <2>3
<1>4. ASSUME Age \/ \E c \in Cases : ReleaseHold(c) PROVE Accounted'
  <2>1. written' = written /\ audit' = audit /\ tampered' = tampered /\ Purging = {}
    BY <1>4 DEF Age, ReleaseHold
  <2>2. \A what : RowKept(what) => RowKept(what)'
    BY <2>1 DEF RowKept
  <2> QED
    BY <1>2, <2>1, <2>2
<1>5. ASSUME NEW c \in Cases, PlaceHold(c) PROVE Accounted'
  <2>1. /\ written' = written /\ audit' = audit /\ tampered' = tampered /\ aged' = aged
        /\ held' = held \cup {c}
    BY <1>5 DEF PlaceHold
  <2>2. \A what : RowKept(what) => RowKept(what)'
    BY <2>1 DEF RowKept
  <2>3. Due' \subseteq Due
    BY <2>1 DEF Due
  <2> QED
    BY <1>2, <2>1, <2>2, <2>3
<1>6. ASSUME NEW r \in Ids, RemoveRow(r) \/ \E u \in Users : ChangeRow(r, u) PROVE Accounted'
  <2>1. /\ written' = written /\ tampered' = tampered \cup {r} /\ aged' = aged /\ held' = held
    BY <1>6 DEF RemoveRow, ChangeRow, InHand
  <2>2. /\ DOMAIN audit' \subseteq DOMAIN audit
        /\ \A s \in DOMAIN audit \ {r} : s \in DOMAIN audit' /\ audit'[s] = audit[s]
    <3>1. CASE RemoveRow(r)
      BY <3>1 DEF RemoveRow
    <3>2. ASSUME NEW u \in Users, ChangeRow(r, u)
          PROVE  /\ DOMAIN audit' \subseteq DOMAIN audit
                 /\ \A s \in DOMAIN audit \ {r} : s \in DOMAIN audit' /\ audit'[s] = audit[s]
      BY <1>0, <3>2 DEF ChangeRow, RowsTyped
    <3> QED
      BY <1>6, <3>1, <3>2
  <2>3. \A what : RowKept(what) => RowKept(what)'
    BY <2>1, <2>2 DEF RowKept
  <2>4. Due' \subseteq Due
    BY <2>1, <2>2 DEF Due
  <2> QED
    BY <1>2, <2>1, <2>2, <2>3, <2>4
<1> QED
  BY <1>1, <1>3, <1>4, <1>5, <1>6 DEF Outside

LEMMA IdleAccounts == TxAccounts(Idle)
  BY DEF TxAccounts, Idle

LEMMA SealAccounts == ASSUME IInv, Accounted, NEW p \in Procs, Seal(p) PROVE Accounted'
<1> DEFINE Seals(n, batch) ==
             LET whats == [i \in 1..n |-> RowContent(batch[i], audit[batch[i]])]
                 links == LinksFrom(HashOf(chain), whats)
                 tip   == TipOf(chain \o links)
             IN  Goes(p, [tx[p] EXCEPT !.links = links,
                           !.pc = IF Stamps(p, tip) THEN "stamp" ELSE "commit"])
<1>0. PICK n \in 0..MaxRows : \E batch \in Batches(n) : Seals(n, batch)
  BY DEF Seal
<1>1. PICK batch \in Batches(n) : Seals(n, batch)
  BY <1>0
<1> DEFINE w == [i \in 1..n |-> RowContent(batch[i], audit[batch[i]])]
           links == LinksFrom(HashOf(chain), w)
           pc == IF Stamps(p, TipOf(chain \o links)) THEN "stamp" ELSE "commit"
           t == Computes(tx[p], links, pc)
<1>2. Goes(p, t)
  BY <1>1 DEF Computes
<1>3. n \in Nat /\ Reads /\ tx[p].pc = "read" /\ TxAccounts(tx[p]) /\ TxTyped(tx[p])
  BY ChainAssumption, TxFacts DEF Seal, At, Accounted
<1>4. tx[p].gone = {}
  BY <1>3 DEF TxAccounts
<1>5. ASSUME NEW i \in 1..n
      PROVE  links[i].what.id \in 1..written /\ RowKept(links[i].what)
  <2>1. batch[i] \in DOMAIN audit
    BY <1>3, <1>5 DEF Batches, Pending
  <2>2. links[i].what = RowContent(batch[i], audit[batch[i]])
    BY <1>5 DEF LinksFrom, Link
  <2>3. batch[i] \in 1..written
    BY <2>1 DEF IInv, RowsTyped
  <2> HIDE DEF links
  <2> QED
    BY <2>1, <2>2, <2>3, Kinds DEF RowKept
<1>6. DOMAIN links = 1..n /\ Len(links) = n
  BY <1>3 DEF LinksFrom
<1>7. pc \in {"stamp", "commit"}
  OBVIOUS
<1> HIDE DEF links, pc, w
<1>8. t.pc = pc /\ t.links = links /\ t.gone = {}
  <2>1. pc \in Pcs
    BY <1>7 DEF Pcs
  <2> QED
    BY <1>3, <1>4, <2>1, ComputesTyped
<1> HIDE DEF t
<1>9. TxAccounts(t)
  BY <1>5, <1>6, <1>7, <1>8 DEF TxAccounts
<1> QED
  BY <1>2, <1>3, <1>9, NoteAccounts

LEMMA PurgeAccounts ==
  ASSUME IInv, Accounted, NEW p \in Procs, PruneSelect(p) \/ PruneDelete(p)
  PROVE  Accounted'
<1>0. TxTyped(tx[p]) /\ TxAccounts(tx[p]) /\ Good(chain) /\ DOMAIN chain = 1..Len(chain)
  BY TxFacts, Domains DEF Accounted, Good
<1>1. CASE PruneSelect(p)
  <2> DEFINE listed == {i \in DOMAIN chain : chain[i].what.kind = "row" /\ chain[i].what.id \in Due}
             del == "delete"
             t == Lists(tx[p], del, listed)
  <2>1. Goes(p, t) /\ Reads /\ tx[p].pc = "read"
    BY <1>1 DEF PruneSelect, At, Lists
  <2>2. listed \in SUBSET (1..Len(chain))
    BY <1>0
  <2>3. \A i \in 1..Len(chain) : Sealed(i) /\ chain[i].what.id \in Due => i \in listed
    BY <1>0 DEF Sealed
  <2>4. tx[p].gone = {}
    BY <1>0, <2>1 DEF TxAccounts
  <2>5. del = "delete" /\ del \in Pcs
    BY DEF Pcs
  <2> HIDE DEF listed, del
  <2>6. t.pc = "delete" /\ t.listed = listed /\ t.gone = {}
    <3>1. TxTyped(tx[p])
      BY <1>0
    <3> QED
      BY <2>2, <2>4, <2>5, <3>1, ListsTyped
  <2> HIDE DEF t
  <2>7. TxAccounts(t)
    BY <2>3, <2>6 DEF TxAccounts
  <2> QED
    BY <2>1, <2>7, NoteAccounts
<1>2. CASE PruneDelete(p)
  <2> DEFINE listed == tx[p].listed
             rec == PruneContent(listed, {chain[i].hash : i \in listed})
             links == IF listed = {} \/ Due = {} THEN <<>> ELSE <<Link(HashOf(chain), rec)>>
             t == Deletes(tx[p], "commit", Due, links)
  <2>1. Goes(p, t) /\ Reads /\ tx[p].pc = "delete" /\ tx[p].op = "prune"
    BY <1>2 DEF PruneDelete, At, Deletes
  <2>2. \A i \in 1..Len(chain) : Sealed(i) /\ chain[i].what.id \in Due => i \in listed
    BY <1>0, <2>1 DEF TxAccounts
  <2>3. rec.kind = "prune" /\ rec.seqs = listed
    BY Kinds
  <2>4. Due \in SUBSET Ids
    <3>1. Due \subseteq DOMAIN audit
      BY DEF Due
    <3>2. DOMAIN audit \subseteq 1..written /\ \A r \in 1..written : r \in 1..MaxRows
      BY ChainAssumption DEF IInv, RowsTyped
    <3> QED
      BY <3>1, <3>2 DEF Ids
  <2> HIDE DEF rec, listed
  <2>5. ASSUME NEW i \in 1..Len(links) PROVE links[i].what.kind # "row"
    <3>1. CASE listed = {} \/ Due = {}
      BY <2>5, <3>1
    <3>2. CASE ~(listed = {} \/ Due = {})
      <4>1. links = <<Link(HashOf(chain), rec)>> /\ i = 1
        BY <2>5, <3>2
      <4>2. links[i].what = rec
        BY <4>1 DEF Link
      <4> QED
        BY <2>3, <4>2
    <3> QED
      BY <3>1, <3>2
  <2>6. ASSUME NEW i \in 1..Len(chain), Sealed(i), chain[i].what.id \in Due
        PROVE  \E j \in 1..Len(links) : i \in links[j].what.seqs
    <3>1. i \in listed
      BY <2>2, <2>6
    <3>2. links = <<Link(HashOf(chain), rec)>>
      BY <2>6, <3>1
    <3>3. 1 \in 1..Len(links) /\ links[1].what = rec
      BY <3>2 DEF Link
    <3> QED
      BY <2>3, <3>1, <3>3
  <2> HIDE DEF links
  <2>7. t.pc = "commit" /\ t.gone = Due /\ t.links = links
    <3>1. "commit" \in Pcs
      BY DEF Pcs
    <3> QED
      BY <1>0, <2>4, <3>1, DeletesTyped
  <2> HIDE DEF t
  <2>8. TxAccounts(t)
    BY <2>5, <2>6, <2>7 DEF TxAccounts
  <2> QED
    BY <2>1, <2>8, NoteAccounts
<1> QED
  BY <1>1, <1>2

LEMMA OtherNotesAccount ==
  ASSUME IInv, Accounted, NEW p \in Procs,
         \/ \E op \in {"seal", "prune", "anchor"} : Begin(p, op)
         \/ SealLock(p) \/ Stamp(p) \/ Fail(p)
  PROVE  Accounted'
<1>0. TxTyped(tx[p]) /\ TxAccounts(tx[p])
  BY TxFacts DEF Accounted
<1>1. ASSUME NEW op \in {"seal", "prune", "anchor"}, Begin(p, op) PROVE Accounted'
  <2> DEFINE t == Starts(Idle, op, "lock")
  <2>1. Goes(p, t) /\ Reads
    BY <1>1 DEF Begin, Starts
  <2>2. t.pc = "lock" /\ t.gone = {}
    <3>1. TxTyped(Idle) /\ "lock" \in Pcs /\ Idle.gone = {}
      BY DEF TxTyped, Idle, Pcs
    <3> QED
      BY <3>1, StartsTyped
  <2> HIDE DEF t
  <2>3. TxAccounts(t)
    BY <2>2 DEF TxAccounts
  <2> QED
    BY <2>1, <2>3, NoteAccounts
<1>2. CASE SealLock(p)
  <2> DEFINE t == MovesOn(tx[p], "read")
  <2>1. Goes(p, t) /\ Reads /\ tx[p].pc = "lock"
    BY <1>2 DEF SealLock, MovesOn
  <2>2. t.pc = "read" /\ t.gone = {}
    <3>1. tx[p].gone = {} /\ "read" \in Pcs
      BY <1>0, <2>1 DEF TxAccounts, Pcs
    <3> QED
      BY <1>0, <3>1, MovesOnTyped
  <2> HIDE DEF t
  <2>3. TxAccounts(t)
    BY <2>2 DEF TxAccounts
  <2> QED
    BY <2>1, <2>3, NoteAccounts
<1>3. CASE Stamp(p)
  <2> DEFINE t == MovesOn(tx[p], "commit")
  <2>1. Goes(p, t) /\ Reads /\ tx[p].pc = "stamp"
    BY <1>3 DEF Stamp, At, MovesOn
  <2>2. t.pc = "commit" /\ t.gone = {} /\ t.links = tx[p].links
    <3>1. tx[p].gone = {} /\ "commit" \in Pcs
      BY <1>0, <2>1 DEF TxAccounts, Pcs
    <3> QED
      BY <1>0, <3>1, MovesOnTyped
  <2> HIDE DEF t
  <2>3. TxAccounts(t)
    BY <1>0, <2>1, <2>2 DEF TxAccounts
  <2> QED
    BY <2>1, <2>3, NoteAccounts
<1>4. CASE Fail(p)
  BY <1>4, IdleAccounts, NoteAccounts DEF Fail
<1> QED
  BY <1>1, <1>2, <1>3, <1>4

LEMMA CommitAccounts == ASSUME IInv, Accounted, NEW p \in Procs, Commit(p) PROVE Accounted'
<1> DEFINE links == tx[p].links
           gone  == tx[p].gone
           n     == Len(chain)
<1>0. /\ written' = written /\ tampered' = tampered
      /\ audit' = [r \in DOMAIN audit \ gone |-> audit[r]]
      /\ tx[p].pc = "commit" /\ TxAccounts(tx[p])
  BY DEF Commit, Untouched, Accounted
<1>1. /\ n \in Nat /\ Len(links) \in Nat /\ Len(chain') = n + Len(links)
      /\ \A i \in 1..n : i \in 1..Len(chain') /\ chain'[i] = chain[i]
      /\ \A i \in 1..Len(links) : n + i \in 1..Len(chain') /\ chain'[n + i] = links[i]
  <2>1. /\ n \in Nat /\ Len(links) \in Nat /\ Len(chain') = n + Len(links)
        /\ \A i \in 1..n : chain'[i] = chain[i]
        /\ \A i \in 1..Len(links) : chain'[n + i] = links[i]
    BY GrownOnly, Zenon
  <2>2. /\ \A i \in 1..n : i \in 1..Len(chain')
        /\ \A i \in 1..Len(links) : n + i \in 1..Len(chain')
    BY <2>1
  <2> QED
    BY <2>1, <2>2
<1>2. /\ DOMAIN audit' = DOMAIN audit \ gone
      /\ \A r \in DOMAIN audit \ gone : audit'[r] = audit[r]
  BY <1>0
<1>3. \A what : RowKept(what) /\ what.id \notin gone => RowKept(what)'
  BY <1>0, <1>2 DEF RowKept
<1>4. ASSUME NEW i \in 1..n, Sealed(i)'
      PROVE  (chain[i].what.id \in 1..written /\ (RowKept(chain[i].what) \/ Purged(i)))'
  <2>0. chain'[i] = chain[i] /\ Sealed(i)
    BY <1>1, <1>4 DEF Sealed
  <2> DEFINE r == chain[i].what.id
  <2>1. r \in 1..written /\ (RowKept(chain[i].what) \/ Purged(i))
    BY <2>0 DEF Accounted
  <2>2. CASE Purged(i)
    <3>1. PICK j \in 1..n : i \in chain[j].what.seqs
      BY <2>2 DEF Purged
    <3>2. j \in 1..Len(chain') /\ chain'[j] = chain[j]
      BY <1>1
    <3>3. Purged(i)'
      BY <1>2, <2>0, <2>2, <3>1, <3>2 DEF Purged
    <3> QED
      BY <1>0, <2>0, <2>1, <3>3
  <2>3. CASE RowKept(chain[i].what) /\ r \notin gone
    <3>1. RowKept(chain[i].what)'
      BY <1>0, <1>2, <2>0, <2>3 DEF RowKept
    <3> QED
      BY <1>0, <2>0, <2>1, <3>1
  <2>4. CASE r \in gone
    <3>1. PICK j \in 1..Len(links) : i \in links[j].what.seqs
      BY <1>0, <2>0, <2>4 DEF TxAccounts
    <3>2. n + j \in 1..Len(chain') /\ chain'[n + j] = links[j]
      BY <1>1
    <3>3. Purged(i)'
      BY <1>2, <2>0, <2>4, <3>1, <3>2 DEF Purged
    <3> QED
      BY <1>0, <2>0, <2>1, <3>3
  <2> QED
    BY <2>1, <2>2, <2>3, <2>4
<1>5. ASSUME NEW i, NEW k \in 1..Len(links), i = n + k, Sealed(i)'
      PROVE  (chain[i].what.id \in 1..written /\ (RowKept(chain[i].what) \/ Purged(i)))'
  <2> DEFINE what == links[k].what
  <2>1. chain'[i].what = what /\ what.kind = "row"
    BY <1>1, <1>5 DEF Sealed
  <2>2. gone = {}
    BY <1>0, <2>1 DEF TxAccounts
  <2>3. what.id \in 1..written /\ RowKept(what)
    BY <1>0, <2>1 DEF TxAccounts
  <2>4. RowKept(chain[i].what)'
    BY <1>0, <1>2, <2>1, <2>2, <2>3 DEF RowKept
  <2> QED
    BY <1>0, <2>1, <2>3, <2>4
<1>6. ASSUME NEW i \in 1..Len(chain') PROVE i \in 1..n \/ \E k \in 1..Len(links) : i = n + k
  <2> SUFFICES ASSUME i \notin 1..n PROVE \E k \in 1..Len(links) : i = n + k
    OBVIOUS
  <2>1. i - n \in 1..Len(links) /\ i = n + (i - n)
    BY <1>1
  <2> QED
    BY <2>1
<1>7. ASSUME NEW q \in Procs PROVE TxAccounts(tx[q])'
  <2>1. tx' = [o \in Procs |-> IF o = p THEN Idle ELSE tx[o]]
    BY DEF IInv, ChainInv, Commit, Goes
  <2>2. CASE q = p
    <3>1. tx'[q] = Idle
      BY <2>1, <2>2
    <3>2. Idle.pc = "idle" /\ Idle.gone = {}
      BY DEF Idle
    <3> QED
      BY <3>1, <3>2 DEF TxAccounts
  <2>3. CASE q # p
    <3>1. tx'[q] = tx[q] /\ tx[q].pc \notin Holding
      BY <2>1, <2>3, TxFacts, Grown
    <3>2. tx[q].gone = {}
      BY <3>1 DEF Accounted, TxAccounts, Holding
    <3> QED
      BY <3>1, <3>2 DEF TxAccounts, Holding
  <2> QED
    BY <2>2, <2>3
<1>8. (\A i \in 1..Len(chain) : Sealed(i) =>
        chain[i].what.id \in 1..written /\ (RowKept(chain[i].what) \/ Purged(i)))'
  <2> SUFFICES ASSUME NEW i \in 1..Len(chain'), Sealed(i)'
               PROVE  (chain[i].what.id \in 1..written
                         /\ (RowKept(chain[i].what) \/ Purged(i)))'
    OBVIOUS
  <2> QED
    BY <1>4, <1>5, <1>6
<1> QED
  BY <1>7, <1>8 DEF Accounted

(* The account answers for every break verify_chain reports.               *)
LEMMA BreaksFollow == ASSUME IInv, Accounted PROVE BreaksExplained
<1>0. Good(chain) /\ DOMAIN chain = 1..Len(chain) /\ ChainSound
  BY Domains, GoodIsSound DEF IInv, ChainInv, Good
<1> SUFFICES ASSUME NEW i \in DOMAIN chain, Break(i)
             PROVE  \/ chain[i].what.id \in tampered
                    \/ chain[i].what.id \in DOMAIN audit /\ audit[chain[i].what.id] = Anon
  BY DEF BreaksExplained
<1> DEFINE what == chain[i].what
<1>1. ~BrokenLink(i) /\ ~InvalidRecord(i)
  BY <1>0 DEF ChainSound
<1>2. what.kind = "row" /\ i \in 1..Len(chain)
  BY <1>0, <1>1 DEF Break, MissingRow, ContentTampered
<1>3. IsRow(what) /\ chain[i].hash = Append(chain[i].prev, what)
  BY <1>0, <1>2, Kinds DEF Good, Chained
<1>4. RowKept(what) \/ Purged(i)
  BY <1>2 DEF Accounted, Sealed
<1>5. CASE MissingRow(i)
  <2>1. ASSUME Purged(i) PROVE FALSE
    <3>1. PICK j \in 1..Len(chain) : i \in chain[j].what.seqs
      BY <2>1 DEF Purged
    <3>2. IsRecord(chain, j)
      BY <1>0, <3>1, Kinds DEF Good
    <3>3. Recorded(j)
      <4>1. ~InvalidRecord(j) /\ chain[j].what.kind = "prune"
        BY <1>0, <3>2, Kinds DEF ChainSound
      <4> QED
        BY <4>1 DEF InvalidRecord
    <3>4. i \in Covered
      BY <1>0, <3>1, <3>3 DEF Covered
    <3> QED
      BY <1>5, <3>4 DEF MissingRow
  <2> QED
    BY <1>4, <1>5, <2>1 DEF MissingRow, RowKept
<1>6. CASE ContentTampered(i)
  <2>1. what.id \in DOMAIN audit
    BY <1>6 DEF ContentTampered
  <2>2. audit[what.id] # what.actor
    BY <1>3, <1>6 DEF ContentTampered, IsRow
  <2> QED
    BY <1>4, <2>1, <2>2 DEF RowKept, Purged
<1> QED
  BY <1>1, <1>5, <1>6 DEF Break

(* verify_chain reports a row only if it was changed or removed by hand or *)
(* is about an anonymized user; a purge is never mistaken for tampering if *)
(* no hold is released while it runs.                                      *)
THEOREM NoFalseAlarm == ASSUME ~HoldsMove PROVE Spec => []BreaksExplained
<1>1. Init => Accounted
  <2> SUFFICES ASSUME Init PROVE Accounted
    OBVIOUS
  <2>1. chain = <<>> /\ \A p \in Procs : tx[p] = Idle
    BY DEF Init
  <2> QED
    BY <2>1, IdleAccounts, EmptyIsSeq DEF Accounted
<1>2. IInv /\ Accounted /\ [Next]_vars => Accounted'
  <2> SUFFICES ASSUME IInv, Accounted, [Next]_vars PROVE Accounted'
    OBVIOUS
  <2>1. CASE UNCHANGED vars
    BY <2>1 DEF vars, Accounted, TxAccounts, RowKept, Sealed, Purged, Due
  <2>2. CASE Outside
    BY <2>2, OutsideStepAccounts
  <2>3. ASSUME NEW p \in Procs,
               (\E op \in {"seal", "prune", "anchor"} : Begin(p, op)) \/ Work(p) \/ Fail(p)
        PROVE  Accounted'
    BY <2>3, SealAccounts, PurgeAccounts, OtherNotesAccount, CommitAccounts DEF Work
  <2> QED
    BY <2>1, <2>2, <2>3 DEF Next, Outside
<1>3. IInv /\ Accounted => BreaksExplained
  BY BreaksFollow
<1> QED
  BY <1>1, <1>2, <1>3, ChainInvariant, PTL DEF Spec
=============================================================================
