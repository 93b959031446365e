-------------------------- MODULE CaseTransactionsProofs --------------------------
(***************************************************************************)
(* The stream of a case stays contiguous and no append loses the race for  *)
(* its number, for any family of cases and any number of overlapping       *)
(* requests.  The argument: a request appends to a case only after it has  *)
(* written its row, so it holds the row lock, and of two holders of a lock *)
(* there is one.  Prepared carries the first half through the statements   *)
(* of a request, Exclusive is the second; Sound says what a transaction    *)
(* may rely on meanwhile.  On top of it: Agreement, that committed rows    *)
(* are what their streams tell, but for the columns written around them,   *)
(* and RarelyAround, which columns can be; Families, what a request that   *)
(* ends a sub-case has seen of its siblings when no other request is in    *)
(* the family; HeldNotHidden, that no delete is under way on a held case.  *)
(***************************************************************************)
EXTENDS CaseTransactions, SequenceTheorems, FiniteSetTheorems, TLAPS

(* Two transactions never hold the same row.                               *)
Exclusive == \A v, w \in Workers : v # w => Locked(v) \cap Locked(w) = {}

(* An event is recorded on a locked row, or the row is locked first.       *)
Prepared(t) ==
  \A i \in 1..Len(t.todo) :
    t.todo[i].op = "event" =>
      \/ t.todo[i].case \in DOMAIN t.rows
      \/ t.todo[1].op \in {"set", "put"} /\ t.todo[1].case = t.todo[i].case

Gapless(c, evs) == \E m \in Nat : StreamOf(c, evs) = 1..m

Numbered(evs) == \A d, e \in evs : d.case = e.case /\ d.seq = e.seq => d = e

(* A number that has been read is still the next one.                      *)
NumberHolds(t) ==
  t.seq # 0 =>
    /\ t.todo # <<>>
    /\ Head(t.todo).op = "event"
    /\ StreamOf(Head(t.todo).case, events \cup t.events) = 1..(t.seq - 1)

Sound(t) ==
  /\ \A e \in t.events : e.case \in DOMAIN t.rows
  /\ Prepared(t)
  /\ \A c \in Cases : Gapless(c, events \cup t.events)
  /\ Numbered(events \cup t.events)
  /\ NumberHolds(t)

IInv ==
  /\ TypeOK
  /\ Exclusive
  /\ \A c \in Cases : Gapless(c, events)
  /\ Numbered(events)
  /\ \A w \in Workers : Sound(tx[w])
-----------------------------------------------------------------------------
(* What the requests are made of.                                          *)
USE TransactionsAssumption

(* A request works on one case; if it records anything, it begins with a   *)
(* write to the row.                                                       *)
Opens(todo, c) ==
  /\ todo \in Seq(Statements)
  /\ todo # <<>>
  /\ \A i \in 1..Len(todo) : todo[i].case = c
  /\ todo[1].op \notin {"set", "put"} =>
       \A i \in 1..Len(todo) : todo[i].op # "event"

(* ChangeStatus is a list of statements on the case.                       *)
LEMMA ChangeStatusOpens ==
  ASSUME NEW c \in Cases, NEW to \in Statuses
  PROVE  Opens(ChangeStatus(c, to), c) /\ ChangeStatus(c, to)[1].op = "set"
<1> DEFINE s1 == Statement("set", c, "status", to)
           s2 == Statement("event", c, "status", to)
           s3 == Statement("propagate", c, "status", to)
<1>1. s1 \in Statements /\ s2 \in Statements /\ s3 \in Statements
  BY DEF Statement, Statements, Updates, EventTypes, Values, Statuses
<1>2. <<s1, s2, s3>> \in Seq(Statements)
  BY <1>1
<1>3. s1.op = "set" /\ s1.case = c /\ s2.case = c /\ s3.case = c
  BY DEF Statement
<1> QED
  BY <1>2, <1>3 DEF Opens, ChangeStatus

(* What follows the entry of a stage: nothing, or a change of status.      *)
LEMMA EntryStatements ==
  ASSUME NEW c \in Cases, NEW entry \in OnEnter(c)
  PROVE  entry \in Seq(Statements) /\ \A i \in 1..Len(entry) : entry[i].case = c
<1>1. CASE entry = <<>>
  BY <1>1
<1>2. CASE \E to \in Statuses : entry = ChangeStatus(c, to)
  BY <1>2, ChangeStatusOpens DEF Opens
<1> QED
  BY <1>1, <1>2 DEF OnEnter

(* A write of the row may be put before any list on the same case.         *)
LEMMA WriteFirst ==
  ASSUME NEW c \in Cases, NEW s \in Statements, s.op \in {"set", "put"}, s.case = c,
         NEW rest \in Seq(Statements), \A i \in 1..Len(rest) : rest[i].case = c
  PROVE  Opens(<<s>> \o rest, c)
<1> DEFINE all == <<s>> \o rest
<1>1. <<s>> \in Seq(Statements) /\ Len(<<s>>) = 1 /\ <<s>>[1] = s
  OBVIOUS
<1>2. /\ all \in Seq(Statements)
      /\ Len(all) = 1 + Len(rest)
      /\ \A i \in 1..(1 + Len(rest)) : all[i] = IF i <= 1 THEN <<s>>[i] ELSE rest[i - 1]
  BY <1>1, ConcatProperties
<1>3. Len(rest) \in Nat
  BY LenProperties
<1>4. all[1] = s
  BY <1>1, <1>2, <1>3
<1>5. ASSUME NEW i \in 1..Len(all)
      PROVE  all[i].case = c
  <2>1. CASE i = 1
    BY <1>4, <2>1
  <2>2. CASE i # 1
    <3>1. i - 1 \in 1..Len(rest) /\ all[i] = rest[i - 1]
      BY <1>2, <1>3, <2>2
    <3> QED
      BY <3>1
  <2> QED
    BY <2>1, <2>2
<1>6. all # <<>>
  BY <1>2, <1>3
<1> QED
  BY <1>2, <1>4, <1>5, <1>6 DEF Opens

(* Every request opens with a write, or records nothing.                   *)
LEMMA RequestOpens ==
  ASSUME NEW kind \in AllKinds, NEW c \in Cases, NEW todo \in Requests(kind, c)
  PROVE  Opens(todo, c)
<1>1. CASE kind = "status"
  <2>1. Requests(kind, c) = {ChangeStatus(c, to) : to \in Statuses}
    BY <1>1 DEF Requests
  <2>2. PICK to \in Statuses : todo = ChangeStatus(c, to)
    BY <2>1
  <2> QED
    BY <2>2, ChangeStatusOpens
<1>2. CASE kind = "enter"
  <2>0. PICK name \in Stages : todo \in EnterStage(c, name)
    <3>1. Requests(kind, c) = UNION {EnterStage(c, s) : s \in Stages}
      BY <1>2 DEF Requests
    <3> QED
      BY <3>1
  <2>1. PICK s \in Stages, entry \in OnEnter(c) :
          todo = <<Statement("set", c, "stage", s), Statement("event", c, "stage", s)>>
                   \o entry \o <<Statement("event", c, "assigned", "none")>>
    BY <2>0 DEF EnterStage
  <2> DEFINE s1 == Statement("set", c, "stage", s)
             s2 == Statement("event", c, "stage", s)
             s3 == Statement("event", c, "assigned", "none")
             rest == <<s2>> \o (entry \o <<s3>>)
  <2>2. s1 \in Statements /\ s2 \in Statements /\ s3 \in Statements
    BY DEF Statement, Statements, Updates, EventTypes, Values
  <2>3. s1.op = "set" /\ s1.case = c /\ s2.case = c /\ s3.case = c
    BY DEF Statement
  <2>4. entry \in Seq(Statements) /\ \A i \in 1..Len(entry) : entry[i].case = c
    BY EntryStatements
  <2>5. rest \in Seq(Statements) /\ \A i \in 1..Len(rest) : rest[i].case = c
    <3> DEFINE tail == entry \o <<s3>>
    <3> HIDE DEF s1, s2, s3
    <3>1. <<s2>> \in Seq(Statements) /\ <<s3>> \in Seq(Statements)
            /\ Len(<<s2>>) = 1 /\ Len(<<s3>>) = 1 /\ <<s2>>[1] = s2 /\ <<s3>>[1] = s3
      BY <2>2
    <3>2. Len(entry) \in Nat
      BY <2>4, LenProperties
    <3>3. /\ tail \in Seq(Statements)
          /\ Len(tail) = Len(entry) + 1
          /\ \A i \in 1..(Len(entry) + 1) :
               tail[i] = IF i <= Len(entry) THEN entry[i] ELSE <<s3>>[i - Len(entry)]
      BY <3>1, <2>4, ConcatProperties
    <3>4. \A i \in 1..Len(tail) : tail[i].case = c
      <4> SUFFICES ASSUME NEW i \in 1..Len(tail) PROVE tail[i].case = c
        OBVIOUS
      <4>1. CASE i <= Len(entry)
        BY <4>1, <3>2, <3>3, <2>4
      <4>2. CASE i = Len(entry) + 1
        BY <4>2, <3>1, <3>2, <3>3, <2>3
      <4> QED
        BY <4>1, <4>2, <3>2, <3>3
    <3> HIDE DEF tail
    <3>5. /\ <<s2>> \o tail \in Seq(Statements)
          /\ Len(<<s2>> \o tail) = 1 + Len(tail)
          /\ \A i \in 1..(1 + Len(tail)) :
               (<<s2>> \o tail)[i] = IF i <= 1 THEN <<s2>>[i] ELSE tail[i - 1]
      BY <3>1, <3>3, ConcatProperties
    <3>6. \A i \in 1..(1 + Len(tail)) : (<<s2>> \o tail)[i].case = c
      <4> SUFFICES ASSUME NEW i \in 1..(1 + Len(tail)) PROVE (<<s2>> \o tail)[i].case = c
        OBVIOUS
      <4>1. CASE i = 1
        BY <4>1, <3>1, <3>5, <2>3
      <4>2. CASE i # 1
        <5>1. i - 1 \in 1..Len(tail) /\ (<<s2>> \o tail)[i] = tail[i - 1]
          BY <4>2, <3>2, <3>3, <3>5
        <5> QED
          BY <5>1, <3>4
      <4> QED
        BY <4>1, <4>2
    <3> QED
      BY <3>5, <3>6 DEF tail
  <2>6. todo = <<s1>> \o rest
    <3> HIDE DEF s1, s2, s3
    <3>1. <<s1>> \in Seq(Statements) /\ <<s2>> \in Seq(Statements)
            /\ <<s3>> \in Seq(Statements)
      BY <2>2
    <3>2. entry \o <<s3>> \in Seq(Statements)
      BY <3>1, <2>4, ConcatProperties
    <3>3. <<s1, s2>> \in Seq(Statements)
      BY <2>2
    <3>4. (<<s1, s2>> \o entry) \o <<s3>> = <<s1, s2>> \o (entry \o <<s3>>)
      BY <3>1, <3>3, <2>4, ConcatAssociative
    <3>5. (<<s1>> \o <<s2>>) \o (entry \o <<s3>>) = <<s1>> \o (<<s2>> \o (entry \o <<s3>>))
      BY <3>1, <3>2, ConcatAssociative
    <3>6. todo = (<<s1, s2>> \o entry) \o <<s3>>
      BY <2>1 DEF s1, s2, s3
    <3>7. <<s1>> \o <<s2>> = <<s1, s2>>
      <4>1. Len(<<s1>>) = 1 /\ Len(<<s2>>) = 1 /\ <<s1>>[1] = s1 /\ <<s2>>[1] = s2
              /\ Len(<<s1, s2>>) = 2 /\ <<s1, s2>>[1] = s1 /\ <<s1, s2>>[2] = s2
        OBVIOUS
      <4>2. /\ <<s1>> \o <<s2>> \in Seq(Statements)
            /\ Len(<<s1>> \o <<s2>>) = 2
            /\ \A i \in 1..2 : (<<s1>> \o <<s2>>)[i] = IF i <= 1 THEN <<s1>>[i] ELSE <<s2>>[i - 1]
        BY <3>1, <4>1, ConcatProperties
      <4>3. (<<s1>> \o <<s2>>)[1] = s1 /\ (<<s1>> \o <<s2>>)[2] = s2
        BY <4>1, <4>2
      <4>4. \A i \in 1..2 : (<<s1>> \o <<s2>>)[i] = <<s1, s2>>[i]
        BY <4>1, <4>3
      <4> QED
        BY <3>3, <4>1, <4>2, <4>4, SeqEqual
    <3> QED
      BY <3>1, <3>4, <3>5, <3>6, <3>7
  <2> HIDE DEF rest
  <2> QED
    BY <2>2, <2>3, <2>5, <2>6, WriteFirst
<1>3. CASE kind = "move"
  <2>0. PICK name \in Stages : todo \in MoveStage(c, name)
    <3>1. Requests(kind, c) = UNION {MoveStage(c, s) : s \in Stages}
      BY <1>3 DEF Requests
    <3> QED
      BY <3>1
  <2>1. PICK s \in Stages, entry \in OnEnter(c) :
          todo = <<Statement("put", c, "stage", s)>> \o entry
    BY <2>0 DEF MoveStage
  <2>2. Statement("put", c, "stage", s) \in Statements
    BY DEF Statement, Statements, Updates
  <2>3. Statement("put", c, "stage", s).op = "put" /\ Statement("put", c, "stage", s).case = c
    BY DEF Statement
  <2> QED
    BY <2>1, <2>2, <2>3, WriteFirst, EntryStatements
<1>4. ASSUME NEW s \in Statements, s.op # "event", s.case = c, todo = <<s>>
      PROVE  Opens(todo, c)
  BY <1>4 DEF Opens
<1>5. CASE kind = "escalate"
  <2>0. Requests(kind, c) = {<<Statement("put", c, "status", to)>> : to \in Statuses}
    BY <1>5 DEF Requests
  <2>1. PICK to \in Statuses : todo = <<Statement("put", c, "status", to)>>
    BY <2>0
  <2> QED
    BY <2>1, <1>4 DEF Statement, Statements, Updates
<1>6. CASE kind = "delete"
  BY <1>4, <1>6 DEF Requests, Statement, Statements, Updates
<1>7. CASE kind = "hold"
  BY <1>4, <1>7 DEF Requests, Statement, Statements, Values
<1> QED
  BY <1>1, <1>2, <1>3, <1>5, <1>6, <1>7 DEF AllKinds
-----------------------------------------------------------------------------
(* Steps.                                                                  *)

(* No row is written yet.                                                  *)
LEMMA NoRows == <<>> \in UNION {[D -> Row] : D \in SUBSET Cases}
<1>1. <<>> \in [{} -> Row]
  BY SMT
<1>2. [{} -> Row] \in {[D -> Row] : D \in SUBSET Cases}
  OBVIOUS
<1> QED
  BY <1>1, <1>2

LEMMA IdleWellFormed ==
  /\ Idle \in Transaction
  /\ DOMAIN Idle.rows = {} /\ Idle.events = {} /\ Idle.todo = <<>> /\ Idle.seq = 0
<1>1. <<>> \in Seq(Statements)
  OBVIOUS
<1> QED
  BY <1>1, NoRows DEF Idle, Clean, Transaction

LEMMA InitInvariant == Init => IInv
<1> SUFFICES ASSUME Init PROVE IInv
  OBVIOUS
<1>1. Idle \in Transaction
  BY IdleWellFormed
<1>2. events \subseteq Event
  BY DEF Init, Event, EventTypes, Values, Statuses
<1>3. row \in [Cases -> Row]
  BY DEF Init, Row, Statuses
<1>4. TypeOK
  BY <1>1, <1>2, <1>3 DEF Init, TypeOK
<1>5. DOMAIN Idle.rows = {} /\ Idle.events = {} /\ Idle.todo = <<>> /\ Idle.seq = 0
  BY IdleWellFormed
<1>6. Exclusive
  BY <1>5 DEF Init, Exclusive, Locked
<1>7. ASSUME NEW c \in Cases PROVE StreamOf(c, events) = 1..1
  <2>1. [case |-> c, seq |-> 1, type |-> "created", to |-> "open"] \in events
    BY DEF Init
  <2>2. \A e \in events : e.seq = 1
    BY DEF Init
  <2>3. StreamOf(c, events) = {1}
    BY <2>1, <2>2 DEF StreamOf
  <2> QED
    BY <2>3
<1>8. Numbered(events)
  BY DEF Init, Numbered
<1>9. \A c \in Cases : Gapless(c, events)
  BY <1>7 DEF Gapless
<1>10. Sound(Idle)
  <2>1. events \cup Idle.events = events
    BY <1>5
  <2>2. Prepared(Idle)
    BY <1>5 DEF Prepared
  <2>3. NumberHolds(Idle)
    BY <1>5 DEF NumberHolds
  <2> QED
    BY <1>5, <1>8, <1>9, <2>1, <2>2, <2>3 DEF Sound
<1>11. \A w \in Workers : Sound(tx[w])
  BY <1>10 DEF Init
<1> QED
  BY <1>4, <1>6, <1>8, <1>9, <1>11 DEF IInv

(* The fields of a transaction.                                            *)
LEMMA Fields ==
  ASSUME NEW t \in Transaction
  PROVE  /\ t.todo \in Seq(Statements)
         /\ t.rows \in [DOMAIN t.rows -> Row]
         /\ DOMAIN t.rows \subseteq Cases
         /\ t.events \subseteq Event
         /\ t.held \subseteq Cases
         /\ t.around \subseteq Cases \X Columns
         /\ t.seq \in Nat
         /\ t.active \in BOOLEAN
<1>1. t.rows \in UNION {[D -> Row] : D \in SUBSET Cases}
  BY DEF Transaction
<1>2. PICK D \in SUBSET Cases : t.rows \in [D -> Row]
  BY <1>1
<1> QED
  BY <1>2 DEF Transaction

(* A transaction that has done nothing is sound.                           *)
LEMMA FreshIsSound ==
  ASSUME IInv, NEW t \in Transaction, t.rows = <<>>, t.events = {}, t.seq = 0, Prepared(t)
  PROVE  Sound(t)
<1>1. events \cup t.events = events
  OBVIOUS
<1> QED
  BY <1>1 DEF Sound, IInv, NumberHolds

(* A step of one transaction that commits nothing.                         *)
LEMMA LocalStep ==
  ASSUME IInv, NEW w \in Workers, NEW t \in Transaction,
         tx' = [tx EXCEPT ![w] = t], UNCHANGED <<row, events, held, bypassed>>,
         requests' \in 0..MaxRequests, Sound(t), \A v \in Workers \ {w} : DOMAIN t.rows \cap Locked(v) = {}
  PROVE  IInv'
<1>1. tx \in [Workers -> Transaction] /\ tx'[w] = t /\ \A v \in Workers \ {w} : tx'[v] = tx[v]
  BY DEF IInv, TypeOK
<1>2. TypeOK'
  BY <1>1 DEF IInv, TypeOK
<1>3. Exclusive'
  <2> SUFFICES ASSUME NEW u \in Workers, NEW v \in Workers, u # v
               PROVE  DOMAIN tx'[u].rows \cap DOMAIN tx'[v].rows = {}
    BY DEF Exclusive, Locked
  <2>1. CASE u = w
    BY <1>1, <2>1 DEF Locked
  <2>2. CASE v = w
    BY <1>1, <2>2 DEF Locked
  <2>3. CASE u # w /\ v # w
    BY <1>1, <2>3 DEF IInv, Exclusive, Locked
  <2> QED
    BY <2>1, <2>2, <2>3
<1>4. (\A c \in Cases : Gapless(c, events))' /\ Numbered(events)'
  BY DEF IInv, Gapless, Numbered, StreamOf
<1>5. ASSUME NEW v \in Workers PROVE Sound(tx[v])'
  <2>1. Sound(tx'[v])
    BY <1>1 DEF IInv
  <2> QED
    BY <2>1 DEF Sound, Prepared, Gapless, Numbered, NumberHolds, StreamOf
<1> QED
  BY <1>2, <1>3, <1>4, <1>5 DEF IInv
-----------------------------------------------------------------------------
(* Statements.                                                             *)

(* A statement has been carried out and leaves the list.                   *)
LEMMA PreparedTail ==
  ASSUME NEW t \in Transaction, t.todo # <<>>, Prepared(t),
         NEW u, u.todo = Tail(t.todo), DOMAIN t.rows \subseteq DOMAIN u.rows,
         Head(t.todo).op \in {"set", "put"} => Head(t.todo).case \in DOMAIN u.rows
  PROVE  Prepared(u)
<1>1. t.todo \in Seq(Statements)
  BY Fields
<1>2. /\ Len(Tail(t.todo)) = Len(t.todo) - 1
      /\ \A i \in 1..Len(Tail(t.todo)) : Tail(t.todo)[i] = t.todo[i + 1]
      /\ Len(t.todo) \in Nat
      /\ Head(t.todo) = t.todo[1]
  BY <1>1, HeadTailProperties, LenProperties
<1> SUFFICES ASSUME NEW i \in 1..Len(u.todo), u.todo[i].op = "event"
             PROVE  u.todo[i].case \in DOMAIN u.rows
  BY DEF Prepared
<1>3. i + 1 \in 1..Len(t.todo) /\ u.todo[i] = t.todo[i + 1]
  BY <1>2
<1> QED
  BY <1>2, <1>3 DEF Prepared

(* The events of a list that does not begin with a write are on rows the   *)
(* transaction has locked.                                                 *)
LEMMA EventsLocked ==
  ASSUME NEW t \in Transaction, t.todo # <<>>, Prepared(t),
         Head(t.todo).op \notin {"set", "put"}
  PROVE  \A i \in 1..Len(t.todo) : t.todo[i].op = "event" => t.todo[i].case \in DOMAIN t.rows
<1>1. Head(t.todo) = t.todo[1]
  BY Fields
<1> QED
  BY <1>1 DEF Prepared

(* next_seq is one more than the length of a stream without holes.         *)
LEMMA NextSeqIs ==
  ASSUME NEW w \in Workers, NEW c, NEW m \in Nat,
         StreamOf(c, events \cup tx[w].events) = 1..m
  PROVE  NextSeq(w, c) = m + 1
<1> DEFINE seen == StreamOf(c, events \cup tx[w].events)
           last == CHOOSE n \in seen : \A k \in seen : k <= n
<1>1. NextSeq(w, c) = IF seen = {} THEN 1 ELSE last + 1
  BY DEF NextSeq
<1>2. seen = 1..m
  OBVIOUS
<1> HIDE DEF seen
<1>3. CASE m = 0
  <2>1. seen = {}
    BY <1>2, <1>3
  <2> QED
    BY <1>1, <1>3, <2>1
<1>4. CASE m > 0
  <2>1. m \in seen /\ \A k \in seen : k <= m
    BY <1>2, <1>4
  <2>2. last \in seen /\ \A k \in seen : k <= last
    BY <2>1
  <2> HIDE DEF last
  <2>3. last \in 1..m
    BY <1>2, <2>2
  <2>4. last = m
    BY <2>1, <2>2, <2>3
  <2> QED
    BY <1>1, <2>1, <2>4
<1> QED
  BY <1>3, <1>4

(* A transaction begins, or is thrown away: Clean.                         *)
LEMMA CleanStep ==
  ASSUME IInv, NEW w \in Workers, NEW a \in BOOLEAN, NEW todo \in Seq(Statements),
         tx' = [tx EXCEPT ![w] = Clean(a, todo)], UNCHANGED <<row, events, held, bypassed>>,
         requests' \in 0..MaxRequests,
         \A i \in 1..Len(todo) : todo[i].op = "event" =>
           todo[1].op \in {"set", "put"} /\ todo[1].case = todo[i].case
  PROVE  IInv'
<1> DEFINE t == Clean(a, todo)
<1>1. /\ t = [active |-> a, todo |-> todo, rows |-> <<>>, events |-> {}, held |-> {},
              around |-> {}, seq |-> 0]
      /\ t.todo = todo /\ t.rows = <<>> /\ t.events = {} /\ t.seq = 0
  BY DEF Clean
<1>2. tx' = [tx EXCEPT ![w] = t]
  OBVIOUS
<1> HIDE DEF t
<1>3. t \in Transaction
  BY <1>1, NoRows DEF Transaction
<1>4. Prepared(t)
  BY <1>1 DEF Prepared
<1>5. Sound(t)
  BY <1>1, <1>3, <1>4, FreshIsSound
<1>6. DOMAIN t.rows = {}
  BY <1>1
<1> QED
  BY <1>2, <1>3, <1>5, <1>6, LocalStep

(* Nothing is left to do.                                                  *)
LEMMA IdleStep ==
  ASSUME IInv, NEW w \in Workers,
         tx' = [tx EXCEPT ![w] = Idle], UNCHANGED <<row, events, held, bypassed, requests>>
  PROVE  IInv'
<1> DEFINE todo == <<>>
<1>1. todo \in Seq(Statements) /\ 1..Len(todo) = {}
  OBVIOUS
<1>2. requests' \in 0..MaxRequests
  BY DEF IInv, TypeOK
<1>3. tx' = [tx EXCEPT ![w] = Clean(FALSE, todo)]
  BY DEF Idle
<1> HIDE DEF todo
<1> QED
  BY <1>1, <1>2, <1>3, CleanStep

LEMMA BeginStep ==
  ASSUME IInv, NEW w \in Workers, Begin(w)
  PROVE  IInv'
<1>1. PICK kind \in Kinds, c \in Cases :
        \E todo \in Requests(kind, c) : tx' = [tx EXCEPT ![w] = Clean(TRUE, todo)]
  BY DEF Begin
<1>2. PICK todo \in Requests(kind, c) : tx' = [tx EXCEPT ![w] = Clean(TRUE, todo)]
  BY <1>1
<1>3. Opens(todo, c)
  BY RequestOpens
<1>4. \A i \in 1..Len(todo) : todo[i].op = "event" =>
        todo[1].op \in {"set", "put"} /\ todo[1].case = todo[i].case
  <2>1. Len(todo) \in Nat /\ Len(todo) # 0
    BY <1>3, EmptySeq, LenProperties DEF Opens
  <2>2. 1 \in 1..Len(todo)
    BY <2>1
  <2> QED
    BY <1>3, <2>2 DEF Opens
<1>5. requests' \in 0..MaxRequests
  BY DEF Begin, IInv, TypeOK
<1>6. UNCHANGED <<row, events, held, bypassed>>
  BY DEF Begin
<1> QED
  BY <1>2, <1>3, <1>4, <1>5, <1>6, CleanStep DEF Opens

LEMMA UpdateStep ==
  ASSUME IInv, NEW w \in Workers, Update(w)
  PROVE  IInv'
<1> DEFINE s == Now(w)
           r == [Visible(w, s.case) EXCEPT ![s.what] = s.to]
           t == [tx[w] EXCEPT
                   !.todo = Tail(tx[w].todo),
                   !.rows = [c \in Locked(w) \cup {s.case} |-> IF c = s.case THEN r ELSE tx[w].rows[c]],
                   !.around = IF s.op = "put" THEN tx[w].around \cup {<<s.case, s.what>>}
                                              ELSE tx[w].around \ {<<s.case, s.what>>}]
<1>1. tx[w] \in Transaction /\ Sound(tx[w])
  BY DEF IInv, TypeOK
<1>2. tx[w].todo # <<>> /\ s.op \in {"set", "put"} /\ s = Head(tx[w].todo)
  BY DEF Update, Doing, Now
<1>3. s \in Statements /\ Tail(tx[w].todo) \in Seq(Statements)
  BY <1>1, <1>2, Fields, HeadTailProperties
<1>4. s.case \in Cases /\ s.what \in Columns
  BY <1>2, <1>3 DEF Statements, Updates, Columns
<1>5. Visible(w, s.case) \in Row
  BY <1>1, <1>4, Fields DEF Visible, Locked, IInv, TypeOK
<1>6. r \in Row
  <2>1. CASE s.what = "status"
    <3>1. s.to \in Statuses
      BY <1>2, <1>3, <2>1 DEF Statements, Updates
    <3> QED
      BY <1>5, <2>1, <3>1 DEF Row
  <2>2. CASE s.what = "stage"
    <3>1. s.to \in Stages
      BY <1>2, <1>3, <2>2 DEF Statements, Updates
    <3> QED
      BY <1>5, <2>2, <3>1 DEF Row
  <2>3. CASE s.what = "is_deleted"
    <3>1. s.to \in {"no", "yes"}
      BY <1>2, <1>3, <2>3 DEF Statements, Updates
    <3> QED
      BY <1>5, <2>3, <3>1 DEF Row
  <2> QED
    BY <1>4, <2>1, <2>2, <2>3 DEF Columns
<1> HIDE DEF r
<1>7. t \in Transaction
  <2>1. [c \in Locked(w) \cup {s.case} |-> IF c = s.case THEN r ELSE tx[w].rows[c]]
          \in [Locked(w) \cup {s.case} -> Row]
    BY <1>1, <1>6, Fields DEF Locked
  <2>2. Locked(w) \cup {s.case} \in SUBSET Cases
    BY <1>1, <1>4, Fields DEF Locked
  <2>3. [Locked(w) \cup {s.case} -> Row] \in {[D -> Row] : D \in SUBSET Cases}
    BY <2>2
  <2>4. [c \in Locked(w) \cup {s.case} |-> IF c = s.case THEN r ELSE tx[w].rows[c]]
          \in UNION {[D -> Row] : D \in SUBSET Cases}
    BY <2>1, <2>3
  <2>5. <<s.case, s.what>> \in Cases \X Columns
    BY <1>4
  <2>6. (IF s.op = "put" THEN tx[w].around \cup {<<s.case, s.what>>}
                         ELSE tx[w].around \ {<<s.case, s.what>>}) \in SUBSET (Cases \X Columns)
    BY <1>1, <2>5, Fields
  <2> QED
    BY <1>1, <1>3, <2>4, <2>6 DEF Transaction
<1>8. /\ t.todo = Tail(tx[w].todo)
      /\ DOMAIN t.rows = Locked(w) \cup {s.case}
      /\ t.events = tx[w].events
      /\ t.seq = tx[w].seq
  BY <1>1 DEF Transaction
<1>9. tx' = [tx EXCEPT ![w] = t] /\ Unchanged
  BY DEF Update, r
<1> HIDE DEF t
<1>10. tx[w].seq = 0
  BY <1>1, <1>2 DEF Sound, NumberHolds
<1>11. Prepared(t)
  BY <1>1, <1>2, <1>8, PreparedTail DEF Locked, Sound
<1>12. Sound(t)
  BY <1>1, <1>8, <1>10, <1>11 DEF Sound, NumberHolds, Locked
<1>13. \A v \in Workers \ {w} : DOMAIN t.rows \cap Locked(v) = {}
  <2>1. \A v \in Workers \ {w} : s.case \notin Locked(v)
    BY DEF Update
  <2>2. \A v \in Workers \ {w} : Locked(w) \cap Locked(v) = {}
    BY DEF IInv, Exclusive
  <2> QED
    BY <1>8, <2>1, <2>2
<1>14. requests' \in 0..MaxRequests /\ UNCHANGED <<row, events, held, bypassed>>
  BY <1>9 DEF Unchanged, IInv, TypeOK
<1> QED
  BY <1>7, <1>9, <1>12, <1>13, <1>14, LocalStep

LEMMA ReadSeqStep ==
  ASSUME IInv, NEW w \in Workers, ReadSeq(w)
  PROVE  IInv'
<1> DEFINE c == Now(w).case
           t == [tx[w] EXCEPT !.seq = NextSeq(w, c)]
<1>1. tx[w] \in Transaction /\ Sound(tx[w])
  BY DEF IInv, TypeOK
<1>2. tx[w].todo # <<>> /\ Head(tx[w].todo).op = "event" /\ c = Head(tx[w].todo).case
  BY DEF ReadSeq, Doing, Now
<1>3. c \in Cases
  <2>1. Head(tx[w].todo) \in Statements
    BY <1>1, <1>2, Fields, HeadTailProperties
  <2> QED
    BY <1>2, <2>1 DEF Statements, Updates
<1>4. PICK m \in Nat : StreamOf(c, events \cup tx[w].events) = 1..m
  BY <1>1, <1>3 DEF Sound, Gapless
<1>5. NextSeq(w, c) = m + 1
  BY <1>4, NextSeqIs
<1>6. t \in Transaction
  BY <1>1, <1>5 DEF Transaction
<1>7. /\ t.todo = tx[w].todo /\ t.rows = tx[w].rows /\ t.events = tx[w].events
      /\ t.seq = m + 1
  BY <1>1, <1>5 DEF Transaction
<1>8. tx' = [tx EXCEPT ![w] = t] /\ Unchanged
  BY <1>1 DEF ReadSeq, IInv, TypeOK, Transaction
<1> HIDE DEF t
<1>9. NumberHolds(t)
  <2>1. (m + 1) - 1 = m
    OBVIOUS
  <2> QED
    BY <1>2, <1>4, <1>7, <2>1 DEF NumberHolds
<1>10. Sound(t)
  BY <1>1, <1>7, <1>9 DEF Sound, Prepared
<1>11. \A v \in Workers \ {w} : DOMAIN t.rows \cap Locked(v) = {}
  BY <1>7 DEF IInv, Exclusive, Locked
<1>12. requests' \in 0..MaxRequests /\ UNCHANGED <<row, events, held, bypassed>>
  BY <1>8 DEF Unchanged, IInv, TypeOK
<1> QED
  BY <1>6, <1>8, <1>10, <1>11, <1>12, LocalStep

(* Whoever appends to a case has locked it, so its number is not taken.    *)
LEMMA NumberIsFree ==
  ASSUME IInv, NEW w \in Workers, Doing(w, "event"), tx[w].seq # 0
  PROVE  /\ Now(w).case \in Locked(w)
         /\ ~Taken(Now(w).case, tx[w].seq, events \cup tx[w].events)
         /\ \A v \in Workers \ {w} : ~Taken(Now(w).case, tx[w].seq, tx[v].events)
<1> DEFINE c == Now(w).case
           n == tx[w].seq
<1>1. tx[w] \in Transaction /\ Sound(tx[w])
  BY DEF IInv, TypeOK
<1>2. n \in Nat /\ tx[w].todo # <<>> /\ Now(w) = Head(tx[w].todo) /\ Now(w).op = "event"
  BY <1>1, Fields DEF Doing, Now
<1>3. c \in Locked(w)
  <2>1. Head(tx[w].todo) = tx[w].todo[1] /\ 1 \in 1..Len(tx[w].todo)
    BY <1>1, <1>2, Fields, LenProperties, EmptySeq
  <2> QED
    BY <1>1, <1>2, <2>1, EventsLocked DEF Locked, Sound
<1>4. StreamOf(c, events \cup tx[w].events) = 1..(n - 1)
  BY <1>1, <1>2 DEF Sound, NumberHolds
<1>5. ~Taken(c, n, events \cup tx[w].events)
  <2> SUFFICES ASSUME NEW e \in events \cup tx[w].events, e.case = c, e.seq = n
               PROVE  FALSE
    BY DEF Taken
  <2>1. n \in StreamOf(c, events \cup tx[w].events)
    BY DEF StreamOf
  <2>2. n \in 1..(n - 1)
    BY <1>4, <2>1
  <2> QED
    BY <1>2, <2>2
<1>6. ASSUME NEW v \in Workers \ {w} PROVE ~Taken(c, n, tx[v].events)
  <2>1. \A e \in tx[v].events : e.case \in Locked(v)
    BY DEF IInv, Sound, Locked
  <2>2. c \notin Locked(v)
    BY <1>3 DEF IInv, Exclusive
  <2> QED
    BY <2>1, <2>2 DEF Taken
<1> QED
  BY <1>3, <1>5, <1>6

LEMMA AppendEventStep ==
  ASSUME IInv, NEW w \in Workers, AppendEvent(w)
  PROVE  IInv'
<1> DEFINE s == Now(w)
           n == tx[w].seq
           e == [case |-> s.case, seq |-> n, type |-> s.what, to |-> s.to]
           t == [[tx[w] EXCEPT !.todo = Tail(tx[w].todo), !.seq = 0]
                   EXCEPT !.events = tx[w].events \cup {e}]
           old == events \cup tx[w].events
           new == events \cup t.events
<1>1. tx[w] \in Transaction /\ Sound(tx[w])
  BY DEF IInv, TypeOK
<1>2. /\ n \in Nat \ {0} /\ tx[w].todo # <<>> /\ s = Head(tx[w].todo) /\ s.op = "event"
      /\ Doing(w, "event") /\ n # 0
  BY <1>1, Fields DEF AppendEvent, Doing, Now
<1>3. s \in Statements /\ Tail(tx[w].todo) \in Seq(Statements)
  BY <1>1, <1>2, Fields, HeadTailProperties
<1>4. s.case \in Cases /\ s.what \in EventTypes /\ s.to \in Values
  BY <1>2, <1>3 DEF Statements, Updates
<1>5. e \in Event
  BY <1>2, <1>4 DEF Event
<1>6. s.case \in Locked(w) /\ ~Taken(s.case, n, old)
  BY <1>2, NumberIsFree
<1>7. tx' = [tx EXCEPT ![w] = t] /\ Unchanged
  <2>1. ~Taken(s.case, n, events)
    BY <1>6 DEF Taken
  <2> QED
    BY <2>1 DEF AppendEvent
<1>8. e.case = s.case /\ e.seq = n
  OBVIOUS
<1> HIDE DEF e
<1>9. t \in Transaction
  BY <1>1, <1>3, <1>5 DEF Transaction
<1>10. /\ t.todo = Tail(tx[w].todo) /\ t.rows = tx[w].rows /\ t.seq = 0
       /\ t.events = tx[w].events \cup {e}
  BY <1>1 DEF Transaction
<1> HIDE DEF t
<1>11. new = old \cup {e}
  BY <1>10
<1> HIDE DEF old, new
<1>12. Prepared(t)
  BY <1>1, <1>2, <1>10, PreparedTail DEF Sound
<1>13. ASSUME NEW c \in Cases PROVE Gapless(c, new)
  <2>1. CASE c = s.case
    <3>1. StreamOf(c, old) = 1..(n - 1)
      BY <1>1, <1>2, <2>1 DEF Sound, NumberHolds, old
    <3>2. StreamOf(c, new) = StreamOf(c, old) \cup {n}
      BY <1>8, <1>11, <2>1 DEF StreamOf
    <3>3. 1..(n - 1) \cup {n} = 1..n
      BY <1>2
    <3> QED
      BY <1>2, <3>1, <3>2, <3>3 DEF Gapless
  <2>2. CASE c # s.case
    <3>1. StreamOf(c, new) = StreamOf(c, old)
      BY <1>8, <1>11, <2>2 DEF StreamOf
    <3> QED
      BY <1>1, <3>1 DEF Sound, Gapless, old
  <2> QED
    BY <2>1, <2>2
<1>14. Numbered(new)
  <2>1. Numbered(old)
    BY <1>1 DEF Sound, old
  <2>2. \A d \in old : ~(d.case = e.case /\ d.seq = e.seq)
    BY <1>6, <1>8 DEF Taken
  <2> QED
    BY <1>11, <2>1, <2>2 DEF Numbered
<1>15. \A d \in t.events : d.case \in DOMAIN t.rows
  BY <1>1, <1>6, <1>8, <1>10 DEF Sound, Locked
<1>16. Sound(t)
  BY <1>10, <1>12, <1>13, <1>14, <1>15 DEF Sound, NumberHolds, new
<1>17. \A v \in Workers \ {w} : DOMAIN t.rows \cap Locked(v) = {}
  BY <1>10 DEF IInv, Exclusive, Locked
<1>18. requests' \in 0..MaxRequests /\ UNCHANGED <<row, events, held, bypassed>>
  BY <1>7 DEF Unchanged, IInv, TypeOK
<1> QED
  BY <1>7, <1>9, <1>16, <1>17, <1>18, LocalStep

LEMMA PropagateStep ==
  ASSUME IInv, NEW w \in Workers, Propagate(w)
  PROVE  IInv'
<1> DEFINE rest == Tail(tx[w].todo)
<1>1. tx[w] \in Transaction /\ Sound(tx[w])
  BY DEF IInv, TypeOK
<1>2. /\ tx[w].todo # <<>> /\ Now(w) = Head(tx[w].todo)
      /\ Head(tx[w].todo).op = "propagate"
  BY DEF Propagate, Doing, Now
<1>3. /\ Head(tx[w].todo) \in Statements /\ rest \in Seq(Statements)
      /\ Len(rest) = Len(tx[w].todo) - 1
      /\ \A i \in 1..Len(rest) : rest[i] = tx[w].todo[i + 1]
      /\ Len(tx[w].todo) \in Nat
  BY <1>1, <1>2, Fields, HeadTailProperties, LenProperties
<1>4. tx[w].seq = 0
  BY <1>1, <1>2 DEF Sound, NumberHolds
<1>5. \A i \in 1..Len(rest) : rest[i].op = "event" => rest[i].case \in Locked(w)
  <2> SUFFICES ASSUME NEW i \in 1..Len(rest), rest[i].op = "event"
               PROVE  rest[i].case \in Locked(w)
    OBVIOUS
  <2>1. i + 1 \in 1..Len(tx[w].todo) /\ rest[i] = tx[w].todo[i + 1]
    BY <1>3
  <2> QED
    BY <1>1, <1>2, <2>1, EventsLocked DEF Sound, Locked
<1>6. ASSUME NEW todo \in Seq(Statements), tx' = [tx EXCEPT ![w].todo = todo], Unchanged,
             \A i \in 1..Len(todo) : todo[i].op = "event" => todo[i].case \in Locked(w)
      PROVE  IInv'
  <2> DEFINE t == [tx[w] EXCEPT !.todo = todo]
  <2>1. tx' = [tx EXCEPT ![w] = t]
    BY <1>1, <1>6 DEF IInv, TypeOK, Transaction
  <2>2. t \in Transaction
    BY <1>1 DEF Transaction
  <2>3. /\ t.todo = todo /\ t.rows = tx[w].rows /\ t.events = tx[w].events
        /\ t.seq = tx[w].seq
    BY <1>1 DEF Transaction
  <2> HIDE DEF t
  <2>4. Prepared(t)
    BY <1>6, <2>3 DEF Prepared, Locked
  <2>5. Sound(t)
    BY <1>1, <1>4, <2>3, <2>4 DEF Sound, NumberHolds
  <2>6. \A v \in Workers \ {w} : DOMAIN t.rows \cap Locked(v) = {}
    BY <2>3 DEF IInv, Exclusive, Locked
  <2>7. requests' \in 0..MaxRequests /\ UNCHANGED <<row, events, held, bypassed>>
    BY <1>6 DEF Unchanged, IInv, TypeOK
  <2> QED
    BY <2>1, <2>2, <2>5, <2>6, <2>7, LocalStep
<1>7. CASE tx' = [tx EXCEPT ![w].todo = rest]
  <2>1. Unchanged
    BY DEF Propagate
  <2> HIDE DEF rest
  <2> QED
    BY <1>3, <1>5, <1>6, <1>7, <2>1
<1>8. ASSUME tx' # [tx EXCEPT ![w].todo = rest]
      PROVE  IInv'
  <2> DEFINE p == Parent[Now(w).case]
             s == Statement("put", p, "status", "open")
             todo == <<s>> \o rest
  <2>1. p # None /\ tx' = [tx EXCEPT ![w].todo = todo] /\ Unchanged
    BY <1>8 DEF Propagate
  <2>2. Now(w).case \in Cases
    BY <1>2, <1>3 DEF Statements, Updates
  <2>3. p \in Cases
    BY <2>1, <2>2
  <2>4. s \in Statements /\ s.op = "put"
    BY <2>3 DEF Statement, Statements, Updates, Statuses
  <2> HIDE DEF s, rest
  <2>5. <<s>> \in Seq(Statements) /\ Len(<<s>>) = 1 /\ <<s>>[1] = s
    BY <2>4
  <2>6. /\ todo \in Seq(Statements)
        /\ Len(todo) = 1 + Len(rest)
        /\ \A i \in 1..(1 + Len(rest)) : todo[i] = IF i <= 1 THEN <<s>>[i] ELSE rest[i - 1]
    BY <1>3, <2>5, ConcatProperties
  <2> HIDE DEF todo
  <2>7. ASSUME NEW i \in 1..Len(todo), todo[i].op = "event"
        PROVE  todo[i].case \in Locked(w)
    <3>0. Len(rest) \in Nat
      BY <1>3, LenProperties
    <3>1. i # 1
      BY <2>4, <2>5, <2>6, <2>7, <3>0
    <3>2. i - 1 \in 1..Len(rest) /\ todo[i] = rest[i - 1]
      BY <2>6, <3>0, <3>1
    <3> QED
      BY <1>5, <2>7, <3>2
  <2> QED
    BY <1>6, <2>1, <2>6, <2>7
<1> QED
  BY <1>7, <1>8

LEMMA PlaceHoldStep ==
  ASSUME IInv, NEW w \in Workers, PlaceHold(w)
  PROVE  IInv'
<1> DEFINE c == Now(w).case
           t == [tx[w] EXCEPT !.todo = Tail(tx[w].todo), !.held = {c}]
<1>1. CASE tx' = [tx EXCEPT ![w] = Idle]
  BY <1>1, IdleStep DEF PlaceHold, Unchanged
<1>2. ASSUME tx' # [tx EXCEPT ![w] = Idle]
      PROVE  IInv'
  <2>1. tx[w] \in Transaction /\ Sound(tx[w])
    BY DEF IInv, TypeOK
  <2>2. /\ tx[w].todo # <<>> /\ Now(w) = Head(tx[w].todo)
        /\ Head(tx[w].todo).op = "hold"
    BY DEF PlaceHold, Doing, Now
  <2>3. Head(tx[w].todo) \in Statements /\ Tail(tx[w].todo) \in Seq(Statements)
    BY <2>1, <2>2, Fields, HeadTailProperties
  <2>4. c \in Cases
    BY <2>2, <2>3 DEF Statements, Updates
  <2>5. tx' = [tx EXCEPT ![w] = t] /\ Unchanged
    BY <1>2 DEF PlaceHold
  <2>6. t \in Transaction
    BY <2>1, <2>3, <2>4 DEF Transaction
  <2>7. /\ t.todo = Tail(tx[w].todo) /\ t.rows = tx[w].rows /\ t.events = tx[w].events
        /\ t.seq = tx[w].seq
    BY <2>1 DEF Transaction
  <2> HIDE DEF t
  <2>8. tx[w].seq = 0
    BY <2>1, <2>2 DEF Sound, NumberHolds
  <2>9. Prepared(t)
    BY <2>1, <2>2, <2>7, PreparedTail DEF Sound
  <2>10. Sound(t)
    BY <2>1, <2>7, <2>8, <2>9 DEF Sound, NumberHolds
  <2>11. \A v \in Workers \ {w} : DOMAIN t.rows \cap Locked(v) = {}
    BY <2>7 DEF IInv, Exclusive, Locked
  <2>12. requests' \in 0..MaxRequests /\ UNCHANGED <<row, events, held, bypassed>>
    BY <2>5 DEF Unchanged, IInv, TypeOK
  <2> QED
    BY <2>5, <2>6, <2>10, <2>11, <2>12, LocalStep
<1> QED
  BY <1>1, <1>2

(* A commit adds the events of one transaction, all on rows it has locked: *)
(* what the others have locked keeps its numbers.                          *)
LEMMA CommitStep ==
  ASSUME IInv, NEW w \in Workers, Commit(w)
  PROVE  IInv'
<1>1. tx[w] \in Transaction /\ Sound(tx[w])
  BY DEF IInv, TypeOK
<1>2. tx \in [Workers -> Transaction] /\ tx'[w] = Idle /\ \A v \in Workers \ {w} : tx'[v] = tx[v]
  BY DEF Commit, IInv, TypeOK
<1>3. events' = events \cup tx[w].events
  BY DEF Commit
<1>4. Idle \in Transaction /\ DOMAIN Idle.rows = {} /\ Idle.events = {}
        /\ Idle.todo = <<>> /\ Idle.seq = 0
  BY IdleWellFormed
<1>5. TypeOK'
  <2>1. \A c \in Cases : Visible(w, c) \in Row
    BY <1>1, Fields DEF Visible, Locked, IInv, TypeOK
  <2>2. row' \in [Cases -> Row]
    BY <2>1 DEF Commit
  <2>3. events' \subseteq Event
    BY <1>1, <1>3, Fields DEF IInv, TypeOK
  <2>4. held' \subseteq Cases /\ bypassed' \subseteq Cases \X Columns
    BY <1>1, Fields DEF Commit, IInv, TypeOK
  <2>5. tx' \in [Workers -> Transaction]
    BY <1>2, <1>4 DEF Commit
  <2>6. requests' \in 0..MaxRequests
    BY DEF Commit, IInv, TypeOK
  <2> QED
    BY <2>2, <2>3, <2>4, <2>5, <2>6 DEF TypeOK
<1>6. Exclusive'
  BY <1>2, <1>4 DEF IInv, Exclusive, Locked
<1>7. ASSUME NEW c \in Cases PROVE Gapless(c, events')
  BY <1>1, <1>3 DEF Sound
<1>8. Numbered(events')
  BY <1>1, <1>3 DEF Sound
<1>9. ASSUME NEW v \in Workers PROVE Sound(tx[v])'
  <2>1. CASE v = w
    <3>1. events' \cup tx'[v].events = events'
      BY <1>2, <1>4, <2>1
    <3>2. Prepared(tx'[v])
      BY <1>2, <1>4, <2>1 DEF Prepared
    <3>3. tx'[v].seq = 0 /\ tx'[v].events = {}
      BY <1>2, <1>4, <2>1
    <3> QED
      BY <1>7, <1>8, <3>1, <3>2, <3>3 DEF Sound, NumberHolds, Prepared, Gapless, Numbered, StreamOf
  <2>2. CASE v # w
    <3> DEFINE t   == tx[v]
               old == events \cup t.events
               new == events' \cup t.events
    <3>1. tx'[v] = t /\ Sound(t) /\ t \in Transaction
      BY <1>2, <2>2 DEF IInv
    <3>2. \A e \in tx[w].events : e.case \in Locked(w)
      BY <1>1 DEF Sound, Locked
    <3>3. \A e \in t.events : e.case \in Locked(v)
      BY <3>1 DEF Sound, Locked
    <3>4. Locked(v) \cap Locked(w) = {}
      BY <2>2 DEF IInv, Exclusive
    <3> HIDE DEF t
    <3>5. new = old \cup tx[w].events /\ new = (events \cup tx[w].events) \cup t.events
      BY <1>3
    <3> HIDE DEF old, new
    <3>6. ASSUME NEW c \in Locked(v) PROVE StreamOf(c, new) = StreamOf(c, old)
      BY <3>2, <3>4, <3>5 DEF StreamOf
    <3>7. ASSUME NEW c \in Cases, c \notin Locked(v)
          PROVE  StreamOf(c, new) = StreamOf(c, events \cup tx[w].events)
      BY <3>3, <3>5, <3>7 DEF StreamOf
    <3>8. ASSUME NEW c \in Cases PROVE Gapless(c, new)
      <4>1. CASE c \in Locked(v)
        BY <3>1, <3>6, <4>1 DEF Sound, Gapless, old
      <4>2. CASE c \notin Locked(v)
        BY <1>1, <3>7, <4>2 DEF Sound, Gapless
      <4> QED
        BY <4>1, <4>2
    <3>9. Numbered(new)
      <4> SUFFICES ASSUME NEW d \in new, NEW e \in new, d.case = e.case, d.seq = e.seq
                   PROVE  d = e
        BY DEF Numbered
      <4>1. Numbered(old) /\ Numbered(events \cup tx[w].events)
        BY <1>1, <3>1 DEF Sound, old
      <4>2. CASE d.case \in Locked(v)
        <5>1. d \in old /\ e \in old
          BY <3>2, <3>4, <3>5, <4>2
        <5> QED
          BY <4>1, <5>1 DEF Numbered
      <4>3. CASE d.case \notin Locked(v)
        <5>1. d \in events \cup tx[w].events /\ e \in events \cup tx[w].events
          BY <3>3, <3>5, <4>3 DEF t
        <5> QED
          BY <4>1, <5>1 DEF Numbered
      <4> QED
        BY <4>2, <4>3
    <3>10. t.seq # 0 =>
             /\ t.todo # <<>>
             /\ Head(t.todo).op = "event"
             /\ StreamOf(Head(t.todo).case, new) = 1..(t.seq - 1)
      <4> SUFFICES ASSUME t.seq # 0
                   PROVE  /\ t.todo # <<>>
                          /\ Head(t.todo).op = "event"
                          /\ StreamOf(Head(t.todo).case, new) = 1..(t.seq - 1)
        OBVIOUS
      <4>1. /\ t.todo # <<>>
            /\ Head(t.todo).op = "event"
            /\ StreamOf(Head(t.todo).case, old) = 1..(t.seq - 1)
        BY <3>1 DEF Sound, NumberHolds, old
      <4>2. Head(t.todo) = t.todo[1] /\ 1 \in 1..Len(t.todo)
        BY <3>1, <4>1, Fields, LenProperties, EmptySeq
      <4>3. Head(t.todo).case \in Locked(v)
        BY <3>1, <4>1, <4>2, EventsLocked DEF Sound, Locked, t
      <4> QED
        BY <3>6, <4>1, <4>3
    <3>11. (\A e \in t.events : e.case \in DOMAIN t.rows) /\ Prepared(t)
      BY <3>1 DEF Sound
    <3>12. events' \cup tx'[v].events = new
      BY <3>1 DEF new
    <3> QED
      BY <3>1, <3>8, <3>9, <3>10, <3>11, <3>12
         DEF Sound, NumberHolds, Prepared, Gapless, Numbered, StreamOf
  <2> QED
    BY <2>1, <2>2
<1> QED
  BY <1>5, <1>6, <1>7, <1>8, <1>9 DEF IInv, Gapless, Numbered, StreamOf
-----------------------------------------------------------------------------
LEMMA InvariantStep == IInv /\ [Next]_vars => IInv'
<1> SUFFICES ASSUME IInv, [Next]_vars PROVE IInv'
  OBVIOUS
<1>1. ASSUME NEW w \in Workers, Begin(w) PROVE IInv'
  BY <1>1, BeginStep
<1>2. ASSUME NEW w \in Workers, Step(w) PROVE IInv'
  BY <1>2, UpdateStep, ReadSeqStep, AppendEventStep, PropagateStep, PlaceHoldStep, CommitStep
     DEF Step
<1>3. ASSUME NEW w \in Workers, Abort(w) PROVE IInv'
  BY <1>3, IdleStep DEF Abort, Unchanged
<1>4. CASE UNCHANGED vars
  <2>1. TypeOK' /\ Exclusive'
    BY <1>4 DEF vars, IInv, TypeOK, Exclusive, Locked
  <2>2. \A c \in Cases : Gapless(c, events')
    BY <1>4 DEF vars, IInv
  <2>3. Numbered(events')
    BY <1>4 DEF vars, IInv
  <2>4. ASSUME NEW w \in Workers PROVE Sound(tx[w])'
    <3>1. tx' = tx /\ events' = events /\ Sound(tx[w])
      BY <1>4 DEF vars, IInv
    <3> QED
      BY <3>1 DEF Sound, NumberHolds, Prepared, Gapless, Numbered, StreamOf
  <2> QED
    BY <2>1, <2>2, <2>3, <2>4 DEF IInv, Gapless, Numbered, StreamOf
<1> QED
  BY <1>1, <1>2, <1>3, <1>4 DEF Next, Quiet
-----------------------------------------------------------------------------
(* Rows and streams.  The second invariant: what has been committed of a   *)
(* row is what its stream tells or was put there around it, and a request  *)
(* in the middle of its statements owes at most the event that comes next. *)

Told == {"status", "stage"}

(* The events of a case about a column, and what the last of them says.    *)
About(evs, c, column) ==
  {e \in evs : /\ e.case = c
               /\ e.type \in IF column = "status" THEN {"created", "status"} ELSE {"stage"}}
Tells(evs, c, column, value) ==
  LET evidence == About(evs, c, column) IN
    \/ evidence = {} /\ value = IF column = "status" THEN "open" ELSE "none"
    \/ \E e \in evidence : e.to = value /\ \A d \in evidence : d.seq <= e.seq

(* A list that does not begin with the event of a column.                  *)
Plain(todo) ==
  1 \in 1..Len(todo) => ~(todo[1].op = "event" /\ todo[1].what \in Told)

(* A write at a chokepoint is followed by its event, and by nothing else.  *)
Announces(e, s) == e.op = "event" /\ e.case = s.case /\ e.what = s.what /\ e.to = s.to
Paired(todo) ==
  \A i \in 1..Len(todo) :
    /\ todo[i].op = "set" => i < Len(todo) /\ Announces(todo[i + 1], todo[i])
    /\ todo[i].op = "event" => todo[i].what # "created"
    /\ todo[i].op = "event" /\ todo[i].what \in Told /\ i > 1 => todo[i - 1].op = "set"

(* The event that is due says what has been written.                       *)
Due(t, c, column) ==
  /\ t.todo # <<>>
  /\ Head(t.todo).op = "event" /\ Head(t.todo).case = c /\ Head(t.todo).what = column
DueIsTrue(t) ==
  \A c \in Cases, column \in Told :
    Due(t, c, column) => c \in DOMAIN t.rows /\ t.rows[c][column] = Head(t.todo).to

(* The rows a transaction has written agree with the stream it can see.    *)
Faithful(t) ==
  \A c \in DOMAIN t.rows, column \in Told :
    \/ Tells(events \cup t.events, c, column, t.rows[c][column])
    \/ <<c, column>> \in bypassed \cup t.around
    \/ Due(t, c, column)

InOrder(t) == Paired(t.todo) /\ DueIsTrue(t) /\ Faithful(t)

Committed ==
  \A c \in Cases, column \in Told :
    Tells(events, c, column, row[c][column]) \/ <<c, column>> \in bypassed

Agreement == Committed /\ \A w \in Workers : InOrder(tx[w])

(* Two lists one after the other.                                          *)
LEMMA PairedConcat ==
  ASSUME NEW a \in Seq(Statements), NEW b \in Seq(Statements),
         Paired(a), Paired(b), Plain(a), Plain(b)
  PROVE  Paired(a \o b) /\ Plain(a \o b)
<1> DEFINE ab == a \o b
<1>1. Len(a) \in Nat /\ Len(b) \in Nat
  BY LenProperties
<1>2. /\ Len(ab) = Len(a) + Len(b)
      /\ \A i \in 1..(Len(a) + Len(b)) : ab[i] = IF i <= Len(a) THEN a[i] ELSE b[i - Len(a)]
  BY ConcatProperties
<1> HIDE DEF ab
<1>3. Paired(ab)
  <2> SUFFICES ASSUME NEW i \in 1..Len(ab)
               PROVE  /\ ab[i].op = "set" => i < Len(ab) /\ Announces(ab[i + 1], ab[i])
                      /\ ab[i].op = "event" => ab[i].what # "created"
                      /\ ab[i].op = "event" /\ ab[i].what \in Told /\ i > 1 =>
                           ab[i - 1].op = "set"
    BY DEF Paired
  <2>1. CASE i <= Len(a)
    <3>1. i \in 1..Len(a) /\ ab[i] = a[i]
      BY <1>1, <1>2, <2>1
    <3>2. ASSUME a[i].op = "set" PROVE i < Len(ab) /\ Announces(ab[i + 1], ab[i])
      <4>1. i < Len(a) /\ Announces(a[i + 1], a[i])
        BY <3>1, <3>2 DEF Paired
      <4>2. ab[i + 1] = a[i + 1]
        BY <1>1, <1>2, <4>1
      <4> QED
        BY <1>1, <1>2, <3>1, <4>1, <4>2
    <3>3. i > 1 => ab[i - 1] = a[i - 1]
      BY <1>1, <1>2, <2>1
    <3> QED
      BY <3>1, <3>2, <3>3 DEF Paired
  <2>2. CASE i > Len(a)
    <3> DEFINE j == i - Len(a)
    <3>1. j \in 1..Len(b) /\ ab[i] = b[j]
      BY <1>1, <1>2, <2>2
    <3>2. ASSUME b[j].op = "set" PROVE i < Len(ab) /\ Announces(ab[i + 1], ab[i])
      <4>1. j < Len(b) /\ Announces(b[j + 1], b[j])
        BY <3>1, <3>2 DEF Paired
      <4>2. i + 1 \in 1..(Len(a) + Len(b)) /\ ~(i + 1 <= Len(a)) /\ (i + 1) - Len(a) = j + 1
        BY <1>1, <1>2, <2>2, <4>1
      <4>3. ab[i + 1] = b[j + 1]
        BY <1>2, <4>2
      <4> QED
        BY <1>2, <3>1, <4>1, <4>2, <4>3, <1>1
    <3>3. ASSUME b[j].op = "event", b[j].what \in Told PROVE ab[i - 1].op = "set"
      <4>1. j # 1
        BY <3>1, <3>3 DEF Plain
      <4>2. b[j - 1].op = "set"
        BY <3>1, <3>3, <4>1 DEF Paired
      <4>3. i - 1 \in 1..(Len(a) + Len(b)) /\ ~(i - 1 <= Len(a)) /\ (i - 1) - Len(a) = j - 1
        BY <1>1, <1>2, <2>2, <3>1, <4>1
      <4>4. ab[i - 1] = b[j - 1]
        BY <1>2, <4>3
      <4> QED
        BY <4>2, <4>4
    <3> QED
      BY <3>1, <3>2, <3>3 DEF Paired
  <2> QED
    BY <1>1, <2>1, <2>2
<1>4. Plain(ab)
  <2> SUFFICES ASSUME 1 \in 1..Len(ab), ab[1].op = "event", ab[1].what \in Told PROVE FALSE
    BY DEF Plain
  <2>1. CASE 1 <= Len(a)
    BY <1>1, <1>2, <2>1 DEF Plain
  <2>2. CASE Len(a) = 0
    BY <1>1, <1>2, <2>2 DEF Plain
  <2> QED
    BY <1>1, <2>1, <2>2
<1> QED
  BY <1>3, <1>4 DEF ab

(* A single statement that neither owes an event nor is one of a column.   *)
LEMMA PairedAlone ==
  ASSUME NEW s, s.op # "set", s.op = "event" => s.what = "assigned"
  PROVE  Paired(<<s>>) /\ Plain(<<s>>)
<1>1. Len(<<s>>) = 1 /\ <<s>>[1] = s
  OBVIOUS
<1> QED
  BY <1>1 DEF Paired, Plain, Told

(* The two halves of a chokepoint.                                         *)
LEMMA PairedWrite ==
  ASSUME NEW s, NEW e, s.op = "set", Announces(e, s), e.what # "created"
  PROVE  Paired(<<s, e>>) /\ Plain(<<s, e>>)
<1>1. Len(<<s, e>>) = 2 /\ <<s, e>>[1] = s /\ <<s, e>>[2] = e
  OBVIOUS
<1>2. s.op # "event" /\ e.op # "set"
  BY DEF Announces
<1> HIDE DEF Announces
<1>3. ASSUME NEW i \in 1..2
      PROVE  /\ <<s, e>>[i].op = "set" => i < 2 /\ Announces(<<s, e>>[i + 1], <<s, e>>[i])
             /\ <<s, e>>[i].op = "event" => <<s, e>>[i].what # "created"
             /\ <<s, e>>[i].op = "event" /\ <<s, e>>[i].what \in Told /\ i > 1 =>
                  <<s, e>>[i - 1].op = "set"
  <2>1. CASE i = 1
    BY <1>1, <1>2, <2>1
  <2>2. CASE i = 2
    BY <1>1, <1>2, <2>2
  <2> QED
    BY <2>1, <2>2
<1> QED
  BY <1>1, <1>2, <1>3 DEF Paired, Plain

LEMMA ChangeStatusPaired ==
  ASSUME NEW c \in Cases, NEW to \in Statuses
  PROVE  Paired(ChangeStatus(c, to)) /\ Plain(ChangeStatus(c, to))
<1> DEFINE s1 == Statement("set", c, "status", to)
           s2 == Statement("event", c, "status", to)
           s3 == Statement("propagate", c, "status", to)
<1>1. s1.op = "set" /\ s2.op = "event" /\ s2.what # "created" /\ Announces(s2, s1)
        /\ s3.op # "set" /\ s3.op # "event"
  BY DEF Statement, Announces
<1> HIDE DEF s1, s2, s3
<1>2. /\ Len(<<s1, s2, s3>>) = 3 /\ <<s1, s2, s3>>[1] = s1
      /\ <<s1, s2, s3>>[2] = s2 /\ <<s1, s2, s3>>[3] = s3
  OBVIOUS
<1> DEFINE all == <<s1, s2, s3>>
<1>3. Len(all) = 3 /\ all[1] = s1 /\ all[2] = s2 /\ all[3] = s3
  BY <1>2
<1> HIDE DEF all, Announces
<1>4. ASSUME NEW i \in 1..3
      PROVE  /\ all[i].op = "set" => i < 3 /\ Announces(all[i + 1], all[i])
             /\ all[i].op = "event" => all[i].what # "created"
             /\ all[i].op = "event" /\ all[i].what \in Told /\ i > 1 => all[i - 1].op = "set"
  <2>1. CASE i = 1
    BY <1>1, <1>3, <2>1
  <2>2. CASE i = 2
    BY <1>1, <1>3, <2>2
  <2>3. CASE i = 3
    BY <1>1, <1>3, <2>3
  <2> QED
    BY <2>1, <2>2, <2>3
<1>5. Paired(all) /\ Plain(all)
  BY <1>1, <1>3, <1>4 DEF Paired, Plain
<1> QED
  BY <1>5 DEF all, s1, s2, s3, ChangeStatus

LEMMA EntryPaired ==
  ASSUME NEW c \in Cases, NEW entry \in OnEnter(c)
  PROVE  entry \in Seq(Statements) /\ Paired(entry) /\ Plain(entry)
<1>1. CASE entry = <<>>
  BY <1>1, EntryStatements DEF Paired, Plain
<1>2. CASE \E to \in Statuses : entry = ChangeStatus(c, to)
  BY <1>2, EntryStatements, ChangeStatusPaired
<1> QED
  BY <1>1, <1>2 DEF OnEnter

(* No request owes an event when it begins.                                *)
LEMMA RequestPaired ==
  ASSUME NEW kind \in AllKinds, NEW c \in Cases, NEW todo \in Requests(kind, c)
  PROVE  Paired(todo) /\ Plain(todo)
<1>1. CASE kind = "status"
  <2>1. Requests(kind, c) = {ChangeStatus(c, to) : to \in Statuses}
    BY <1>1 DEF Requests
  <2> QED
    BY <2>1, ChangeStatusPaired
<1>2. CASE kind = "enter"
  <2>1. Requests(kind, c) = UNION {EnterStage(c, s) : s \in Stages}
    BY <1>2 DEF Requests
  <2>2. PICK s \in Stages : todo \in EnterStage(c, s)
    BY <2>1
  <2> DEFINE s1 == Statement("set", c, "stage", s)
             s2 == Statement("event", c, "stage", s)
             s3 == Statement("event", c, "assigned", "none")
  <2>3. PICK entry \in OnEnter(c) : todo = <<s1, s2>> \o entry \o <<s3>>
    BY <2>2 DEF EnterStage
  <2>4. s1 \in Statements /\ s2 \in Statements /\ s3 \in Statements
    BY DEF Statement, Statements, Updates, EventTypes, Values
  <2>5. s1.op = "set" /\ Announces(s2, s1) /\ s2.what # "created"
          /\ s3.op # "set" /\ s3.what = "assigned"
    BY DEF Statement, Announces
  <2> HIDE DEF s1, s2, s3
  <2>6. <<s1, s2>> \in Seq(Statements) /\ Paired(<<s1, s2>>) /\ Plain(<<s1, s2>>)
    BY <2>4, <2>5, PairedWrite
  <2>7. <<s3>> \in Seq(Statements) /\ Paired(<<s3>>) /\ Plain(<<s3>>)
    BY <2>4, <2>5, PairedAlone
  <2> DEFINE front == <<s1, s2>> \o entry
  <2>8. front \in Seq(Statements) /\ Paired(front) /\ Plain(front)
    BY <2>6, EntryPaired, PairedConcat, ConcatProperties
  <2>9. todo = front \o <<s3>>
    BY <2>3
  <2> HIDE DEF front
  <2> QED
    BY <2>7, <2>8, <2>9, PairedConcat
<1>3. CASE kind = "move"
  <2>1. Requests(kind, c) = UNION {MoveStage(c, s) : s \in Stages}
    BY <1>3 DEF Requests
  <2>2. PICK s \in Stages : todo \in MoveStage(c, s)
    BY <2>1
  <2> DEFINE s1 == Statement("put", c, "stage", s)
  <2>3. PICK entry \in OnEnter(c) : todo = <<s1>> \o entry
    BY <2>2 DEF MoveStage
  <2>4. s1 \in Statements /\ s1.op = "put"
    BY DEF Statement, Statements, Updates
  <2> HIDE DEF s1
  <2>5. <<s1>> \in Seq(Statements) /\ Paired(<<s1>>) /\ Plain(<<s1>>)
    BY <2>4, PairedAlone
  <2> QED
    BY <2>3, <2>5, EntryPaired, PairedConcat
<1>4. ASSUME NEW s, s.op # "set", s.op # "event", todo = <<s>>
      PROVE  Paired(todo) /\ Plain(todo)
  BY <1>4, PairedAlone
<1>5. CASE kind = "escalate"
  <2>0. Requests(kind, c) = {<<Statement("put", c, "status", to)>> : to \in Statuses}
    BY <1>5 DEF Requests
  <2>1. PICK to \in Statuses : todo = <<Statement("put", c, "status", to)>>
    BY <2>0
  <2> QED
    BY <2>1, <1>4 DEF Statement
<1>6. CASE kind = "delete"
  BY <1>4, <1>6 DEF Requests, Statement
<1>7. CASE kind = "hold"
  BY <1>4, <1>7 DEF Requests, Statement
<1> QED
  BY <1>1, <1>2, <1>3, <1>5, <1>6, <1>7 DEF AllKinds

(* What is left when the first statement has been carried out: only a      *)
(* write leaves an event that is due.                                      *)
LEMMA PairedTail ==
  ASSUME NEW todo \in Seq(Statements), todo # <<>>, Paired(todo)
  PROVE  /\ Paired(Tail(todo))
         /\ Head(todo).op # "set" => Plain(Tail(todo))
         /\ Head(todo).op = "set" =>
              Tail(todo) # <<>> /\ Announces(Head(Tail(todo)), Head(todo))
<1> DEFINE rest == Tail(todo)
<1>1. /\ rest \in Seq(Statements) /\ Len(rest) = Len(todo) - 1
      /\ \A i \in 1..Len(rest) : rest[i] = todo[i + 1]
      /\ Len(todo) \in Nat /\ Len(todo) # 0 /\ Head(todo) = todo[1]
  BY HeadTailProperties, LenProperties, EmptySeq
<1> HIDE DEF rest
<1>2. Paired(rest)
  <2> SUFFICES ASSUME NEW i \in 1..Len(rest)
               PROVE  /\ rest[i].op = "set" => i < Len(rest) /\ Announces(rest[i + 1], rest[i])
                      /\ rest[i].op = "event" => rest[i].what # "created"
                      /\ rest[i].op = "event" /\ rest[i].what \in Told /\ i > 1 =>
                           rest[i - 1].op = "set"
    BY DEF Paired
  <2>1. i + 1 \in 1..Len(todo) /\ rest[i] = todo[i + 1]
    BY <1>1
  <2>2. i < Len(rest) => rest[i + 1] = todo[(i + 1) + 1]
    BY <1>1
  <2>3. i > 1 => rest[i - 1] = todo[(i + 1) - 1]
    BY <1>1
  <2>4. /\ todo[i + 1].op = "set" => i + 1 < Len(todo) /\ Announces(todo[(i + 1) + 1], todo[i + 1])
        /\ todo[i + 1].op = "event" => todo[i + 1].what # "created"
        /\ todo[i + 1].op = "event" /\ todo[i + 1].what \in Told /\ i + 1 > 1 =>
             todo[(i + 1) - 1].op = "set"
    BY <2>1 DEF Paired
  <2>5. i + 1 < Len(todo) => i < Len(rest)
    BY <1>1
  <2>6. i > 1 => i + 1 > 1
    OBVIOUS
  <2> HIDE DEF Announces
  <2> QED
    BY <2>1, <2>2, <2>3, <2>4, <2>5, <2>6
<1>3. ASSUME 1 \in 1..Len(rest), rest[1].op = "event", rest[1].what \in Told
      PROVE  todo[1].op = "set"
  <2>1. 2 \in 1..Len(todo) /\ rest[1] = todo[2] /\ 2 - 1 = 1
    BY <1>1, <1>3
  <2> QED
    BY <1>3, <2>1 DEF Paired
<1>4. ASSUME todo[1].op = "set" PROVE rest # <<>> /\ Announces(Head(rest), todo[1])
  <2>1. 1 < Len(todo) /\ Announces(todo[2], todo[1])
    BY <1>1, <1>4 DEF Paired
  <2>2. Len(rest) # 0 /\ rest[1] = todo[2]
    BY <1>1, <2>1
  <2>3. rest # <<>> /\ Head(rest) = rest[1]
    BY <1>1, <2>2, EmptySeq, HeadTailProperties
  <2> QED
    BY <2>1, <2>2, <2>3
<1> QED
  BY <1>1, <1>2, <1>3, <1>4 DEF Plain, rest

(* Nothing is due of a plain list.                                         *)
LEMMA PlainOwesNothing ==
  ASSUME NEW t \in Transaction, Plain(t.todo), NEW c, NEW column \in Told
  PROVE  ~Due(t, c, column)
<1> SUFFICES ASSUME t.todo # <<>>, Head(t.todo).op = "event", Head(t.todo).what = column
             PROVE  FALSE
  BY DEF Due
<1>1. Head(t.todo) = t.todo[1] /\ 1 \in 1..Len(t.todo)
  BY Fields, LenProperties, EmptySeq
<1> QED
  BY <1>1 DEF Plain

(* Values of the columns, told or not.                                     *)
LEMMA ColumnOf ==
  ASSUME NEW r \in Row, NEW what \in Columns, NEW to, NEW column \in Told
  PROVE  [r EXCEPT ![what] = to][column] = IF column = what THEN to ELSE r[column]
BY DEF Row, Columns, Told

(* The events of another case say nothing of this one.                     *)
LEMMA OthersSayNothing ==
  ASSUME NEW evs, NEW more, NEW c, \A e \in more : e.case # c, NEW column, NEW value
  PROVE  Tells(evs \cup more, c, column, value) <=> Tells(evs, c, column, value)
<1>1. About(evs \cup more, c, column) = About(evs, c, column)
  BY DEF About
<1> QED
  BY <1>1 DEF Tells

(* A step of one transaction that commits nothing.                         *)
LEMMA AgreementLocal ==
  ASSUME IInv, Agreement, NEW w \in Workers, NEW t,
         tx' = [tx EXCEPT ![w] = t], UNCHANGED <<row, events, bypassed>>, InOrder(t)
  PROVE  Agreement'
<1>1. tx \in [Workers -> Transaction] /\ tx'[w] = t /\ \A v \in Workers \ {w} : tx'[v] = tx[v]
  BY DEF IInv, TypeOK
<1>2. Committed'
  BY DEF Agreement, Committed, Tells, About
<1>3. ASSUME NEW v \in Workers PROVE InOrder(tx[v])'
  <2>1. InOrder(tx'[v])
    BY <1>1 DEF Agreement
  <2> QED
    BY <2>1 DEF InOrder, Paired, Announces, DueIsTrue, Faithful, Due, Tells, About
<1> QED
  BY <1>2, <1>3 DEF Agreement

(* A transaction that has written nothing is in order.                     *)
LEMMA CleanInOrder ==
  ASSUME NEW a \in BOOLEAN, NEW todo \in Seq(Statements), Paired(todo), Plain(todo)
  PROVE  InOrder(Clean(a, todo))
<1> DEFINE t == Clean(a, todo)
<1>1. /\ t = [active |-> a, todo |-> todo, rows |-> <<>>, events |-> {}, held |-> {},
              around |-> {}, seq |-> 0]
      /\ t.todo = todo /\ t.rows = <<>>
  BY DEF Clean
<1> HIDE DEF t
<1>2. t \in Transaction
  BY <1>1, NoRows DEF Transaction
<1>3. DueIsTrue(t)
  BY <1>1, <1>2, PlainOwesNothing DEF DueIsTrue
<1>4. Faithful(t)
  BY <1>1 DEF Faithful
<1> QED
  BY <1>1, <1>3, <1>4 DEF InOrder, t

LEMMA IdleInOrder == InOrder(Idle)
<1>1. <<>> \in Seq(Statements) /\ Paired(<<>>) /\ Plain(<<>>)
  BY DEF Paired, Plain
<1> QED
  BY <1>1, CleanInOrder DEF Idle

(* No write and no event: what is left to do stays in order.               *)
LEMMA SameRowsInOrder ==
  ASSUME NEW w \in Workers, tx[w] \in Transaction, InOrder(tx[w]), Plain(tx[w].todo),
         NEW t \in Transaction, t.rows = tx[w].rows, t.events = tx[w].events,
         t.around = tx[w].around, Paired(t.todo), Plain(t.todo)
  PROVE  InOrder(t)
<1>1. DueIsTrue(t)
  BY PlainOwesNothing DEF DueIsTrue
<1>2. Faithful(t)
  BY PlainOwesNothing DEF InOrder, Faithful
<1> QED
  BY <1>1, <1>2 DEF InOrder

LEMMA AgreementBegin ==
  ASSUME IInv, Agreement, NEW w \in Workers, Begin(w)
  PROVE  Agreement'
<1>1. PICK kind \in Kinds, c \in Cases :
        \E todo \in Requests(kind, c) : tx' = [tx EXCEPT ![w] = Clean(TRUE, todo)]
  BY DEF Begin
<1>2. PICK todo \in Requests(kind, c) : tx' = [tx EXCEPT ![w] = Clean(TRUE, todo)]
  BY <1>1
<1>3. todo \in Seq(Statements) /\ Paired(todo) /\ Plain(todo)
  BY RequestOpens, RequestPaired DEF Opens
<1>4. InOrder(Clean(TRUE, todo))
  BY <1>3, CleanInOrder
<1> QED
  BY <1>2, <1>4, AgreementLocal DEF Begin

(* The column is written around the stream, or its event is due.           *)
LEMMA AgreementUpdate ==
  ASSUME IInv, Agreement, NEW w \in Workers, Update(w)
  PROVE  Agreement'
<1> DEFINE s == Now(w)
           r == [Visible(w, s.case) EXCEPT ![s.what] = s.to]
           t == [tx[w] EXCEPT
                   !.todo = Tail(tx[w].todo),
                   !.rows = [c \in Locked(w) \cup {s.case} |-> IF c = s.case THEN r ELSE tx[w].rows[c]],
                   !.around = IF s.op = "put" THEN tx[w].around \cup {<<s.case, s.what>>}
                                              ELSE tx[w].around \ {<<s.case, s.what>>}]
<1>1. tx[w] \in Transaction /\ Sound(tx[w]) /\ InOrder(tx[w])
  BY DEF IInv, TypeOK, Agreement
<1>2. tx[w].todo # <<>> /\ s.op \in {"set", "put"} /\ s = Head(tx[w].todo)
  BY DEF Update, Doing, Now
<1>3. s \in Statements
  BY <1>1, <1>2, Fields, HeadTailProperties
<1>4. s.case \in Cases /\ s.what \in Columns
  BY <1>2, <1>3 DEF Statements, Updates, Columns
<1>5. Visible(w, s.case) \in Row
  BY <1>1, <1>4, Fields DEF Visible, Locked, IInv, TypeOK
<1>6. ASSUME NEW column \in Told
      PROVE  r[column] = IF column = s.what THEN s.to ELSE Visible(w, s.case)[column]
  <2> DEFINE q == Visible(w, s.case)
             what == s.what
             to == s.to
  <2>1. q \in Row /\ what \in Columns
    BY <1>4, <1>5
  <2>2. r = [q EXCEPT ![what] = to]
    OBVIOUS
  <2> HIDE DEF q, what, to, r
  <2>3. [q EXCEPT ![what] = to][column] = IF column = what THEN to ELSE q[column]
    BY <2>1, ColumnOf
  <2> QED
    BY <2>2, <2>3 DEF q, what, to
<1>7. tx' = [tx EXCEPT ![w] = t] /\ Unchanged
  BY DEF Update
<1> HIDE DEF r
<1>8. /\ t.todo = Tail(tx[w].todo)
      /\ DOMAIN t.rows = Locked(w) \cup {s.case}
      /\ \A c \in DOMAIN t.rows : t.rows[c] = IF c = s.case THEN r ELSE tx[w].rows[c]
      /\ t.events = tx[w].events
      /\ t.around = IF s.op = "put" THEN tx[w].around \cup {<<s.case, s.what>>}
                                    ELSE tx[w].around \ {<<s.case, s.what>>}
  BY <1>1 DEF Transaction
<1> HIDE DEF t
<1>9. /\ Paired(t.todo)
      /\ s.op = "put" => Plain(t.todo)
      /\ s.op = "set" => t.todo # <<>> /\ Announces(Head(t.todo), s)
  BY <1>1, <1>2, <1>8, PairedTail, Fields DEF InOrder
<1>10. \A c \in Cases, column \in Told : ~Due(tx[w], c, column)
  BY <1>2 DEF Due
<1>11. s.op = "put" => \A c \in Cases, column \in Told : ~Due(t, c, column)
  <2> SUFFICES ASSUME s.op = "put", NEW c \in Cases, NEW column \in Told, Due(t, c, column)
               PROVE  FALSE
    OBVIOUS
  <2>1. t.todo \in Seq(Statements) /\ t.todo # <<>> /\ Head(t.todo) = t.todo[1]
    BY <1>1, <1>2, <1>8, Fields, HeadTailProperties DEF Due
  <2>2. 1 \in 1..Len(t.todo)
    BY <2>1, LenProperties, EmptySeq
  <2> QED
    BY <1>9, <2>1, <2>2 DEF Plain, Due
<1>12. DueIsTrue(t)
  <2> SUFFICES ASSUME NEW c \in Cases, NEW column \in Told, Due(t, c, column)
               PROVE  c \in DOMAIN t.rows /\ t.rows[c][column] = Head(t.todo).to
    BY DEF DueIsTrue
  <2>1. s.op = "set"
    BY <1>2, <1>11
  <2>2. c = s.case /\ column = s.what /\ Head(t.todo).to = s.to
    BY <1>9, <2>1 DEF Due, Announces
  <2>3. c \in DOMAIN t.rows /\ t.rows[c] = r
    BY <1>8, <2>2
  <2> QED
    BY <1>6, <2>2, <2>3
<1>13. Faithful(t)
  <2> SUFFICES ASSUME NEW c \in DOMAIN t.rows, NEW column \in Told
               PROVE  \/ Tells(events \cup t.events, c, column, t.rows[c][column])
                      \/ <<c, column>> \in bypassed \cup t.around
                      \/ Due(t, c, column)
    BY DEF Faithful
  <2>1. CASE c = s.case /\ column = s.what
    <3>1. CASE s.op = "put"
      BY <1>8, <2>1, <3>1
    <3>2. CASE s.op = "set"
      BY <1>9, <2>1, <3>2 DEF Due, Announces
    <3> QED
      BY <1>2, <3>1, <3>2
  <2>2. CASE ~(c = s.case /\ column = s.what)
    <3>1. t.rows[c][column] = Visible(w, c)[column]
      <4>1. CASE c = s.case
        BY <1>6, <1>8, <2>2, <4>1
      <4>2. CASE c # s.case
        BY <1>8, <4>2 DEF Visible
      <4> QED
        BY <4>1, <4>2
    <3>2. <<c, column>> \in tx[w].around => <<c, column>> \in t.around
      BY <1>8, <2>2
    <3>3. c \in Cases
      BY <1>1, <1>4, <1>8, Fields DEF Locked
    <3>4. CASE c \in Locked(w)
      BY <1>1, <1>8, <1>10, <3>1, <3>2, <3>3, <3>4 DEF InOrder, Faithful, Visible, Locked
    <3>5. CASE c \notin Locked(w)
      <4>1. \A e \in tx[w].events : e.case # c
        BY <1>1, <3>5 DEF Sound, Locked
      <4>2. Tells(events, c, column, row[c][column]) \/ <<c, column>> \in bypassed
        BY <3>3 DEF Agreement, Committed
      <4>3. t.rows[c][column] = row[c][column]
        BY <3>1, <3>5 DEF Visible
      <4> QED
        BY <1>8, <4>1, <4>2, <4>3, OthersSayNothing
    <3> QED
      BY <3>4, <3>5
  <2> QED
    BY <2>1, <2>2
<1>14. InOrder(t)
  BY <1>9, <1>12, <1>13 DEF InOrder
<1> QED
  BY <1>7, <1>14, AgreementLocal DEF Unchanged

LEMMA AgreementReadSeq ==
  ASSUME IInv, Agreement, NEW w \in Workers, ReadSeq(w)
  PROVE  Agreement'
<1> DEFINE n == NextSeq(w, Now(w).case)
           t == [tx[w] EXCEPT !.seq = n]
<1>1. tx[w] \in Transaction /\ InOrder(tx[w])
  BY DEF IInv, TypeOK, Agreement
<1>2. tx' = [tx EXCEPT ![w] = t] /\ Unchanged
  BY <1>1 DEF ReadSeq, IInv, TypeOK, Transaction
<1> HIDE DEF n
<1>3. /\ t.todo = tx[w].todo /\ t.rows = tx[w].rows /\ t.events = tx[w].events
      /\ t.around = tx[w].around
  BY <1>1 DEF Transaction
<1> HIDE DEF t
<1>4. InOrder(t)
  <2>1. \A c, column : Due(t, c, column) <=> Due(tx[w], c, column)
    BY <1>3 DEF Due
  <2>2. DueIsTrue(t)
    BY <1>1, <1>3, <2>1 DEF InOrder, DueIsTrue
  <2>3. Faithful(t)
    BY <1>1, <1>3, <2>1 DEF InOrder, Faithful
  <2> QED
    BY <1>1, <1>3, <2>2, <2>3 DEF InOrder
<1> QED
  BY <1>2, <1>4, AgreementLocal DEF Unchanged

(* The event that is due has the next number of the stream and the value   *)
(* of the column, so it is what the stream tells from now on.              *)
LEMMA AgreementAppend ==
  ASSUME IInv, Agreement, NEW w \in Workers, AppendEvent(w)
  PROVE  Agreement'
<1> DEFINE s == Now(w)
           n == tx[w].seq
           e == [case |-> s.case, seq |-> n, type |-> s.what, to |-> s.to]
           t == [[tx[w] EXCEPT !.todo = Tail(tx[w].todo), !.seq = 0]
                   EXCEPT !.events = tx[w].events \cup {e}]
           old == events \cup tx[w].events
           new == events \cup t.events
<1>1. tx[w] \in Transaction /\ Sound(tx[w]) /\ InOrder(tx[w])
  BY DEF IInv, TypeOK, Agreement
<1>2. /\ n \in Nat \ {0} /\ tx[w].todo # <<>> /\ s = Head(tx[w].todo) /\ s.op = "event"
      /\ Doing(w, "event") /\ n # 0
  BY <1>1, Fields DEF AppendEvent, Doing, Now
<1>3. s.case \in Cases
  <2>1. s \in Statements
    BY <1>1, <1>2, Fields, HeadTailProperties
  <2> QED
    BY <1>2, <2>1 DEF Statements, Updates
<1>4. tx' = [tx EXCEPT ![w] = t] /\ Unchanged
  <2>1. ~Taken(s.case, n, events)
    BY <1>2, NumberIsFree DEF Taken
  <2> QED
    BY <2>1 DEF AppendEvent
<1>5. e.case = s.case /\ e.seq = n /\ e.type = s.what /\ e.to = s.to
  OBVIOUS
<1> HIDE DEF e
<1>6. /\ t.todo = Tail(tx[w].todo) /\ t.rows = tx[w].rows /\ t.around = tx[w].around
      /\ t.events = tx[w].events \cup {e}
  BY <1>1 DEF Transaction
<1>7. t \in Transaction
  <2>1. Tail(tx[w].todo) \in Seq(Statements)
    BY <1>1, <1>2, Fields, HeadTailProperties
  <2>2. e \in Event
    <3>1. s \in Statements
      BY <1>1, <1>2, Fields, HeadTailProperties
    <3>2. s.what \in EventTypes /\ s.to \in Values
      BY <1>2, <3>1 DEF Statements, Updates
    <3> QED
      BY <1>2, <1>3, <3>2 DEF Event, e
  <2> QED
    BY <1>1, <2>1, <2>2 DEF Transaction
<1> HIDE DEF t
<1>8. new = old \cup {e}
  BY <1>6
<1> HIDE DEF old, new
<1>9. Paired(t.todo) /\ Plain(t.todo)
  BY <1>1, <1>2, <1>6, PairedTail, Fields DEF InOrder
<1>10. s.what # "created"
  <2>1. Head(tx[w].todo) = tx[w].todo[1] /\ 1 \in 1..Len(tx[w].todo)
    BY <1>1, <1>2, Fields, LenProperties, EmptySeq
  <2> QED
    BY <1>1, <1>2, <2>1 DEF InOrder, Paired
<1>11. \A d \in old : d.case = s.case => d.seq <= n
  <2>1. StreamOf(s.case, old) = 1..(n - 1)
    BY <1>1, <1>2 DEF Sound, NumberHolds, old
  <2>2. \A d \in old : d.case = s.case => d.seq \in 1..(n - 1)
    BY <2>1 DEF StreamOf
  <2> QED
    BY <1>2, <2>2
<1>12. Faithful(t)
  <2> SUFFICES ASSUME NEW c \in DOMAIN t.rows, NEW column \in Told
               PROVE  \/ Tells(new, c, column, t.rows[c][column])
                      \/ <<c, column>> \in bypassed \cup t.around
    BY DEF Faithful, new
  <2>1. CASE c = s.case /\ column = s.what
    <3>1. Due(tx[w], c, column)
      BY <1>2, <2>1 DEF Due
    <3>2. t.rows[c][column] = e.to
      BY <1>1, <1>2, <1>3, <1>5, <1>6, <2>1, <3>1 DEF InOrder, DueIsTrue
    <3>3. e \in About(new, c, column)
      BY <1>5, <1>8, <2>1 DEF About, Told
    <3>4. \A d \in About(new, c, column) : d.seq <= e.seq
      BY <1>2, <1>5, <1>8, <1>11, <2>1 DEF About
    <3> QED
      BY <3>2, <3>3, <3>4 DEF Tells
  <2>2. CASE ~(c = s.case /\ column = s.what)
    <3>1. ~Due(tx[w], c, column)
      BY <1>2, <2>2 DEF Due
    <3>2. e \notin About(new, c, column)
      BY <1>5, <1>10, <2>2 DEF About, Told
    <3>3. About(new, c, column) = About(old, c, column)
      BY <1>8, <3>2 DEF About
    <3>4. \/ Tells(old, c, column, t.rows[c][column])
          \/ <<c, column>> \in bypassed \cup t.around
      BY <1>1, <1>6, <3>1 DEF InOrder, Faithful, old
    <3> QED
      BY <3>3, <3>4 DEF Tells
  <2> QED
    BY <2>1, <2>2
<1>13. DueIsTrue(t)
  BY <1>7, <1>9, PlainOwesNothing DEF DueIsTrue
<1>14. InOrder(t)
  BY <1>9, <1>12, <1>13 DEF InOrder
<1> QED
  BY <1>4, <1>14, AgreementLocal DEF Unchanged

(* A list whose first statement is no event is plain.                      *)
LEMMA DoingIsPlain ==
  ASSUME NEW w \in Workers, tx[w] \in Transaction, tx[w].todo # <<>>,
         Head(tx[w].todo).op # "event"
  PROVE  Plain(tx[w].todo)
<1>1. Head(tx[w].todo) = tx[w].todo[1]
  BY Fields
<1> QED
  BY <1>1 DEF Plain

LEMMA AgreementPropagate ==
  ASSUME IInv, Agreement, NEW w \in Workers, Propagate(w)
  PROVE  Agreement'
<1> DEFINE rest == Tail(tx[w].todo)
           p == Parent[Now(w).case]
           s == Statement("put", p, "status", "open")
<1>1. tx[w] \in Transaction /\ InOrder(tx[w])
  BY DEF IInv, TypeOK, Agreement
<1>2. tx[w].todo # <<>> /\ Now(w) = Head(tx[w].todo) /\ Now(w).op = "propagate"
  BY DEF Propagate, Doing, Now
<1>3. Plain(tx[w].todo)
  BY <1>1, <1>2, DoingIsPlain
<1>4. rest \in Seq(Statements) /\ Paired(rest) /\ Plain(rest)
  BY <1>1, <1>2, Fields, HeadTailProperties, PairedTail DEF InOrder
<1>5. ASSUME NEW todo \in Seq(Statements), Paired(todo), Plain(todo),
             tx' = [tx EXCEPT ![w].todo = todo], Unchanged
      PROVE  Agreement'
  <2> DEFINE t == [tx[w] EXCEPT !.todo = todo]
  <2>1. tx' = [tx EXCEPT ![w] = t]
    BY <1>1, <1>5 DEF IInv, TypeOK, Transaction
  <2>2. t \in Transaction
    BY <1>1 DEF Transaction
  <2>3. /\ t.todo = todo /\ t.rows = tx[w].rows /\ t.events = tx[w].events
        /\ t.around = tx[w].around
    BY <1>1 DEF Transaction
  <2> HIDE DEF t
  <2>4. InOrder(t)
    BY <1>1, <1>3, <1>5, <2>2, <2>3, SameRowsInOrder
  <2> QED
    BY <1>5, <2>1, <2>4, AgreementLocal DEF Unchanged
<1>6. Unchanged
  BY DEF Propagate
<1>7. CASE tx' = [tx EXCEPT ![w].todo = rest]
  <2> HIDE DEF rest
  <2> QED
    BY <1>4, <1>5, <1>6, <1>7
<1>8. ASSUME tx' # [tx EXCEPT ![w].todo = rest]
      PROVE  Agreement'
  <2>1. p # None /\ tx' = [tx EXCEPT ![w].todo = <<s>> \o rest]
    BY <1>8 DEF Propagate
  <2>2. Now(w).case \in Cases
    <3>1. Now(w) \in Statements
      BY <1>1, <1>2, Fields, HeadTailProperties
    <3> QED
      BY <1>2, <3>1 DEF Statements, Updates
  <2>3. p \in Cases
    BY <2>1, <2>2
  <2>4. s \in Statements /\ s.op = "put"
    BY <2>3 DEF Statement, Statements, Updates, Statuses
  <2> HIDE DEF s, rest
  <2>5. <<s>> \in Seq(Statements) /\ Paired(<<s>>) /\ Plain(<<s>>)
    BY <2>4, PairedAlone
  <2> DEFINE todo == <<s>> \o rest
  <2>6. todo \in Seq(Statements) /\ Paired(todo) /\ Plain(todo)
    BY <1>4, <2>5, PairedConcat, ConcatProperties
  <2> HIDE DEF todo
  <2> QED
    BY <1>5, <1>6, <2>1, <2>6 DEF todo
<1> QED
  BY <1>7, <1>8

LEMMA AgreementPlaceHold ==
  ASSUME IInv, Agreement, NEW w \in Workers, PlaceHold(w)
  PROVE  Agreement'
<1> DEFINE c == Now(w).case
           t == [tx[w] EXCEPT !.todo = Tail(tx[w].todo), !.held = {c}]
<1>1. CASE tx' = [tx EXCEPT ![w] = Idle]
  BY <1>1, IdleInOrder, AgreementLocal DEF PlaceHold, Unchanged
<1>2. ASSUME tx' # [tx EXCEPT ![w] = Idle]
      PROVE  Agreement'
  <2>1. tx[w] \in Transaction /\ InOrder(tx[w])
    BY DEF IInv, TypeOK, Agreement
  <2>2. tx[w].todo # <<>> /\ Now(w) = Head(tx[w].todo) /\ Now(w).op = "hold"
    BY DEF PlaceHold, Doing, Now
  <2>3. Head(tx[w].todo) \in Statements /\ Tail(tx[w].todo) \in Seq(Statements)
    BY <2>1, <2>2, Fields, HeadTailProperties
  <2>4. c \in Cases
    BY <2>2, <2>3 DEF Statements, Updates
  <2>5. tx' = [tx EXCEPT ![w] = t] /\ Unchanged
    BY <1>2 DEF PlaceHold
  <2>6. t \in Transaction
    BY <2>1, <2>3, <2>4 DEF Transaction
  <2>7. /\ t.todo = Tail(tx[w].todo) /\ t.rows = tx[w].rows /\ t.events = tx[w].events
        /\ t.around = tx[w].around
    BY <2>1 DEF Transaction
  <2> HIDE DEF t
  <2>8. Plain(tx[w].todo)
    BY <2>1, <2>2, DoingIsPlain
  <2>9. Paired(t.todo) /\ Plain(t.todo)
    BY <2>1, <2>2, <2>7, PairedTail, Fields DEF InOrder
  <2>10. InOrder(t)
    BY <2>1, <2>6, <2>7, <2>8, <2>9, SameRowsInOrder
  <2> QED
    BY <2>5, <2>10, AgreementLocal DEF Unchanged
<1> QED
  BY <1>1, <1>2

(* The events of a commit are on rows the transaction has locked: of the   *)
(* rows it commits they are the stream, and of the others they say nothing.*)
LEMMA AgreementCommit ==
  ASSUME IInv, Agreement, NEW w \in Workers, Commit(w)
  PROVE  Agreement'
<1>1. Sound(tx[w]) /\ InOrder(tx[w])
  BY DEF IInv, Agreement
<1>2. tx'[w] = Idle /\ \A v \in Workers \ {w} : tx'[v] = tx[v]
  BY DEF Commit, IInv, TypeOK
<1>3. events' = events \cup tx[w].events /\ bypassed' = bypassed \cup tx[w].around
  BY DEF Commit
<1>4. \A e \in tx[w].events : e.case \in Locked(w)
  BY <1>1 DEF Sound, Locked
<1>5. ASSUME NEW c \in Cases, NEW column \in Told
      PROVE  Tells(events', c, column, row'[c][column]) \/ <<c, column>> \in bypassed'
  <2>1. row'[c] = Visible(w, c)
    BY DEF Commit
  <2>2. CASE c \in Locked(w)
    <3>1. ~Due(tx[w], c, column)
      BY DEF Commit, Due
    <3> QED
      BY <1>1, <1>3, <2>1, <2>2, <3>1 DEF InOrder, Faithful, Visible, Locked
  <2>3. CASE c \notin Locked(w)
    <3>1. Tells(events, c, column, row[c][column]) \/ <<c, column>> \in bypassed
      BY DEF Agreement, Committed
    <3>2. row'[c][column] = row[c][column]
      BY <2>1, <2>3 DEF Visible
    <3>3. \A e \in tx[w].events : e.case # c
      BY <1>4, <2>3
    <3>4. Tells(events', c, column, row[c][column]) <=> Tells(events, c, column, row[c][column])
      BY <1>3, <3>3, OthersSayNothing
    <3> QED
      BY <1>3, <3>1, <3>2, <3>4
  <2> QED
    BY <2>2, <2>3
<1>6. Committed'
  BY <1>5 DEF Committed, Tells, About
<1>7. ASSUME NEW v \in Workers PROVE InOrder(tx[v])'
  <2>1. CASE v = w
    <3>1. tx'[v] = Idle
      BY <1>2, <2>1
    <3>2. Idle.todo = <<>> /\ DOMAIN Idle.rows = {}
      BY IdleWellFormed
    <3> HIDE DEF Idle
    <3> QED
      BY <3>1, <3>2 DEF InOrder, Paired, Announces, DueIsTrue, Faithful, Due
  <2>2. CASE v # w
    <3>1. tx'[v] = tx[v] /\ InOrder(tx[v])
      BY <1>2, <2>2 DEF Agreement
    <3>2. Locked(v) \cap Locked(w) = {}
      BY <2>2 DEF IInv, Exclusive
    <3>3. ASSUME NEW c \in Locked(v), NEW column \in Told
          PROVE  \/ Tells(events' \cup tx[v].events, c, column, tx[v].rows[c][column])
                 \/ <<c, column>> \in bypassed' \cup tx[v].around
                 \/ Due(tx[v], c, column)
      <4>1. \A e \in tx[w].events : e.case # c
        BY <1>4, <3>2
      <4>2. events' \cup tx[v].events = (events \cup tx[v].events) \cup tx[w].events
        BY <1>3
      <4>3. Tells(events' \cup tx[v].events, c, column, tx[v].rows[c][column])
              <=> Tells(events \cup tx[v].events, c, column, tx[v].rows[c][column])
        BY <4>1, <4>2, OthersSayNothing
      <4> QED
        BY <1>3, <3>1, <4>3 DEF InOrder, Faithful, Locked
    <3>4. Paired(tx[v].todo) /\ DueIsTrue(tx[v])
      BY <3>1 DEF InOrder
    <3> QED
      BY <3>1, <3>3, <3>4
         DEF InOrder, Paired, Announces, DueIsTrue, Faithful, Due, Locked, Tells, About
  <2> QED
    BY <2>1, <2>2
<1> QED
  BY <1>6, <1>7 DEF Agreement

LEMMA InitAgreement == Init => Agreement
<1> SUFFICES ASSUME Init PROVE Agreement
  OBVIOUS
<1>1. ASSUME NEW w \in Workers PROVE InOrder(tx[w])
  BY IdleInOrder DEF Init
<1>2. ASSUME NEW c \in Cases PROVE Tells(events, c, "status", row[c].status)
  <2> DEFINE e == [case |-> c, seq |-> 1, type |-> "created", to |-> "open"]
  <2>1. e \in events /\ \A d \in events : d.seq = 1
    BY DEF Init
  <2>2. e \in About(events, c, "status") /\ \A d \in About(events, c, "status") : d.seq <= e.seq
    BY <2>1 DEF About
  <2>3. e.to = row[c].status
    BY DEF Init
  <2> HIDE DEF e
  <2> QED
    BY <2>2, <2>3 DEF Tells
<1>3. ASSUME NEW c \in Cases PROVE Tells(events, c, "stage", row[c].stage)
  <2>1. \A d \in events : d.type = "created"
    BY DEF Init
  <2>2. About(events, c, "stage") = {}
    BY <2>1 DEF About
  <2>3. row[c].stage = "none"
    BY DEF Init
  <2> QED
    BY <2>2, <2>3 DEF Tells
<1>4. Committed
  BY <1>2, <1>3 DEF Committed, Told
<1> QED
  BY <1>1, <1>4 DEF Agreement

LEMMA AgreementStep == IInv /\ Agreement /\ [Next]_vars => Agreement'
<1> SUFFICES ASSUME IInv, Agreement, [Next]_vars PROVE Agreement'
  OBVIOUS
<1>1. ASSUME NEW w \in Workers, Begin(w) PROVE Agreement'
  BY <1>1, AgreementBegin
<1>2. ASSUME NEW w \in Workers, Step(w) PROVE Agreement'
  BY <1>2, AgreementUpdate, AgreementReadSeq, AgreementAppend, AgreementPropagate,
     AgreementPlaceHold, AgreementCommit DEF Step
<1>3. ASSUME NEW w \in Workers, Abort(w) PROVE Agreement'
  BY <1>3, IdleInOrder, AgreementLocal DEF Abort, Unchanged
<1>4. CASE UNCHANGED vars
  <2>1. Committed'
    BY <1>4 DEF vars, Agreement, Committed, Tells, About
  <2>2. ASSUME NEW w \in Workers PROVE InOrder(tx[w])'
    <3>1. tx' = tx /\ events' = events /\ bypassed' = bypassed /\ InOrder(tx[w])
      BY <1>4 DEF vars, Agreement
    <3> QED
      BY <3>1 DEF InOrder, Paired, Announces, DueIsTrue, Faithful, Due, Tells, About
  <2> QED
    BY <2>1, <2>2 DEF Agreement
<1> QED
  BY <1>1, <1>2, <1>3, <1>4 DEF Next, Quiet

(* project returns what the stream tells.                                  *)
LEMMA ProjectedIsTold ==
  ASSUME IInv, NEW c \in Cases, NEW column \in Told, NEW value,
         Tells(events, c, column, value)
  PROVE  Projected(c, column) = value
<1> DEFINE evs == About(events, c, column)
           initially == IF column = "status" THEN "open" ELSE "none"
           last == CHOOSE e \in evs : \A d \in evs : d.seq <= e.seq
<1>1. Projected(c, column) = IF evs = {} THEN initially ELSE last.to
  <2>1. CASE column = "status"
    BY <2>1 DEF Projected, Latest, About
  <2>2. CASE column = "stage"
    BY <2>2 DEF Projected, Latest, About
  <2> QED
    BY <2>1, <2>2 DEF Told
<1>2. \A e \in evs : e \in events /\ e.case = c /\ e.seq \in Nat
  BY DEF About, IInv, TypeOK, Event
<1> HIDE DEF evs
<1>3. CASE evs = {} /\ value = initially
  BY <1>1, <1>3
<1>4. CASE \E e \in evs : e.to = value /\ \A d \in evs : d.seq <= e.seq
  <2>1. PICK e \in evs : e.to = value /\ \A d \in evs : d.seq <= e.seq
    BY <1>4
  <2>2. last \in evs /\ \A d \in evs : d.seq <= last.seq
    BY <2>1
  <2> HIDE DEF last
  <2>3. last.seq = e.seq
    BY <1>2, <2>1, <2>2
  <2>4. last = e
    BY <1>2, <2>2, <2>3 DEF IInv, Numbered
  <2> QED
    BY <1>1, <2>1, <2>4
<1> QED
  BY <1>3, <1>4 DEF Tells, evs
-----------------------------------------------------------------------------
(* The inductive invariant holds for every family of cases, every set of   *)
(* overlapping requests and every list of statements they are made of.     *)
THEOREM TransactionsInvariant == Spec => []IInv
<1> QED
  BY InitInvariant, InvariantStep, PTL DEF Spec

(* Rows, events and transactions stay well formed.                         *)
THEOREM TypeCorrect == Spec => []TypeOK
<1>1. IInv => TypeOK
  BY DEF IInv
<1> QED
  BY <1>1, TransactionsInvariant, PTL

(* No event is refused for its number, so EventStore.append never rolls    *)
(* back the request it is part of.                                         *)
THEOREM AppendsSucceed == Spec => []AppendNeverLoses
<1>1. IInv => AppendNeverLoses
  BY NumberIsFree DEF AppendNeverLoses, Taken
<1> QED
  BY <1>1, TransactionsInvariant, PTL

(* The committed stream of a case is numbered 1, 2, 3 ... without a hole   *)
(* and without a number given twice.                                       *)
THEOREM StreamsWhole == Spec => []StreamContiguous
<1>1. IInv => StreamContiguous
  <2> SUFFICES ASSUME IInv PROVE StreamContiguous
    OBVIOUS
  <2>1. ASSUME NEW c \in Cases PROVE Contiguous(StreamOf(c, events))
    <3>1. PICK m \in Nat : StreamOf(c, events) = 1..m
      BY DEF IInv, Gapless
    <3>2. Cardinality(1..m) = m
      BY FS_Interval, m \in Int, 1 \in Int
    <3> QED
      BY <3>1, <3>2 DEF Contiguous
  <2>2. \A d, e \in events : d.case = e.case /\ d.seq = e.seq => d = e
    BY DEF IInv, Numbered
  <2> QED
    BY <2>1, <2>2 DEF StreamContiguous
<1> QED
  BY <1>1, TransactionsInvariant, PTL

(* verify reports a divergence between a row and its stream only for a     *)
(* column that was written without apply_status_change or                  *)
(* on_stage_entered: no interleaving of requests makes one.                *)
THEOREM DivergenceExplained == Spec => []DivergenceIsBypass
<1>1. IInv /\ Agreement => DivergenceIsBypass
  BY ProjectedIsTold DEF Agreement, Committed, DivergenceIsBypass, Told
<1>2. Init => IInv /\ Agreement
  BY InitInvariant, InitAgreement
<1>3. IInv /\ Agreement /\ [Next]_vars => IInv' /\ Agreement'
  BY InvariantStep, AgreementStep
<1> QED
  BY <1>1, <1>2, <1>3, PTL DEF Spec
-----------------------------------------------------------------------------
(* The waiting parent.  Two requests that end the last two sub-cases in    *)
(* overlapping transactions each read the other as open: the run siblings. *)
(* This is the only way: as long as no two transactions have written to    *)
(* the cases of one family, the request that ends the last one opens the   *)
(* parent.                                                                 *)
Kin(p) == ChildrenOf(p) \cup {p}
Apart ==
  \A v, w \in Workers, p \in Cases :
    v # w => ~(\E c \in Locked(v), d \in Locked(w) : c \in Kin(p) /\ d \in Kin(p))

(* The statements that write a status, at a chokepoint or to free a parent.*)
SetsStatus(s) == s.op = "set" /\ s.what = "status"
PutsStatus(s) == s.op = "put" /\ s.what = "status"
Closing(s)    == s.op = "propagate" \/ PutsStatus(s)

Follows(s, e) == e.op = "propagate" /\ e.case = s.case /\ e.to = s.to

(* A request sets one status at most and propagates it afterwards; the     *)
(* parent is opened right away.                                            *)
Shaped(todo) ==
  /\ \A i, j \in 1..Len(todo) : i < j /\ Closing(todo[i]) => ~SetsStatus(todo[j])
  /\ \A i, j \in 1..Len(todo) : SetsStatus(todo[i]) /\ SetsStatus(todo[j]) => i = j
  /\ \A i \in 1..Len(todo) : SetsStatus(todo[i]) =>
       \E j \in 1..Len(todo) : Follows(todo[i], todo[j])
  /\ \A i \in 1..Len(todo) : PutsStatus(todo[i]) => i = 1 /\ todo[i].to = "open"

(* What a transaction sees of a case, and the cases it has ended.          *)
Seen(t, c) == IF c \in DOMAIN t.rows THEN t.rows[c] ELSE row[c]
Ends(t, c) == t.rows[c].status = "ended" /\ row[c].status # "ended"

(* A status that is still to be set is the first one.                      *)
Fresh(t) ==
  (\E i \in 1..Len(t.todo) : SetsStatus(t.todo[i])) =>
    \A c \in DOMAIN t.rows : t.rows[c].status = row[c].status

(* The parent of a case that ends will be looked at, waits for another     *)
(* one, does not wait, or will be opened.                                  *)
LookedAt(t, c) ==
  \/ \E i \in 1..Len(t.todo) : /\ t.todo[i].op = "propagate" /\ t.todo[i].case = c
                               /\ t.todo[i].to = "ended"
  \/ \E d \in ChildrenOf(Parent[c]) : Seen(t, d).status # "ended"
  \/ Seen(t, Parent[c]).status # "pending_subcase"
  \/ \E i \in 1..Len(t.todo) : PutsStatus(t.todo[i]) /\ t.todo[i].case = Parent[c]

Tended(t) ==
  /\ Shaped(t.todo)
  /\ Fresh(t)
  /\ \A c \in DOMAIN t.rows : Ends(t, c) /\ Parent[c] # None => LookedAt(t, c)

Families == \A w \in Workers : Tended(tx[w])

(* Lists without a status.                                                 *)
Neutral(todo) == \A i \in 1..Len(todo) : ~Closing(todo[i]) /\ ~SetsStatus(todo[i])
Unput(todo)   == \A i \in 1..Len(todo) : ~PutsStatus(todo[i])

(* What is left of a list when its first statement has been carried out.   *)
LEMMA ShapedTail ==
  ASSUME NEW todo \in Seq(Statements), todo # <<>>, Shaped(todo)
  PROVE  /\ Shaped(Tail(todo)) /\ Unput(Tail(todo))
         /\ Closing(Head(todo)) \/ SetsStatus(Head(todo)) =>
              \A i \in 1..Len(Tail(todo)) : ~SetsStatus(Tail(todo)[i])
         /\ SetsStatus(Head(todo)) =>
              \E i \in 1..Len(Tail(todo)) : Follows(Head(todo), Tail(todo)[i])
<1> DEFINE rest == Tail(todo)
<1>1. /\ rest \in Seq(Statements) /\ Len(rest) = Len(todo) - 1
      /\ \A i \in 1..Len(rest) : rest[i] = todo[i + 1]
      /\ Len(todo) \in Nat /\ Len(todo) # 0 /\ Head(todo) = todo[1]
  BY HeadTailProperties, LenProperties, EmptySeq
<1> HIDE DEF rest
<1>2. /\ \A i \in 1..Len(rest) : i + 1 \in 1..Len(todo) /\ i + 1 # 1 /\ 1 < i + 1
      /\ 1 \in 1..Len(todo)
  BY <1>1
<1>3. \A j \in 1..Len(todo) : j # 1 => j - 1 \in 1..Len(rest) /\ rest[j - 1] = todo[j]
  BY <1>1
<1>4. Unput(rest)
  BY <1>1, <1>2 DEF Shaped, Unput
<1>5. ASSUME Closing(todo[1]) \/ SetsStatus(todo[1]), NEW i \in 1..Len(rest)
      PROVE  ~SetsStatus(rest[i])
  <2>1. CASE Closing(todo[1])
    BY <1>1, <1>2, <2>1 DEF Shaped
  <2>2. CASE SetsStatus(todo[1])
    BY <1>1, <1>2, <2>2 DEF Shaped
  <2> QED
    BY <1>5, <2>1, <2>2
<1>6. ASSUME SetsStatus(todo[1])
      PROVE  \E i \in 1..Len(rest) : Follows(todo[1], rest[i])
  <2>1. PICK j \in 1..Len(todo) : Follows(todo[1], todo[j])
    BY <1>2, <1>6 DEF Shaped
  <2>2. j # 1
    BY <1>6, <2>1 DEF Follows, SetsStatus
  <2> QED
    BY <1>3, <2>1, <2>2
<1>7. ASSUME NEW i \in 1..Len(rest), SetsStatus(rest[i])
      PROVE  \E j \in 1..Len(rest) : Follows(rest[i], rest[j])
  <2>1. rest[i] = todo[i + 1]
    BY <1>1
  <2>2. PICK j \in 1..Len(todo) : Follows(todo[i + 1], todo[j])
    BY <1>2, <1>7, <2>1 DEF Shaped
  <2>3. j # 1
    <3>1. Closing(todo[j])
      BY <2>2 DEF Follows, Closing
    <3> QED
      BY <1>5, <1>7, <3>1
  <2> QED
    BY <1>3, <2>1, <2>2, <2>3
<1>8. ASSUME NEW i \in 1..Len(rest), NEW j \in 1..Len(rest)
      PROVE  /\ i < j /\ Closing(rest[i]) => ~SetsStatus(rest[j])
             /\ SetsStatus(rest[i]) /\ SetsStatus(rest[j]) => i = j
  <2>1. rest[i] = todo[i + 1] /\ rest[j] = todo[j + 1]
    BY <1>1
  <2>2. (i < j => i + 1 < j + 1) /\ (i + 1 = j + 1 => i = j)
    OBVIOUS
  <2> QED
    BY <1>2, <2>1, <2>2 DEF Shaped
<1>9. Shaped(rest)
  BY <1>4, <1>7, <1>8 DEF Shaped, Unput
<1> QED
  BY <1>1, <1>4, <1>5, <1>6, <1>9 DEF rest

(* A list stays in shape when one without a status is put before or after. *)
LEMMA ShapedConcat ==
  ASSUME NEW a \in Seq(Statements), NEW b \in Seq(Statements),
         Shaped(a), Shaped(b), Unput(a), Unput(b), Neutral(a) \/ Neutral(b)
  PROVE  Shaped(a \o b) /\ Unput(a \o b)
<1> DEFINE ab == a \o b
<1>1. Len(a) \in Nat /\ Len(b) \in Nat
  BY LenProperties
<1>2. /\ Len(ab) = Len(a) + Len(b)
      /\ \A i \in 1..(Len(a) + Len(b)) : ab[i] = IF i <= Len(a) THEN a[i] ELSE b[i - Len(a)]
  BY ConcatProperties
<1> HIDE DEF ab
<1>3. ASSUME NEW i \in 1..Len(ab)
      PROVE  \/ i \in 1..Len(a) /\ ab[i] = a[i]
             \/ i > Len(a) /\ i - Len(a) \in 1..Len(b) /\ ab[i] = b[i - Len(a)]
  BY <1>1, <1>2
<1>4. Unput(ab)
  BY <1>3 DEF Unput
<1>5. CASE Neutral(a)
  <2>1. ASSUME NEW i \in 1..Len(ab), Closing(ab[i]) \/ SetsStatus(ab[i])
        PROVE  i > Len(a) /\ i - Len(a) \in 1..Len(b) /\ ab[i] = b[i - Len(a)]
    BY <1>3, <1>5, <2>1 DEF Neutral
  <2>2. ASSUME NEW i \in 1..Len(ab), NEW j \in 1..Len(ab), i < j, Closing(ab[i]),
               SetsStatus(ab[j])
        PROVE  FALSE
    <3>1. i - Len(a) < j - Len(a)
      BY <1>1, <2>2
    <3> QED
      BY <2>1, <2>2, <3>1 DEF Shaped
  <2>3. ASSUME NEW i \in 1..Len(ab), NEW j \in 1..Len(ab), SetsStatus(ab[i]), SetsStatus(ab[j])
        PROVE  i = j
    <3>1. i - Len(a) = j - Len(a)
      BY <2>1, <2>3 DEF Shaped
    <3> QED
      BY <1>1, <3>1
  <2>4. ASSUME NEW i \in 1..Len(ab), SetsStatus(ab[i])
        PROVE  \E j \in 1..Len(ab) : Follows(ab[i], ab[j])
    <3>1. i - Len(a) \in 1..Len(b) /\ ab[i] = b[i - Len(a)]
      BY <2>1, <2>4
    <3>2. PICK k \in 1..Len(b) : Follows(ab[i], b[k])
      BY <2>4, <3>1 DEF Shaped
    <3>3. k + Len(a) \in 1..(Len(a) + Len(b)) /\ ~(k + Len(a) <= Len(a))
            /\ (k + Len(a)) - Len(a) = k
      BY <1>1
    <3>4. ab[k + Len(a)] = b[k]
      BY <1>2, <3>3
    <3> QED
      BY <1>2, <3>2, <3>3, <3>4
  <2> QED
    BY <1>4, <2>2, <2>3, <2>4 DEF Shaped, Unput, ab
<1>6. CASE Neutral(b)
  <2>1. ASSUME NEW i \in 1..Len(ab), Closing(ab[i]) \/ SetsStatus(ab[i])
        PROVE  i \in 1..Len(a) /\ ab[i] = a[i]
    BY <1>3, <1>6, <2>1 DEF Neutral
  <2>2. ASSUME NEW i \in 1..Len(ab), NEW j \in 1..Len(ab), i < j, Closing(ab[i]),
               SetsStatus(ab[j])
        PROVE  FALSE
    BY <2>1, <2>2 DEF Shaped
  <2>3. ASSUME NEW i \in 1..Len(ab), NEW j \in 1..Len(ab), SetsStatus(ab[i]), SetsStatus(ab[j])
        PROVE  i = j
    BY <2>1, <2>3 DEF Shaped
  <2>4. ASSUME NEW i \in 1..Len(ab), SetsStatus(ab[i])
        PROVE  \E j \in 1..Len(ab) : Follows(ab[i], ab[j])
    <3>1. PICK k \in 1..Len(a) : Follows(ab[i], a[k])
      BY <2>1, <2>4 DEF Shaped
    <3>2. k \in 1..(Len(a) + Len(b)) /\ ab[k] = a[k]
      BY <1>1, <1>2
    <3> QED
      BY <1>2, <3>1, <3>2
  <2> QED
    BY <1>4, <2>2, <2>3, <2>4 DEF Shaped, Unput, ab
<1> QED
  BY <1>4, <1>5, <1>6 DEF ab

(* One statement or none that neither sets nor propagates a status.        *)
LEMMA NeutralShaped ==
  ASSUME NEW todo, Neutral(todo)
  PROVE  Shaped(todo) /\ Unput(todo)
  BY DEF Neutral, Shaped, Unput, Closing

LEMMA ChangeStatusShaped ==
  ASSUME NEW c \in Cases, NEW to \in Statuses
  PROVE  Shaped(ChangeStatus(c, to)) /\ Unput(ChangeStatus(c, to))
<1> DEFINE s1 == Statement("set", c, "status", to)
           s2 == Statement("event", c, "status", to)
           s3 == Statement("propagate", c, "status", to)
           all == <<s1, s2, s3>>
<1>1. /\ ~Closing(s1) /\ ~Closing(s2) /\ ~SetsStatus(s2) /\ ~SetsStatus(s3)
      /\ ~PutsStatus(s1) /\ ~PutsStatus(s2) /\ ~PutsStatus(s3) /\ Follows(s1, s3)
  BY DEF Statement, Closing, SetsStatus, PutsStatus, Follows
<1> HIDE DEF s1, s2, s3
<1>2. Len(all) = 3 /\ all[1] = s1 /\ all[2] = s2 /\ all[3] = s3
  OBVIOUS
<1> HIDE DEF all
<1>3. ASSUME NEW i \in 1..3
      PROVE  /\ SetsStatus(all[i]) => i = 1
             /\ Closing(all[i]) => i = 3
             /\ ~PutsStatus(all[i])
  <2>1. CASE i = 1
    BY <1>1, <1>2, <2>1
  <2>2. CASE i = 2
    BY <1>1, <1>2, <2>2
  <2>3. CASE i = 3
    BY <1>1, <1>2, <2>3
  <2> QED
    BY <2>1, <2>2, <2>3
<1>4. Follows(all[1], all[3])
  BY <1>1, <1>2
<1>5. Shaped(all) /\ Unput(all)
  BY <1>2, <1>3, <1>4 DEF Shaped, Unput
<1> QED
  BY <1>5 DEF all, s1, s2, s3, ChangeStatus

LEMMA EntryShaped ==
  ASSUME NEW c \in Cases, NEW entry \in OnEnter(c)
  PROVE  entry \in Seq(Statements) /\ Shaped(entry) /\ Unput(entry)
<1>1. CASE entry = <<>>
  BY <1>1, EntryStatements DEF Shaped, Unput
<1>2. CASE \E to \in Statuses : entry = ChangeStatus(c, to)
  BY <1>2, EntryStatements, ChangeStatusShaped
<1> QED
  BY <1>1, <1>2 DEF OnEnter

(* Every request but an escalation changes a status at a chokepoint.       *)
LEMMA RequestShaped ==
  ASSUME NEW kind \in AllKinds \ {"escalate"}, NEW c \in Cases, NEW todo \in Requests(kind, c)
  PROVE  Shaped(todo)
<1>1. CASE kind = "status"
  <2>1. Requests(kind, c) = {ChangeStatus(c, to) : to \in Statuses}
    BY <1>1 DEF Requests
  <2> QED
    BY <2>1, ChangeStatusShaped
<1>2. CASE kind = "enter"
  <2>1. Requests(kind, c) = UNION {EnterStage(c, s) : s \in Stages}
    BY <1>2 DEF Requests
  <2>2. PICK s \in Stages : todo \in EnterStage(c, s)
    BY <2>1
  <2> DEFINE s1 == Statement("set", c, "stage", s)
             s2 == Statement("event", c, "stage", s)
             s3 == Statement("event", c, "assigned", "none")
  <2>3. PICK entry \in OnEnter(c) : todo = <<s1, s2>> \o entry \o <<s3>>
    BY <2>2 DEF EnterStage
  <2>4. s1 \in Statements /\ s2 \in Statements /\ s3 \in Statements
    BY DEF Statement, Statements, Updates, EventTypes, Values
  <2>5. /\ ~Closing(s1) /\ ~Closing(s2) /\ ~Closing(s3)
        /\ ~SetsStatus(s1) /\ ~SetsStatus(s2) /\ ~SetsStatus(s3)
    BY DEF Statement, Closing, SetsStatus, PutsStatus
  <2> HIDE DEF s1, s2, s3
  <2>6. <<s1, s2>> \in Seq(Statements) /\ Neutral(<<s1, s2>>)
    <3>1. Len(<<s1, s2>>) = 2 /\ <<s1, s2>>[1] = s1 /\ <<s1, s2>>[2] = s2
      OBVIOUS
    <3>2. \A i \in 1..2 : i = 1 \/ i = 2
      OBVIOUS
    <3> QED
      BY <2>4, <2>5, <3>1, <3>2 DEF Neutral
  <2>7. <<s3>> \in Seq(Statements) /\ Neutral(<<s3>>)
    BY <2>4, <2>5 DEF Neutral
  <2> DEFINE front == <<s1, s2>> \o entry
  <2>8. front \in Seq(Statements) /\ Shaped(front) /\ Unput(front)
    BY <2>6, EntryShaped, NeutralShaped, ShapedConcat, ConcatProperties
  <2>9. todo = front \o <<s3>>
    BY <2>3
  <2> HIDE DEF front
  <2> QED
    BY <2>7, <2>8, <2>9, NeutralShaped, ShapedConcat
<1>3. CASE kind = "move"
  <2>1. Requests(kind, c) = UNION {MoveStage(c, s) : s \in Stages}
    BY <1>3 DEF Requests
  <2>2. PICK s \in Stages : todo \in MoveStage(c, s)
    BY <2>1
  <2> DEFINE s1 == Statement("put", c, "stage", s)
  <2>3. PICK entry \in OnEnter(c) : todo = <<s1>> \o entry
    BY <2>2 DEF MoveStage
  <2>4. s1 \in Statements /\ ~Closing(s1) /\ ~SetsStatus(s1)
    BY DEF Statement, Statements, Updates, Closing, SetsStatus, PutsStatus
  <2> HIDE DEF s1
  <2>5. <<s1>> \in Seq(Statements) /\ Neutral(<<s1>>)
    BY <2>4 DEF Neutral
  <2> QED
    BY <2>3, <2>5, EntryShaped, NeutralShaped, ShapedConcat
<1>4. ASSUME NEW s, ~Closing(s), ~SetsStatus(s), todo = <<s>>
      PROVE  Shaped(todo)
  <2>1. Neutral(todo)
    BY <1>4 DEF Neutral
  <2> QED
    BY <2>1, NeutralShaped
<1>5. CASE kind = "delete"
  <2>1. todo = <<Statement("put", c, "is_deleted", "yes")>>
    BY <1>5 DEF Requests
  <2> QED
    BY <1>4, <2>1 DEF Statement, Closing, SetsStatus, PutsStatus
<1>6. CASE kind = "hold"
  <2>1. todo = <<Statement("hold", c, "status", "none")>>
    BY <1>6 DEF Requests
  <2> QED
    BY <1>4, <2>1 DEF Statement, Closing, SetsStatus, PutsStatus
<1> QED
  BY <1>1, <1>2, <1>3, <1>5, <1>6 DEF AllKinds

(* A step of one transaction that commits nothing.                         *)
LEMMA FamiliesLocal ==
  ASSUME IInv, Families, NEW w \in Workers, NEW t, tx' = [tx EXCEPT ![w] = t], row' = row,
         Tended(t)
  PROVE  Families'
<1>1. tx'[w] = t /\ \A v \in Workers \ {w} : tx'[v] = tx[v]
  BY DEF IInv, TypeOK
<1>2. ASSUME NEW v \in Workers PROVE Tended(tx[v])'
  <2>1. Tended(tx'[v])
    BY <1>1 DEF Families
  <2> QED
    BY <2>1 DEF Tended, Fresh, Ends, LookedAt, Seen
<1> QED
  BY <1>2 DEF Families

LEMMA CleanTended ==
  ASSUME NEW t, t.rows = <<>>, Shaped(t.todo)
  PROVE  Tended(t)
<1>1. DOMAIN t.rows = {}
  OBVIOUS
<1> QED
  BY <1>1 DEF Tended, Fresh

LEMMA IdleTended == Tended(Idle)
<1>1. Idle.rows = <<>> /\ Idle.todo = <<>>
  BY DEF Idle, Clean
<1>2. Shaped(<<>>)
  BY DEF Shaped
<1> QED
  BY <1>1, <1>2, CleanTended

LEMMA FamiliesBegin ==
  ASSUME IInv, Families, "escalate" \notin Kinds, NEW w \in Workers, Begin(w)
  PROVE  Families'
<1>1. PICK kind \in Kinds, c \in Cases :
        \E todo \in Requests(kind, c) : tx' = [tx EXCEPT ![w] = Clean(TRUE, todo)]
  BY DEF Begin
<1>2. PICK todo \in Requests(kind, c) : tx' = [tx EXCEPT ![w] = Clean(TRUE, todo)]
  BY <1>1
<1>3. Shaped(todo)
  BY RequestShaped
<1> DEFINE t == Clean(TRUE, todo)
<1>4. t.rows = <<>> /\ t.todo = todo
  BY DEF Clean
<1> HIDE DEF t
<1>5. Tended(t)
  BY <1>3, <1>4, CleanTended
<1>6. tx' = [tx EXCEPT ![w] = t] /\ row' = row
  BY <1>2 DEF t, Begin
<1> QED
  BY <1>5, <1>6, FamiliesLocal

(* A statement that touches no status.                                     *)
LEMMA SameStatuses ==
  ASSUME NEW t \in Transaction, t.todo # <<>>, Tended(t), ~Closing(Head(t.todo)),
         ~SetsStatus(Head(t.todo)), NEW u, u.todo = Tail(t.todo),
         \A c \in DOMAIN u.rows : u.rows[c].status = Seen(t, c).status,
         DOMAIN t.rows \subseteq DOMAIN u.rows
  PROVE  Tended(u)
<1> DEFINE rest == Tail(t.todo)
<1>1. /\ t.todo \in Seq(Statements) /\ Len(rest) = Len(t.todo) - 1
      /\ \A i \in 1..Len(rest) : rest[i] = t.todo[i + 1]
      /\ Len(t.todo) \in Nat /\ Len(t.todo) # 0 /\ Head(t.todo) = t.todo[1]
  BY Fields, HeadTailProperties, LenProperties, EmptySeq
<1>2. Shaped(u.todo)
  BY <1>1, ShapedTail DEF Tended
<1> HIDE DEF rest
<1>3. \A j \in 1..Len(t.todo) : j # 1 => j - 1 \in 1..Len(rest) /\ rest[j - 1] = t.todo[j]
  BY <1>1
<1>4. \A i \in 1..Len(rest) : i + 1 \in 1..Len(t.todo) /\ rest[i] = t.todo[i + 1]
  BY <1>1
<1>5. \A c : Seen(u, c).status = Seen(t, c).status
  BY DEF Seen
<1>6. ASSUME NEW c \in DOMAIN u.rows, c \notin DOMAIN t.rows
      PROVE  u.rows[c].status = row[c].status
  BY <1>6 DEF Seen
<1>7. \A c \in DOMAIN t.rows : u.rows[c].status = t.rows[c].status
  BY DEF Seen
<1>8. Fresh(u)
  <2> SUFFICES ASSUME NEW i \in 1..Len(rest), SetsStatus(rest[i]), NEW c \in DOMAIN u.rows
               PROVE  u.rows[c].status = row[c].status
    BY DEF Fresh, rest
  <2>1. \A d \in DOMAIN t.rows : t.rows[d].status = row[d].status
    BY <1>4 DEF Tended, Fresh
  <2> QED
    BY <1>6, <1>7, <2>1
<1>9. ASSUME NEW c \in DOMAIN u.rows, Ends(u, c), Parent[c] # None
      PROVE  LookedAt(u, c)
  <2>1. c \in DOMAIN t.rows /\ Ends(t, c)
    BY <1>6, <1>7, <1>9 DEF Ends
  <2>2. LookedAt(t, c)
    BY <1>9, <2>1 DEF Tended
  <2>3. ASSUME NEW i \in 1..Len(t.todo), Closing(t.todo[i])
        PROVE  i - 1 \in 1..Len(rest) /\ rest[i - 1] = t.todo[i]
    BY <1>1, <1>3, <2>3
  <2>4. ASSUME NEW i \in 1..Len(t.todo), t.todo[i].op = "propagate", t.todo[i].case = c,
               t.todo[i].to = "ended"
        PROVE  LookedAt(u, c)
    BY <2>3, <2>4 DEF LookedAt, Closing, rest
  <2>5. ASSUME NEW i \in 1..Len(t.todo), PutsStatus(t.todo[i]), t.todo[i].case = Parent[c]
        PROVE  LookedAt(u, c)
    BY <2>3, <2>5 DEF LookedAt, Closing, rest
  <2> QED
    BY <1>5, <2>2, <2>4, <2>5 DEF LookedAt
<1> QED
  BY <1>2, <1>8, <1>9 DEF Tended

(* UPDATE: the status that is set is the first, and what frees a parent    *)
(* ends no case.                                                           *)
LEMMA FamiliesUpdate ==
  ASSUME IInv, Families, NEW w \in Workers, Update(w)
  PROVE  Families'
<1> DEFINE s == Now(w)
           e == s.case
           old == tx[w]
           r == [Visible(w, e) EXCEPT ![s.what] = s.to]
           t == [old EXCEPT
                   !.todo = Tail(old.todo),
                   !.rows = [c \in Locked(w) \cup {e} |-> IF c = e THEN r ELSE old.rows[c]],
                   !.around = IF s.op = "put" THEN old.around \cup {<<e, s.what>>}
                                              ELSE old.around \ {<<e, s.what>>}]
<1>1. old \in Transaction /\ Tended(old)
  BY DEF IInv, TypeOK, Families
<1>2. old.todo # <<>> /\ s = Head(old.todo) /\ s.op \in {"set", "put"}
  BY DEF Update, Doing, Now
<1>3. /\ s \in Statements /\ s = old.todo[1] /\ 1 \in 1..Len(old.todo)
      /\ old.todo \in Seq(Statements)
  BY <1>1, <1>2, Fields, HeadTailProperties, LenProperties, EmptySeq
<1>4. e \in Cases /\ s.what \in Columns
  BY <1>2, <1>3 DEF Statements, Updates, Columns
<1>5. Visible(w, e) \in Row /\ Visible(w, e) = Seen(old, e)
  BY <1>1, <1>4, Fields DEF Visible, Seen, Locked, IInv, TypeOK
<1>6. r.status = IF s.what = "status" THEN s.to ELSE Seen(old, e).status
  <2>1. CASE s.what = "status"
    BY <1>5, <2>1 DEF Row
  <2>2. CASE s.what # "status"
    BY <1>4, <1>5, <2>2 DEF Row, Columns
  <2> QED
    BY <2>1, <2>2
<1> HIDE DEF r
<1>7. /\ t.todo = Tail(old.todo)
      /\ DOMAIN t.rows = DOMAIN old.rows \cup {e}
      /\ t.rows[e] = r
      /\ \A c \in DOMAIN old.rows : c # e => t.rows[c] = old.rows[c]
  BY <1>1 DEF Transaction, Locked
<1>8. tx' = [tx EXCEPT ![w] = t] /\ row' = row
  BY DEF Update, Unchanged, r
<1> HIDE DEF t, e, old
<1>9. Seen(t, e) = r /\ \A c : c # e => Seen(t, c) = Seen(old, c)
  BY <1>7 DEF Seen
<1> DEFINE rest == Tail(old.todo)
<1>10. /\ Shaped(rest) /\ Unput(rest)
       /\ Closing(s) \/ SetsStatus(s) => \A i \in 1..Len(rest) : ~SetsStatus(rest[i])
       /\ SetsStatus(s) => \E i \in 1..Len(rest) : Follows(s, rest[i])
  BY <1>1, <1>2, <1>3, ShapedTail DEF Tended
<1>11. CASE s.what # "status"
  <2>1. ~Closing(s) /\ ~SetsStatus(s)
    BY <1>2, <1>11 DEF Closing, SetsStatus, PutsStatus
  <2>2. \A c \in DOMAIN t.rows : t.rows[c].status = Seen(old, c).status
    BY <1>6, <1>7, <1>9, <1>11 DEF Seen
  <2>3. DOMAIN old.rows \subseteq DOMAIN t.rows
    BY <1>7
  <2>4. Tended(t)
    BY <1>1, <1>2, <1>7, <2>1, <2>2, <2>3, SameStatuses
  <2> QED
    BY <1>8, <2>4, FamiliesLocal
<1>12. CASE SetsStatus(s)
  <2>1. \A c \in DOMAIN old.rows : old.rows[c].status = row[c].status
    BY <1>1, <1>3, <1>12 DEF Tended, Fresh
  <2>2. Fresh(t)
    BY <1>7, <1>10, <1>12 DEF Fresh
  <2>3. ASSUME NEW c \in DOMAIN t.rows, Ends(t, c)
        PROVE  LookedAt(t, c)
    <3>1. c = e
      BY <1>7, <2>1, <2>3 DEF Ends
    <3>2. s.to = "ended"
      BY <1>6, <1>7, <1>12, <2>3, <3>1 DEF Ends, SetsStatus
    <3>3. PICK i \in 1..Len(rest) : Follows(s, rest[i])
      BY <1>10, <1>12
    <3> QED
      BY <1>7, <3>1, <3>2, <3>3 DEF LookedAt, Follows, e
  <2>4. Tended(t)
    BY <1>7, <1>10, <2>2, <2>3 DEF Tended
  <2> QED
    BY <1>8, <2>4, FamiliesLocal
<1>13. CASE PutsStatus(s)
  <2>1. s.to = "open" /\ r.status = "open"
    BY <1>1, <1>3, <1>6, <1>13 DEF Tended, Shaped, PutsStatus
  <2>2. Fresh(t)
    BY <1>7, <1>10, <1>13 DEF Fresh, Closing
  <2>3. ASSUME NEW c \in DOMAIN t.rows, Ends(t, c), Parent[c] # None
        PROVE  LookedAt(t, c)
    <3>1. c # e /\ c \in DOMAIN old.rows /\ Ends(old, c)
      BY <1>7, <2>1, <2>3 DEF Ends
    <3>2. LookedAt(old, c)
      BY <1>1, <2>3, <3>1 DEF Tended
    <3>3. ASSUME NEW i \in 1..Len(old.todo), old.todo[i].op = "propagate"
          PROVE  i - 1 \in 1..Len(rest) /\ rest[i - 1] = old.todo[i]
      <4>1. i # 1
        BY <1>2, <1>3, <3>3
      <4> QED
        BY <1>2, <1>3, <4>1, HeadTailProperties, LenProperties
    <3>4. CASE \E i \in 1..Len(old.todo) : /\ old.todo[i].op = "propagate"
                                           /\ old.todo[i].case = c /\ old.todo[i].to = "ended"
      BY <1>7, <3>3, <3>4 DEF LookedAt
    <3>5. CASE \E d \in ChildrenOf(Parent[c]) : Seen(old, d).status # "ended"
      BY <1>9, <2>1, <3>5 DEF LookedAt
    <3>6. CASE Seen(old, Parent[c]).status # "pending_subcase"
      BY <1>9, <2>1, <3>6 DEF LookedAt
    <3>7. CASE \E i \in 1..Len(old.todo) : PutsStatus(old.todo[i]) /\ old.todo[i].case = Parent[c]
      <4>1. Parent[c] = e
        BY <1>1, <1>3, <3>7 DEF Tended, Shaped, e
      <4> QED
        BY <1>9, <2>1, <4>1 DEF LookedAt
    <3> QED
      BY <3>2, <3>4, <3>5, <3>6, <3>7 DEF LookedAt
  <2>4. Tended(t)
    BY <1>7, <1>10, <2>2, <2>3 DEF Tended
  <2> QED
    BY <1>8, <2>4, FamiliesLocal
<1> QED
  BY <1>2, <1>11, <1>12, <1>13 DEF SetsStatus, PutsStatus

(* propagate_status_change: the parent is opened, waits for another        *)
(* sub-case, or does not wait.                                             *)
LEMMA FamiliesPropagate ==
  ASSUME IInv, Families, NEW w \in Workers, Propagate(w)
  PROVE  Families'
<1> DEFINE s == Now(w)
           p == Parent[s.case]
           old == tx[w]
           rest == Tail(old.todo)
           frees == /\ s.to = "ended"
                    /\ p # None
                    /\ \A d \in ChildrenOf(p) : Visible(w, d).status = "ended"
                    /\ Visible(w, p).status = "pending_subcase"
           put == Statement("put", p, "status", "open")
           todo == IF frees THEN <<put>> \o rest ELSE rest
           t == [old EXCEPT !.todo = todo]
<1>1. old \in Transaction /\ Tended(old)
  BY DEF IInv, TypeOK, Families
<1>2. old.todo # <<>> /\ s = Head(old.todo) /\ s.op = "propagate"
  BY DEF Propagate, Doing, Now
<1>3. /\ s \in Statements /\ s = old.todo[1] /\ old.todo \in Seq(Statements)
      /\ rest \in Seq(Statements) /\ Len(rest) = Len(old.todo) - 1
      /\ \A i \in 1..Len(rest) : rest[i] = old.todo[i + 1]
      /\ Len(old.todo) \in Nat /\ Len(old.todo) # 0 /\ Len(rest) \in Nat
  BY <1>1, <1>2, Fields, HeadTailProperties, LenProperties, EmptySeq
<1>4. Shaped(rest) /\ Unput(rest) /\ \A i \in 1..Len(rest) : ~SetsStatus(rest[i])
  BY <1>1, <1>2, <1>3, ShapedTail DEF Tended, Closing
<1>5. tx' = [tx EXCEPT ![w] = t] /\ row' = row
  BY <1>1 DEF Propagate, Unchanged, IInv, TypeOK, Transaction
<1>6. t.todo = todo /\ t.rows = old.rows
  BY <1>1 DEF Transaction
<1>7. \A c : Seen(t, c) = Seen(old, c) /\ Seen(old, c) = Visible(w, c)
  BY <1>6 DEF Seen, Visible, Locked
<1> HIDE DEF t, old, rest
<1>8. s.case \in Cases
  BY <1>2, <1>3 DEF Statements, Updates
<1>9. /\ \A i \in 1..Len(todo) : ~SetsStatus(todo[i])
      /\ \A i \in 1..Len(todo) : PutsStatus(todo[i]) => i = 1 /\ todo[i].to = "open"
      /\ \A i \in 1..Len(rest) : \E j \in 1..Len(todo) : todo[j] = rest[i]
      /\ frees => \E i \in 1..Len(todo) : PutsStatus(todo[i]) /\ todo[i].case = p
  <2>1. CASE frees
    <3>1. put.op = "put" /\ put.what = "status" /\ put.to = "open" /\ put.case = p
      BY DEF Statement
    <3>2. put \in Statements
      BY <1>8, <2>1, <3>1 DEF Statement, Statements, Updates, Statuses
    <3> HIDE DEF put, frees
    <3>3. /\ Len(<<put>>) = 1 /\ <<put>>[1] = put
          /\ Len(<<put>> \o rest) = 1 + Len(rest)
          /\ \A i \in 1..(1 + Len(rest)) :
               (<<put>> \o rest)[i] = IF i <= 1 THEN <<put>>[i] ELSE rest[i - 1]
      BY <1>3, <3>2, ConcatProperties
    <3>4. todo = <<put>> \o rest
      BY <2>1
    <3> HIDE DEF todo
    <3>5. Len(todo) = 1 + Len(rest) /\ todo[1] = put /\ 1 \in 1..Len(todo)
      BY <1>3, <3>3, <3>4
    <3>6. \A i \in 1..Len(todo) : i # 1 => i - 1 \in 1..Len(rest) /\ todo[i] = rest[i - 1]
      BY <1>3, <3>3, <3>4
    <3>7. \A i \in 1..Len(rest) : i + 1 \in 1..Len(todo) /\ todo[i + 1] = rest[i]
      <4> SUFFICES ASSUME NEW i \in 1..Len(rest)
                   PROVE  i + 1 \in 1..Len(todo) /\ todo[i + 1] = rest[i]
        OBVIOUS
      <4>1. i + 1 \in 1..Len(todo) /\ i + 1 # 1 /\ (i + 1) - 1 = i
        BY <1>3, <3>5
      <4> QED
        BY <3>6, <4>1
    <3>8. ~SetsStatus(put) /\ PutsStatus(put)
      BY <3>1 DEF SetsStatus, PutsStatus
    <3> QED
      BY <1>4, <3>1, <3>5, <3>6, <3>7, <3>8 DEF Unput
  <2>2. CASE ~frees
    BY <1>4, <2>2 DEF Unput
  <2> QED
    BY <2>1, <2>2
<1> HIDE DEF frees, todo, put
<1>10. Shaped(t.todo) /\ Fresh(t)
  BY <1>6, <1>9 DEF Shaped, Fresh
<1>11. ASSUME NEW c \in DOMAIN t.rows, Ends(t, c), Parent[c] # None
       PROVE  LookedAt(t, c)
  <2>1. LookedAt(old, c)
    BY <1>1, <1>6, <1>11 DEF Tended, Ends
  <2>2. CASE s.case = c /\ s.to = "ended"
    <3>1. CASE frees
      BY <1>6, <1>9, <2>2, <3>1 DEF LookedAt
    <3>2. CASE ~frees
      BY <1>7, <1>11, <2>2, <3>2 DEF LookedAt, frees
    <3> QED
      BY <3>1, <3>2
  <2>3. ASSUME ~(s.case = c /\ s.to = "ended"), NEW i \in 1..Len(old.todo),
               old.todo[i].op = "propagate", old.todo[i].case = c, old.todo[i].to = "ended"
        PROVE  LookedAt(t, c)
    <3>1. i # 1
      BY <1>3, <2>3
    <3>2. i - 1 \in 1..Len(rest) /\ rest[i - 1] = old.todo[i]
      BY <1>3, <3>1
    <3>3. \E j \in 1..Len(todo) : todo[j] = old.todo[i]
      BY <1>9, <3>2
    <3> QED
      BY <1>6, <2>3, <3>3 DEF LookedAt
  <2>4. ASSUME NEW i \in 1..Len(old.todo), PutsStatus(old.todo[i])
        PROVE  FALSE
    <3>1. old.todo[i] = s
      BY <1>1, <1>3, <2>4 DEF Tended, Shaped
    <3> QED
      BY <1>2, <2>4, <3>1 DEF PutsStatus
  <2> QED
    BY <1>7, <2>1, <2>2, <2>3, <2>4 DEF LookedAt
<1>12. Tended(t)
  BY <1>10, <1>11 DEF Tended
<1> QED
  BY <1>5, <1>12, FamiliesLocal

(* Numbering, appending and placing a hold touch no row.                   *)
LEMMA FamiliesOthers ==
  ASSUME IInv, Families, NEW w \in Workers, ReadSeq(w) \/ AppendEvent(w) \/ PlaceHold(w)
  PROVE  Families'
<1>1. tx[w] \in Transaction /\ Tended(tx[w])
  BY DEF IInv, TypeOK, Families
<1>2. row' = row
  BY DEF ReadSeq, AppendEvent, PlaceHold, Unchanged
<1>3. ASSUME NEW t, tx' = [tx EXCEPT ![w] = t], tx[w].todo # <<>>,
             Head(tx[w].todo).op \in {"event", "hold"},
             t.todo = Tail(tx[w].todo), t.rows = tx[w].rows
      PROVE  Families'
  <2>1. ~Closing(Head(tx[w].todo)) /\ ~SetsStatus(Head(tx[w].todo))
    BY <1>3 DEF Closing, SetsStatus, PutsStatus
  <2>2. \A c \in DOMAIN t.rows : t.rows[c].status = Seen(tx[w], c).status
    BY <1>3 DEF Seen
  <2>3. Tended(t)
    BY <1>1, <1>3, <2>1, <2>2, SameStatuses
  <2> QED
    BY <1>2, <1>3, <2>3, FamiliesLocal
<1>4. CASE ReadSeq(w)
  <2> DEFINE t == [tx[w] EXCEPT !.seq = NextSeq(w, Now(w).case)]
  <2>1. tx' = [tx EXCEPT ![w] = t] /\ t.todo = tx[w].todo /\ t.rows = tx[w].rows
    BY <1>1, <1>4 DEF ReadSeq, IInv, TypeOK, Transaction
  <2> HIDE DEF t
  <2>2. Tended(t)
    BY <1>1, <2>1 DEF Tended, Fresh, Ends, LookedAt, Seen
  <2> QED
    BY <1>2, <2>1, <2>2, FamiliesLocal
<1>5. CASE AppendEvent(w)
  <2> DEFINE s == Now(w)
             e == [case |-> s.case, seq |-> tx[w].seq, type |-> s.what, to |-> s.to]
             t == [[tx[w] EXCEPT !.todo = Tail(tx[w].todo), !.seq = 0]
                     EXCEPT !.events = tx[w].events \cup {e}]
  <2>1. Doing(w, "event") /\ tx[w].seq # 0
    BY <1>5 DEF AppendEvent
  <2>2. ~Taken(s.case, tx[w].seq, events)
    BY <2>1, NumberIsFree DEF Taken
  <2>3. tx' = [tx EXCEPT ![w] = t]
    BY <1>5, <2>2 DEF AppendEvent
  <2> HIDE DEF e
  <2>4. t.todo = Tail(tx[w].todo) /\ t.rows = tx[w].rows
    BY <1>1 DEF Transaction
  <2> HIDE DEF t
  <2>5. tx[w].todo # <<>> /\ Head(tx[w].todo).op = "event"
    BY <2>1 DEF Doing, Now
  <2> QED
    BY <1>3, <2>3, <2>4, <2>5
<1>6. CASE PlaceHold(w)
  <2> DEFINE c == Now(w).case
             t == [tx[w] EXCEPT !.todo = Tail(tx[w].todo), !.held = {c}]
  <2>1. CASE tx' = [tx EXCEPT ![w] = Idle]
    BY <1>2, <2>1, IdleTended, FamiliesLocal
  <2>2. CASE tx' = [tx EXCEPT ![w] = t]
    <3>1. t.todo = Tail(tx[w].todo) /\ t.rows = tx[w].rows
      BY <1>1 DEF Transaction
    <3>2. tx[w].todo # <<>> /\ Head(tx[w].todo).op = "hold"
      BY <1>6 DEF PlaceHold, Doing, Now
    <3> HIDE DEF t
    <3> QED
      BY <1>3, <2>2, <3>1, <3>2
  <2> QED
    BY <1>6, <2>1, <2>2 DEF PlaceHold
<1> QED
  BY <1>4, <1>5, <1>6

(* A commit changes no case of a family another transaction writes to.     *)
LEMMA FamiliesCommit ==
  ASSUME IInv, Families, Apart, NEW w \in Workers, Commit(w)
  PROVE  Families'
<1>1. tx'[w] = Idle /\ \A v \in Workers \ {w} : tx'[v] = tx[v]
  BY DEF Commit, IInv, TypeOK
<1>2. \A c \in Cases : c \notin Locked(w) => row'[c] = row[c]
  BY DEF Commit, Visible
<1>3. ASSUME NEW v \in Workers PROVE Tended(tx[v])'
  <2>1. CASE v = w
    <3>1. tx'[v] = Idle /\ Idle.rows = <<>> /\ Idle.todo = <<>>
      BY <1>1, <2>1 DEF Idle, Clean
    <3> HIDE DEF Idle
    <3>2. DOMAIN tx'[v].rows = {} /\ tx'[v].todo = <<>>
      BY <3>1
    <3> QED
      BY <3>2 DEF Tended, Fresh, Shaped
  <2>2. CASE v # w
    <3> DEFINE t == tx[v]
    <3>1. tx'[v] = t /\ Tended(t) /\ t \in Transaction
      BY <1>1, <2>2 DEF Families, IInv, TypeOK
    <3>2. ASSUME NEW c \in DOMAIN t.rows
          PROVE  c \in Cases /\ row'[c] = row[c]
      <4>1. c \in Cases
        BY <3>1, Fields
      <4>2. c \notin Locked(w)
        BY <2>2 DEF IInv, Exclusive, Locked
      <4> QED
        BY <1>2, <4>1, <4>2
    <3>3. ASSUME NEW c \in DOMAIN t.rows, Parent[c] # None, NEW d \in Kin(Parent[c])
          PROVE  (IF d \in DOMAIN t.rows THEN t.rows[d] ELSE row'[d]) = Seen(t, d)
      <4>1. c \in Cases /\ Parent[c] \in Cases /\ c \in Kin(Parent[c]) /\ d \in Cases
        BY <3>2, <3>3 DEF Kin, ChildrenOf
      <4>2. d \notin Locked(w)
        BY <2>2, <3>3, <4>1 DEF Apart, Locked
      <4> QED
        BY <1>2, <4>1, <4>2 DEF Seen
    <3>4. ASSUME NEW c \in DOMAIN t.rows, t.rows[c].status = "ended", row'[c].status # "ended",
                 Parent[c] # None
          PROVE  \/ \E i \in 1..Len(t.todo) : /\ t.todo[i].op = "propagate"
                                              /\ t.todo[i].case = c /\ t.todo[i].to = "ended"
                 \/ \E d \in ChildrenOf(Parent[c]) :
                      (IF d \in DOMAIN t.rows THEN t.rows[d] ELSE row'[d]).status # "ended"
                 \/ (IF Parent[c] \in DOMAIN t.rows THEN t.rows[Parent[c]]
                     ELSE row'[Parent[c]]).status # "pending_subcase"
                 \/ \E i \in 1..Len(t.todo) : PutsStatus(t.todo[i]) /\ t.todo[i].case = Parent[c]
      <4>1. LookedAt(t, c)
        BY <3>1, <3>2, <3>4 DEF Tended, Ends
      <4>2. Parent[c] \in Kin(Parent[c]) /\ ChildrenOf(Parent[c]) \subseteq Kin(Parent[c])
        BY DEF Kin
      <4> QED
        BY <3>3, <3>4, <4>1, <4>2 DEF LookedAt
    <3>5. Shaped(t.todo)
      BY <3>1 DEF Tended
    <3>6. (\E i \in 1..Len(t.todo) : SetsStatus(t.todo[i])) =>
            \A c \in DOMAIN t.rows : t.rows[c].status = row'[c].status
      BY <3>1, <3>2 DEF Tended, Fresh
    <3> HIDE DEF t
    <3> QED
      BY <3>1, <3>4, <3>5, <3>6 DEF Tended, Fresh, Ends, LookedAt, Seen
  <2> QED
    BY <2>1, <2>2
<1> QED
  BY <1>3 DEF Families

LEMMA FamiliesStep ==
  ASSUME IInv, Families, Apart, "escalate" \notin Kinds, [Next]_vars
  PROVE  Families'
<1>1. ASSUME NEW w \in Workers, Begin(w) PROVE Families'
  BY <1>1, FamiliesBegin
<1>2. ASSUME NEW w \in Workers, Step(w) PROVE Families'
  BY <1>2, FamiliesUpdate, FamiliesPropagate, FamiliesOthers, FamiliesCommit DEF Step
<1>3. ASSUME NEW w \in Workers, Abort(w) PROVE Families'
  BY <1>3, IdleTended, FamiliesLocal DEF Abort, Unchanged
<1>4. CASE UNCHANGED vars
  <2>1. tx' = tx /\ row' = row
    BY <1>4 DEF vars
  <2> QED
    BY <2>1 DEF Families, Tended, Fresh, Ends, LookedAt, Seen
<1> QED
  BY <1>1, <1>2, <1>3, <1>4 DEF Next, Quiet

(* Nothing is left to be looked at when a transaction commits.             *)
LEMMA ParentSeen ==
  ASSUME IInv, Families, [Next]_vars, NEW p \in Cases,
         ~AllEnded(p), AllEnded(p)', row[p].status = "pending_subcase"
  PROVE  row'[p].status # "pending_subcase"
<1>1. PICK c \in ChildrenOf(p) : row[c].status # "ended"
  BY DEF AllEnded
<1>2. \A d \in ChildrenOf(p) : row'[d].status = "ended"
  BY DEF AllEnded
<1>3. c \in Cases /\ Parent[c] = p /\ Parent[c] # None
  BY <1>1 DEF ChildrenOf
<1>4. row' # row
  BY <1>1, <1>2
<1>5. PICK w \in Workers : Commit(w)
  BY <1>4 DEF Next, vars, Quiet, Begin, Step, Abort, Unchanged, Update, ReadSeq, AppendEvent,
              Propagate, PlaceHold
<1>6. \A d \in Cases : row'[d] = Seen(tx[w], d)
  BY <1>5 DEF Commit, Visible, Seen, Locked
<1>7. tx[w].todo = <<>>
  BY <1>5 DEF Commit
<1>8. c \in DOMAIN tx[w].rows /\ Ends(tx[w], c)
  BY <1>1, <1>2, <1>3, <1>6 DEF Seen, Ends
<1>9. LookedAt(tx[w], c)
  BY <1>3, <1>8 DEF Families, Tended
<1>10. \A d \in ChildrenOf(p) : Seen(tx[w], d).status = "ended"
  BY <1>2, <1>6 DEF ChildrenOf
<1>11. 1..Len(tx[w].todo) = {}
  BY <1>7
<1> QED
  BY <1>3, <1>6, <1>9, <1>10, <1>11 DEF LookedAt

(* Without escalations, which end a case behind its parent's back, and     *)
(* with no two transactions in one family, no parent waits for sub-cases   *)
(* that have all ended: the overlap that the run siblings shows is the     *)
(* only way propagate_status_change can miss the last one.                 *)
THEOREM ParentIsFreed ==
  ASSUME "escalate" \notin Kinds
  PROVE  Spec /\ []Apart => ParentFreed
<1>1. Init => Families
  BY IdleTended DEF Init, Families
<1>2. IInv /\ Families /\ Apart /\ [Next]_vars => Families'
  BY FamiliesStep
<1>3. IInv /\ Families /\ [Next]_vars =>
        [\A p \in Cases :
           ~AllEnded(p) /\ AllEnded(p)' /\ row[p].status = "pending_subcase" =>
             row'[p].status # "pending_subcase"]_vars
  BY ParentSeen
<1> QED
  BY <1>1, <1>2, <1>3, TransactionsInvariant, PTL DEF Spec, ParentFreed

-----------------------------------------------------------------------------
(* Which kind of request makes which statement: only a delete writes       *)
(* is_deleted, and only three kinds write around the chokepoints.          *)
MadeBy(kind, s) ==
  /\ s.what = "is_deleted" => kind = "delete"
  /\ s.op = "put" => \/ kind \in {"move", "escalate"}
                     \/ kind = "delete" /\ s.what = "is_deleted"
AllMadeBy(kind, todo) == \A i \in 1..Len(todo) : MadeBy(kind, todo[i])

LEMMA MadeByConcat ==
  ASSUME NEW kind, NEW a \in Seq(Statements), NEW b \in Seq(Statements),
         AllMadeBy(kind, a), AllMadeBy(kind, b)
  PROVE  AllMadeBy(kind, a \o b)
<1> DEFINE ab == a \o b
<1>1. Len(a) \in Nat /\ Len(b) \in Nat
  BY LenProperties
<1>2. /\ Len(ab) = Len(a) + Len(b)
      /\ \A i \in 1..(Len(a) + Len(b)) : ab[i] = IF i <= Len(a) THEN a[i] ELSE b[i - Len(a)]
  BY ConcatProperties
<1> HIDE DEF ab
<1>3. ASSUME NEW i \in 1..Len(ab)
      PROVE  \/ i \in 1..Len(a) /\ ab[i] = a[i]
             \/ i - Len(a) \in 1..Len(b) /\ ab[i] = b[i - Len(a)]
  BY <1>1, <1>2
<1> HIDE DEF MadeBy
<1>4. AllMadeBy(kind, ab)
  BY <1>3 DEF AllMadeBy
<1> QED
  BY <1>4 DEF ab

LEMMA EntryMadeBy ==
  ASSUME NEW kind, NEW c \in Cases, NEW entry \in OnEnter(c)
  PROVE  entry \in Seq(Statements) /\ AllMadeBy(kind, entry)
<1>1. ASSUME NEW to \in Statuses PROVE AllMadeBy(kind, ChangeStatus(c, to))
  <2> DEFINE s1 == Statement("set", c, "status", to)
             s2 == Statement("event", c, "status", to)
             s3 == Statement("propagate", c, "status", to)
             all == <<s1, s2, s3>>
  <2>1. MadeBy(kind, s1) /\ MadeBy(kind, s2) /\ MadeBy(kind, s3)
    BY DEF Statement, MadeBy
  <2> HIDE DEF s1, s2, s3, MadeBy
  <2>2. Len(all) = 3 /\ all[1] = s1 /\ all[2] = s2 /\ all[3] = s3
    OBVIOUS
  <2>3. \A i \in 1..3 : i = 1 \/ i = 2 \/ i = 3
    OBVIOUS
  <2> HIDE DEF all
  <2>4. AllMadeBy(kind, all)
    BY <2>1, <2>2, <2>3 DEF AllMadeBy
  <2> QED
    BY <2>4 DEF all, s1, s2, s3, ChangeStatus
<1>2. CASE entry = <<>>
  BY <1>2, EntryStatements DEF AllMadeBy
<1>3. CASE \E to \in Statuses : entry = ChangeStatus(c, to)
  BY <1>1, <1>3, EntryStatements
<1> QED
  BY <1>2, <1>3 DEF OnEnter

LEMMA RequestMadeBy ==
  ASSUME NEW kind \in AllKinds, NEW c \in Cases, NEW todo \in Requests(kind, c)
  PROVE  AllMadeBy(kind, todo)
<1>1. CASE kind = "status"
  <2>1. Requests(kind, c) = {ChangeStatus(c, to) : to \in Statuses}
    BY <1>1 DEF Requests
  <2>2. todo \in OnEnter(c)
    BY <2>1 DEF OnEnter
  <2> QED
    BY <2>2, EntryMadeBy
<1>2. CASE kind = "enter"
  <2>1. Requests(kind, c) = UNION {EnterStage(c, s) : s \in Stages}
    BY <1>2 DEF Requests
  <2>2. PICK s \in Stages : todo \in EnterStage(c, s)
    BY <2>1
  <2> DEFINE s1 == Statement("set", c, "stage", s)
             s2 == Statement("event", c, "stage", s)
             s3 == Statement("event", c, "assigned", "none")
  <2>3. PICK entry \in OnEnter(c) : todo = <<s1, s2>> \o entry \o <<s3>>
    BY <2>2 DEF EnterStage
  <2>4. s1 \in Statements /\ s2 \in Statements /\ s3 \in Statements
    BY DEF Statement, Statements, Updates, EventTypes, Values
  <2>5. MadeBy(kind, s1) /\ MadeBy(kind, s2) /\ MadeBy(kind, s3)
    BY DEF Statement, MadeBy
  <2> HIDE DEF s1, s2, s3, MadeBy
  <2>6. <<s1, s2>> \in Seq(Statements) /\ AllMadeBy(kind, <<s1, s2>>)
    <3>1. Len(<<s1, s2>>) = 2 /\ <<s1, s2>>[1] = s1 /\ <<s1, s2>>[2] = s2
      OBVIOUS
    <3>2. \A i \in 1..2 : i = 1 \/ i = 2
      OBVIOUS
    <3> QED
      BY <2>4, <2>5, <3>1, <3>2 DEF AllMadeBy
  <2>7. <<s3>> \in Seq(Statements) /\ AllMadeBy(kind, <<s3>>)
    BY <2>4, <2>5 DEF AllMadeBy
  <2> DEFINE front == <<s1, s2>> \o entry
  <2>8. front \in Seq(Statements) /\ AllMadeBy(kind, front)
    BY <2>6, EntryMadeBy, MadeByConcat, ConcatProperties
  <2>9. todo = front \o <<s3>>
    BY <2>3
  <2> HIDE DEF front
  <2> QED
    BY <2>7, <2>8, <2>9, MadeByConcat
<1>3. CASE kind = "move"
  <2>1. Requests(kind, c) = UNION {MoveStage(c, s) : s \in Stages}
    BY <1>3 DEF Requests
  <2>2. PICK s \in Stages : todo \in MoveStage(c, s)
    BY <2>1
  <2> DEFINE s1 == Statement("put", c, "stage", s)
  <2>3. PICK entry \in OnEnter(c) : todo = <<s1>> \o entry
    BY <2>2 DEF MoveStage
  <2>4. s1 \in Statements /\ MadeBy(kind, s1)
    BY <1>3 DEF Statement, Statements, Updates, MadeBy
  <2> HIDE DEF s1, MadeBy
  <2>5. <<s1>> \in Seq(Statements) /\ AllMadeBy(kind, <<s1>>)
    BY <2>4 DEF AllMadeBy
  <2> QED
    BY <2>3, <2>5, EntryMadeBy, MadeByConcat
<1>4. ASSUME NEW s, MadeBy(kind, s), todo = <<s>>
      PROVE  AllMadeBy(kind, todo)
  BY <1>4 DEF AllMadeBy
<1>5. CASE kind = "escalate"
  <2>1. Requests(kind, c) = {<<Statement("put", c, "status", to)>> : to \in Statuses}
    BY <1>5 DEF Requests
  <2>2. PICK to \in Statuses : todo = <<Statement("put", c, "status", to)>>
    BY <2>1
  <2>3. MadeBy(kind, Statement("put", c, "status", to))
    BY <1>5 DEF Statement, MadeBy
  <2> QED
    BY <1>4, <2>2, <2>3
<1>6. CASE kind = "delete"
  <2>1. todo = <<Statement("put", c, "is_deleted", "yes")>>
    BY <1>6 DEF Requests
  <2>2. MadeBy(kind, Statement("put", c, "is_deleted", "yes"))
    BY <1>6 DEF Statement, MadeBy
  <2> QED
    BY <1>4, <2>1, <2>2
<1>7. CASE kind = "hold"
  <2>1. todo = <<Statement("hold", c, "status", "none")>>
    BY <1>7 DEF Requests
  <2>2. MadeBy(kind, Statement("hold", c, "status", "none"))
    BY DEF Statement, MadeBy
  <2> QED
    BY <1>4, <2>1, <2>2
<1> QED
  BY <1>1, <1>2, <1>3, <1>5, <1>6, <1>7 DEF AllKinds

(* What a step that commits nothing does to a transaction, whatever the    *)
(* statement is: it has less to do, but for a parent that is freed, and    *)
(* what it has newly written was one of its statements.                    *)
Frees(s) == s.op = "put" /\ s.what = "status" /\ ChildrenOf(s.case) # {}

Moved(old, t) ==
  /\ \A i \in 1..Len(t.todo) :
       Frees(t.todo[i]) \/ \E j \in 1..Len(old.todo) : t.todo[i] = old.todo[j]
  /\ \A c \in DOMAIN t.rows :
       \/ t.rows[c].is_deleted = Seen(old, c).is_deleted
       \/ \E j \in 1..Len(old.todo) : old.todo[j].case = c /\ old.todo[j].what = "is_deleted"
  /\ \A p \in t.around :
       \/ p \in old.around
       \/ \E j \in 1..Len(old.todo) :
            old.todo[j].op = "put" /\ p = <<old.todo[j].case, old.todo[j].what>>

LEMMA TailMoves ==
  ASSUME NEW todo \in Seq(Statements), todo # <<>>
  PROVE  /\ \A i \in 1..Len(Tail(todo)) : \E j \in 1..Len(todo) : Tail(todo)[i] = todo[j]
         /\ 1 \in 1..Len(todo) /\ Head(todo) = todo[1] /\ Head(todo) \in Statements
<1>1. /\ Len(Tail(todo)) = Len(todo) - 1
      /\ \A i \in 1..Len(Tail(todo)) : Tail(todo)[i] = todo[i + 1]
      /\ Len(todo) \in Nat /\ Len(todo) # 0 /\ Head(todo) = todo[1] /\ Head(todo) \in Statements
  BY HeadTailProperties, LenProperties, EmptySeq
<1>2. \A i \in 1..Len(Tail(todo)) : i + 1 \in 1..Len(todo)
  BY <1>1
<1> QED
  BY <1>1, <1>2

LEMMA LocalMoves ==
  ASSUME IInv, NEW w \in Workers,
         \/ Update(w) \/ ReadSeq(w) \/ AppendEvent(w) \/ Propagate(w) \/ PlaceHold(w)
         \/ Abort(w)
  PROVE  \E t : /\ tx' = [tx EXCEPT ![w] = t] /\ Moved(tx[w], t)
                /\ UNCHANGED <<row, events, held, bypassed>>
<1> DEFINE old == tx[w]
           s == Now(w)
           Goal == \E t : /\ tx' = [tx EXCEPT ![w] = t] /\ Moved(old, t)
                          /\ UNCHANGED <<row, events, held, bypassed>>
<1>1. old \in Transaction /\ old.todo \in Seq(Statements)
  BY Fields DEF IInv, TypeOK
<1>2. UNCHANGED <<row, events, held, bypassed>>
  BY DEF Update, ReadSeq, AppendEvent, Propagate, PlaceHold, Abort, Unchanged
<1>3. ASSUME NEW t, tx' = [tx EXCEPT ![w] = t], t.rows = old.rows, t.around = old.around,
             \A i \in 1..Len(t.todo) :
               Frees(t.todo[i]) \/ \E j \in 1..Len(old.todo) : t.todo[i] = old.todo[j]
      PROVE  Goal
  BY <1>2, <1>3 DEF Moved, Seen
<1>4. CASE tx' = [tx EXCEPT ![w] = Idle]
  <2>1. Idle.todo = <<>> /\ Idle.rows = <<>> /\ Idle.around = {}
    BY DEF Idle, Clean
  <2> HIDE DEF Idle
  <2>2. 1..Len(Idle.todo) = {} /\ DOMAIN Idle.rows = {}
    BY <2>1
  <2> QED
    BY <1>2, <1>4, <2>1, <2>2 DEF Moved
<1>5. CASE ReadSeq(w)
  <2> DEFINE t == [old EXCEPT !.seq = NextSeq(w, s.case)]
  <2>1. tx' = [tx EXCEPT ![w] = t] /\ t.todo = old.todo /\ t.rows = old.rows
        /\ t.around = old.around
    BY <1>1, <1>5 DEF ReadSeq, IInv, TypeOK, Transaction
  <2> HIDE DEF t
  <2> QED
    BY <1>3, <2>1
<1>6. CASE AppendEvent(w)
  <2> DEFINE e == [case |-> s.case, seq |-> old.seq, type |-> s.what, to |-> s.to]
             t == [[old EXCEPT !.todo = Tail(old.todo), !.seq = 0]
                     EXCEPT !.events = old.events \cup {e}]
  <2>1. Doing(w, "event") /\ old.seq # 0
    BY <1>6 DEF AppendEvent
  <2>2. ~Taken(s.case, old.seq, events)
    BY <2>1, NumberIsFree DEF Taken
  <2>3. tx' = [tx EXCEPT ![w] = t]
    BY <1>6, <2>2 DEF AppendEvent
  <2> HIDE DEF e
  <2>4. t.todo = Tail(old.todo) /\ t.rows = old.rows /\ t.around = old.around
    BY <1>1 DEF Transaction
  <2> HIDE DEF t
  <2>5. old.todo # <<>>
    BY <2>1 DEF Doing
  <2> DEFINE rest == Tail(old.todo)
  <2>6. \A i \in 1..Len(rest) : \E j \in 1..Len(old.todo) : rest[i] = old.todo[j]
    BY <1>1, <2>5, TailMoves
  <2> HIDE DEF rest
  <2>7. \A i \in 1..Len(t.todo) :
          Frees(t.todo[i]) \/ \E j \in 1..Len(old.todo) : t.todo[i] = old.todo[j]
    BY <2>4, <2>6 DEF rest
  <2> HIDE DEF Frees
  <2> QED
    BY <1>3, <2>3, <2>4, <2>7
<1>7. CASE PlaceHold(w)
  <2> DEFINE t == [old EXCEPT !.todo = Tail(old.todo), !.held = {s.case}]
  <2>1. old.todo # <<>> /\ (tx' = [tx EXCEPT ![w] = Idle] \/ tx' = [tx EXCEPT ![w] = t])
    BY <1>7 DEF PlaceHold, Doing
  <2>2. t.todo = Tail(old.todo) /\ t.rows = old.rows /\ t.around = old.around
    BY <1>1 DEF Transaction
  <2> HIDE DEF t
  <2>3. \A i \in 1..Len(t.todo) : \E j \in 1..Len(old.todo) : t.todo[i] = old.todo[j]
    BY <1>1, <2>1, <2>2, TailMoves
  <2>4. tx' = [tx EXCEPT ![w] = t] => Goal
    BY <1>3, <2>2, <2>3
  <2> QED
    BY <1>4, <2>1, <2>4
<1>8. CASE Propagate(w)
  <2> DEFINE p == Parent[s.case]
             put == Statement("put", p, "status", "open")
             rest == Tail(old.todo)
             freed == <<put>> \o rest
  <2>1. old.todo # <<>> /\ s = Head(old.todo) /\ s.op = "propagate"
    BY <1>8 DEF Propagate, Doing, Now
  <2>2. /\ rest \in Seq(Statements) /\ s \in Statements
        /\ \A i \in 1..Len(rest) : \E j \in 1..Len(old.todo) : rest[i] = old.todo[j]
    BY <1>1, <2>1, TailMoves, HeadTailProperties
  <2>3. ASSUME NEW todo, tx' = [tx EXCEPT ![w].todo = todo],
               \A i \in 1..Len(todo) :
                 Frees(todo[i]) \/ \E j \in 1..Len(old.todo) : todo[i] = old.todo[j]
        PROVE  Goal
    <3> DEFINE t == [old EXCEPT !.todo = todo]
    <3>1. tx' = [tx EXCEPT ![w] = t] /\ t.todo = todo /\ t.rows = old.rows
          /\ t.around = old.around
      BY <1>1, <2>3 DEF IInv, TypeOK, Transaction
    <3> HIDE DEF t
    <3> QED
      BY <1>3, <2>3, <3>1
  <2>4. CASE tx' = [tx EXCEPT ![w].todo = rest]
    <3> HIDE DEF rest
    <3> QED
      BY <2>2, <2>3, <2>4
  <2>5. CASE p # None /\ tx' = [tx EXCEPT ![w].todo = freed]
    <3>1. s.case \in Cases /\ p \in Cases
      BY <2>1, <2>2, <2>5 DEF Statements, Updates
    <3>2. put \in Statements /\ Frees(put)
      BY <3>1 DEF Statement, Statements, Updates, Statuses, Frees, ChildrenOf
    <3> HIDE DEF put, rest
    <3>3. Len(<<put>>) = 1 /\ <<put>>[1] = put /\ <<put>> \in Seq(Statements)
      BY <3>2
    <3>4. /\ Len(freed) = 1 + Len(rest) /\ Len(rest) \in Nat
          /\ \A i \in 1..(1 + Len(rest)) : freed[i] = IF i <= 1 THEN <<put>>[i] ELSE rest[i - 1]
      BY <2>2, <3>3, ConcatProperties, LenProperties
    <3> HIDE DEF freed
    <3>5. ASSUME NEW i \in 1..Len(freed)
          PROVE  freed[i] = put \/ (i - 1 \in 1..Len(rest) /\ freed[i] = rest[i - 1])
      <4>1. CASE i = 1
        BY <3>3, <3>4, <4>1
      <4>2. CASE i # 1
        BY <3>4, <4>2
      <4> QED
        BY <4>1, <4>2
    <3>6. \A i \in 1..Len(freed) :
            Frees(freed[i]) \/ \E j \in 1..Len(old.todo) : freed[i] = old.todo[j]
      BY <2>2, <3>2, <3>5
    <3> QED
      BY <2>3, <2>5, <3>6
  <2> QED
    BY <1>8, <2>4, <2>5 DEF Propagate
<1>9. CASE Update(w)
  <2> DEFINE e == s.case
             r == [Visible(w, e) EXCEPT ![s.what] = s.to]
             t == [old EXCEPT
                     !.todo = Tail(old.todo),
                     !.rows = [c \in Locked(w) \cup {e} |-> IF c = e THEN r ELSE old.rows[c]],
                     !.around = IF s.op = "put" THEN old.around \cup {<<e, s.what>>}
                                                ELSE old.around \ {<<e, s.what>>}]
  <2>1. old.todo # <<>> /\ s = Head(old.todo) /\ s.op \in {"set", "put"}
    BY <1>9 DEF Update, Doing, Now
  <2>2. /\ s \in Statements /\ s = old.todo[1] /\ 1 \in 1..Len(old.todo)
        /\ \A i \in 1..Len(Tail(old.todo)) :
             \E j \in 1..Len(old.todo) : Tail(old.todo)[i] = old.todo[j]
    BY <1>1, <2>1, TailMoves
  <2>3. e \in Cases /\ s.what \in Columns
    BY <2>1, <2>2 DEF Statements, Updates, Columns
  <2>4. Visible(w, e) \in Row /\ Visible(w, e) = Seen(old, e)
    BY <1>1, <2>3, Fields DEF Visible, Seen, Locked, IInv, TypeOK
  <2>5. s.what # "is_deleted" => r.is_deleted = Seen(old, e).is_deleted
    BY <2>3, <2>4 DEF Row, Columns
  <2> HIDE DEF r
  <2>6. /\ t.todo = Tail(old.todo)
        /\ DOMAIN t.rows = DOMAIN old.rows \cup {e} /\ t.rows[e] = r
        /\ \A c \in DOMAIN old.rows : c # e => t.rows[c] = old.rows[c]
        /\ t.around = IF s.op = "put" THEN old.around \cup {<<e, s.what>>}
                                      ELSE old.around \ {<<e, s.what>>}
    BY <1>1 DEF Transaction, Locked
  <2>7. tx' = [tx EXCEPT ![w] = t]
    BY <1>9 DEF Update, r
  <2> HIDE DEF t
  <2>8. ASSUME NEW c \in DOMAIN t.rows
        PROVE  \/ t.rows[c].is_deleted = Seen(old, c).is_deleted
               \/ \E j \in 1..Len(old.todo) :
                    old.todo[j].case = c /\ old.todo[j].what = "is_deleted"
    <3>1. CASE c = e
      BY <2>2, <2>5, <2>6, <3>1
    <3>2. CASE c # e
      BY <2>6, <3>2 DEF Seen
    <3> QED
      BY <3>1, <3>2
  <2>9. ASSUME NEW p \in t.around
        PROVE  \/ p \in old.around
               \/ \E j \in 1..Len(old.todo) :
                    old.todo[j].op = "put" /\ p = <<old.todo[j].case, old.todo[j].what>>
    BY <2>2, <2>6
  <2>10. Moved(old, t)
    BY <2>2, <2>6, <2>8, <2>9 DEF Moved
  <2> QED
    BY <1>2, <2>7, <2>10
<1>10. CASE Abort(w)
  BY <1>4, <1>10 DEF Abort
<1> QED
  BY <1>5, <1>6, <1>7, <1>8, <1>9, <1>10

(* What a request has to do when it begins.                                *)
LEMMA BeginMakes ==
  ASSUME NEW w \in Workers, Begin(w)
  PROVE  \E kind \in Kinds, c \in Cases : \E t :
           /\ tx' = [tx EXCEPT ![w] = t]
           /\ t.rows = <<>> /\ t.around = {} /\ AllMadeBy(kind, t.todo)
           /\ \A i \in 1..Len(t.todo) : t.todo[i].case = c
           /\ kind = "delete" => c \notin held
<1>1. PICK kind \in Kinds, c \in Cases :
        /\ kind \in {"hold", "delete"} => c \notin held
        /\ \E todo \in Requests(kind, c) : tx' = [tx EXCEPT ![w] = Clean(TRUE, todo)]
  BY DEF Begin
<1>2. PICK todo \in Requests(kind, c) : tx' = [tx EXCEPT ![w] = Clean(TRUE, todo)]
  BY <1>1
<1> DEFINE t == Clean(TRUE, todo)
<1>3. t.rows = <<>> /\ t.around = {} /\ t.todo = todo
  BY DEF Clean
<1> HIDE DEF t
<1>4. AllMadeBy(kind, t.todo) /\ \A i \in 1..Len(t.todo) : t.todo[i].case = c
  BY <1>3, RequestMadeBy, RequestOpens DEF Opens
<1>5. tx' = [tx EXCEPT ![w] = t]
  BY <1>2 DEF t
<1> QED
  BY <1>1, <1>3, <1>4, <1>5

(* Every transaction afterwards is as it was, has moved, or begins.        *)
LEMMA EveryStep ==
  ASSUME IInv, [Next]_vars
  PROVE  \/ tx' = tx /\ UNCHANGED <<row, events, held, bypassed>>
         \/ \E w \in Workers : Commit(w)
         \/ \E w \in Workers : \E t :
              /\ tx' = [tx EXCEPT ![w] = t] /\ UNCHANGED <<row, events, held, bypassed>>
              /\ Moved(tx[w], t) \/ Begin(w)
<1>1. ASSUME NEW w \in Workers, Begin(w)
      PROVE  \E t : /\ tx' = [tx EXCEPT ![w] = t] /\ UNCHANGED <<row, events, held, bypassed>>
                    /\ Begin(w)
  BY <1>1 DEF Begin
<1> QED
  BY <1>1, LocalMoves DEF Next, vars, Quiet, Step

(* The legal hold.  A request that hides a case: it has written is_deleted *)
(* or will.                                                                *)
Hides(t, c) ==
  \/ c \in DOMAIN t.rows /\ t.rows[c].is_deleted = "yes" /\ row[c].is_deleted = "no"
  \/ \E i \in 1..Len(t.todo) : t.todo[i].case = c /\ t.todo[i].what = "is_deleted"

HeldNotHidden == \A w \in Workers, c \in held : ~Hides(tx[w], c)

(* No hold is inserted, and not yet committed, while its case is being     *)
(* deleted.                                                                *)
HoldsApart == \A v, w \in Workers, c \in Cases : c \in tx[v].held => ~Hides(tx[w], c)

LEMMA HeldStep ==
  ASSUME IInv, HeldNotHidden, HoldsApart, [Next]_vars
  PROVE  HeldNotHidden'
<1>1. tx \in [Workers -> Transaction] /\ row \in [Cases -> Row] /\ held \subseteq Cases
  BY DEF IInv, TypeOK
<1>2. CASE tx' = tx /\ UNCHANGED <<row, events, held, bypassed>>
  BY <1>2 DEF HeldNotHidden, Hides
<1>3. ASSUME NEW w \in Workers, NEW t, tx' = [tx EXCEPT ![w] = t],
             UNCHANGED <<row, events, held, bypassed>>, \A c \in held : ~Hides(t, c)
      PROVE  HeldNotHidden'
  <2>1. \A v \in Workers : tx'[v] = IF v = w THEN t ELSE tx[v]
    BY <1>1, <1>3
  <2>2. \A v \in Workers, c \in held : ~Hides(tx'[v], c)
    BY <1>3, <2>1 DEF HeldNotHidden
  <2> QED
    BY <1>3, <2>2 DEF HeldNotHidden, Hides
<1>4. ASSUME NEW w \in Workers, NEW t, tx' = [tx EXCEPT ![w] = t],
             UNCHANGED <<row, events, held, bypassed>>, Moved(tx[w], t)
      PROVE  HeldNotHidden'
  <2>1. ASSUME NEW c \in held, Hides(t, c)
        PROVE  FALSE
    <3>1. ASSUME NEW i \in 1..Len(tx[w].todo), tx[w].todo[i].case = c,
                 tx[w].todo[i].what = "is_deleted"
          PROVE  FALSE
      BY <2>1, <3>1 DEF HeldNotHidden, Hides
    <3>2. CASE c \in DOMAIN t.rows /\ t.rows[c].is_deleted = "yes" /\ row[c].is_deleted = "no"
      <4>1. Seen(tx[w], c).is_deleted = "yes"
        BY <1>4, <3>1, <3>2 DEF Moved
      <4> QED
        BY <2>1, <3>2, <4>1 DEF HeldNotHidden, Hides, Seen
    <3>3. CASE \E i \in 1..Len(t.todo) : t.todo[i].case = c /\ t.todo[i].what = "is_deleted"
      BY <1>4, <3>1, <3>3 DEF Moved, Frees
    <3> QED
      BY <2>1, <3>2, <3>3 DEF Hides
  <2> QED
    BY <1>3, <1>4, <2>1
<1>5. ASSUME NEW w \in Workers, Begin(w)
      PROVE  HeldNotHidden'
  <2>0. PICK kind \in Kinds, c \in Cases : \E t :
          /\ tx' = [tx EXCEPT ![w] = t]
          /\ t.rows = <<>> /\ t.around = {} /\ AllMadeBy(kind, t.todo)
          /\ \A i \in 1..Len(t.todo) : t.todo[i].case = c
          /\ kind = "delete" => c \notin held
    BY <1>5, BeginMakes
  <2>1. PICK t :
          /\ tx' = [tx EXCEPT ![w] = t]
          /\ t.rows = <<>> /\ t.around = {} /\ AllMadeBy(kind, t.todo)
          /\ \A i \in 1..Len(t.todo) : t.todo[i].case = c
          /\ kind = "delete" => c \notin held
    BY <2>0
  <2>2. DOMAIN t.rows = {}
    BY <2>1
  <2>3. ASSUME NEW d \in held PROVE ~Hides(t, d)
    BY <2>1, <2>2 DEF Hides, AllMadeBy, MadeBy
  <2>4. UNCHANGED <<row, events, held, bypassed>>
    BY <1>5 DEF Begin
  <2> QED
    BY <1>3, <2>1, <2>3, <2>4
<1>6. ASSUME NEW w \in Workers, Commit(w)
      PROVE  HeldNotHidden'
  <2>1. held' = held \cup tx[w].held /\ tx'[w] = Idle /\ \A v \in Workers \ {w} : tx'[v] = tx[v]
    BY <1>1, <1>6 DEF Commit
  <2>2. ASSUME NEW v \in Workers, NEW c \in held', Hides(tx[v], c)'
        PROVE  FALSE
    <3>1. v # w
      <4>1. Idle.rows = <<>> /\ Idle.todo = <<>>
        BY DEF Idle, Clean
      <4> HIDE DEF Idle
      <4>2. DOMAIN Idle.rows = {} /\ 1..Len(Idle.todo) = {}
        BY <4>1
      <4> QED
        BY <2>1, <2>2, <4>2 DEF Hides
    <3>2. tx'[v] = tx[v] /\ c \in Cases
      BY <1>1, <2>1, <3>1, Fields
    <3>3. c \in DOMAIN tx[v].rows => row'[c] = row[c]
      <4>1. c \in DOMAIN tx[v].rows => c \notin Locked(w)
        BY <3>1 DEF IInv, Exclusive, Locked
      <4> QED
        BY <1>6, <3>2, <4>1 DEF Commit, Visible
    <3>4. Hides(tx[v], c)
      BY <2>2, <3>2, <3>3 DEF Hides
    <3> QED
      BY <2>1, <3>2, <3>4 DEF HeldNotHidden, HoldsApart
  <2> QED
    BY <2>2 DEF HeldNotHidden
<1> QED
  BY <1>2, <1>4, <1>5, <1>6, EveryStep

(* The delete that finds no hold and the hold that finds no delete are the *)
(* only way to hide a case under a legal hold: where the two do not        *)
(* overlap, a held case stays visible, whatever else is under way.         *)
THEOREM HeldCasesStayVisible == Spec /\ []HoldsApart => HeldStaysVisible
<1>1. Init => HeldNotHidden
  BY DEF Init, HeldNotHidden
<1>2. IInv /\ HeldNotHidden /\ HoldsApart /\ [Next]_vars => HeldNotHidden'
  BY HeldStep
<1>3. IInv /\ HeldNotHidden /\ [Next]_vars =>
        [\A c \in held : row[c].is_deleted = "no" => row'[c].is_deleted = "no"]_vars
  <2> SUFFICES ASSUME IInv, HeldNotHidden, [Next]_vars,
                      NEW c \in held, row[c].is_deleted = "no"
               PROVE  row'[c].is_deleted = "no"
    OBVIOUS
  <2>1. tx \in [Workers -> Transaction] /\ row \in [Cases -> Row] /\ c \in Cases
    BY DEF IInv, TypeOK
  <2>2. ASSUME NEW w \in Workers, Commit(w)
        PROVE  row'[c].is_deleted = "no"
    <3>1. row'[c] = Visible(w, c) /\ Visible(w, c) \in Row
      BY <2>1, <2>2, Fields DEF Commit, Visible, Locked
    <3>2. row'[c].is_deleted \in {"no", "yes"}
      BY <3>1 DEF Row
    <3>3. CASE c \in Locked(w)
      <4>1. tx[w].rows[c].is_deleted # "yes"
        BY <3>3 DEF HeldNotHidden, Hides, Locked
      <4> QED
        BY <3>1, <3>2, <3>3, <4>1 DEF Visible
    <3>4. CASE c \notin Locked(w)
      BY <3>1, <3>4 DEF Visible
    <3> QED
      BY <3>3, <3>4
  <2> QED
    BY <2>2, EveryStep
<1> QED
  BY <1>1, <1>2, <1>3, TransactionsInvariant, PTL DEF Spec, HeldStaysVisible

(* What may be written around the chokepoints when no request moves a      *)
(* stage or escalates: the flag of a delete and the status of a parent.    *)
Around(p) == p[2] = "is_deleted" \/ (p[2] = "status" /\ ChildrenOf(p[1]) # {})

RarelyAround ==
  /\ \A p \in bypassed : Around(p)
  /\ \A w \in Workers :
       /\ \A p \in tx[w].around : Around(p)
       /\ \A i \in 1..Len(tx[w].todo) :
            tx[w].todo[i].op = "put" => Around(<<tx[w].todo[i].case, tx[w].todo[i].what>>)

LEMMA AroundStep ==
  ASSUME IInv, RarelyAround, Kinds \cap {"move", "escalate"} = {}, [Next]_vars
  PROVE  RarelyAround'
<1>1. tx \in [Workers -> Transaction]
  BY DEF IInv, TypeOK
<1>2. CASE tx' = tx /\ UNCHANGED <<row, events, held, bypassed>>
  BY <1>2 DEF RarelyAround
<1>3. ASSUME NEW w \in Workers, NEW t, tx' = [tx EXCEPT ![w] = t],
             bypassed' \subseteq bypassed \cup tx[w].around, \A p \in t.around : Around(p),
             \A i \in 1..Len(t.todo) :
               t.todo[i].op = "put" => Around(<<t.todo[i].case, t.todo[i].what>>)
      PROVE  RarelyAround'
  <2>1. \A v \in Workers : tx'[v] = IF v = w THEN t ELSE tx[v]
    BY <1>1, <1>3
  <2> HIDE DEF Around
  <2> QED
    BY <1>3, <2>1 DEF RarelyAround
<1>4. ASSUME NEW w \in Workers, NEW t, tx' = [tx EXCEPT ![w] = t],
             UNCHANGED <<row, events, held, bypassed>>, Moved(tx[w], t)
      PROVE  RarelyAround'
  <2>1. \A p \in t.around : Around(p)
    BY <1>4 DEF Moved, RarelyAround
  <2>2. ASSUME NEW i \in 1..Len(t.todo), t.todo[i].op = "put"
        PROVE  Around(<<t.todo[i].case, t.todo[i].what>>)
    <3>1. CASE Frees(t.todo[i])
      BY <3>1 DEF Frees, Around
    <3>2. CASE \E j \in 1..Len(tx[w].todo) : t.todo[i] = tx[w].todo[j]
      BY <2>2, <3>2 DEF RarelyAround
    <3> QED
      BY <1>4, <3>1, <3>2 DEF Moved
  <2> QED
    BY <1>3, <1>4, <2>1, <2>2
<1>5. ASSUME NEW w \in Workers, Begin(w)
      PROVE  RarelyAround'
  <2>0. PICK kind \in Kinds, c \in Cases : \E t :
          /\ tx' = [tx EXCEPT ![w] = t]
          /\ t.rows = <<>> /\ t.around = {} /\ AllMadeBy(kind, t.todo)
          /\ \A i \in 1..Len(t.todo) : t.todo[i].case = c
          /\ kind = "delete" => c \notin held
    BY <1>5, BeginMakes
  <2>1. PICK t :
          /\ tx' = [tx EXCEPT ![w] = t]
          /\ t.rows = <<>> /\ t.around = {} /\ AllMadeBy(kind, t.todo)
          /\ \A i \in 1..Len(t.todo) : t.todo[i].case = c
          /\ kind = "delete" => c \notin held
    BY <2>0
  <2>2. ASSUME NEW i \in 1..Len(t.todo), t.todo[i].op = "put"
        PROVE  Around(<<t.todo[i].case, t.todo[i].what>>)
    BY <2>1, <2>2 DEF AllMadeBy, MadeBy, Around
  <2>3. bypassed' = bypassed
    BY <1>5 DEF Begin
  <2> QED
    BY <1>3, <2>1, <2>2, <2>3
<1>6. ASSUME NEW w \in Workers, Commit(w)
      PROVE  RarelyAround'
  <2>1. Idle.around = {} /\ Idle.todo = <<>>
    BY DEF Idle, Clean
  <2>2. tx' = [tx EXCEPT ![w] = Idle] /\ bypassed' = bypassed \cup tx[w].around
    BY <1>6 DEF Commit
  <2> HIDE DEF Idle
  <2>3. 1..Len(Idle.todo) = {}
    BY <2>1
  <2>4. \A p \in tx[w].around : Around(p)
    BY DEF RarelyAround
  <2> QED
    BY <1>3, <2>1, <2>2, <2>3
<1> QED
  BY <1>2, <1>4, <1>5, <1>6, EveryStep

(* Where stages are entered by the interpreter alone and no escalation     *)
(* level sets a status, verify() finds every stage, and every status of a  *)
(* case without sub-cases, as the stream tells it.                         *)
THEOREM StreamsTellRows ==
  ASSUME Kinds \cap {"move", "escalate"} = {}
  PROVE  Spec => [](\A c \in Cases, column \in {"status", "stage"} :
                      column = "stage" \/ ChildrenOf(c) = {} =>
                        row[c][column] = Projected(c, column))
<1>1. Init => RarelyAround
  <2> SUFFICES ASSUME Init PROVE RarelyAround
    OBVIOUS
  <2>1. \A w \in Workers : tx[w] = Idle
    BY DEF Init
  <2>2. Idle.around = {} /\ Idle.todo = <<>>
    BY DEF Idle, Clean
  <2> HIDE DEF Idle
  <2>3. 1..Len(Idle.todo) = {}
    BY <2>2
  <2> QED
    BY <2>1, <2>2, <2>3 DEF Init, RarelyAround
<1>2. IInv /\ RarelyAround /\ [Next]_vars => RarelyAround'
  BY AroundStep
<1>3. RarelyAround /\ DivergenceIsBypass =>
        (\A c \in Cases, column \in {"status", "stage"} :
           column = "stage" \/ ChildrenOf(c) = {} => row[c][column] = Projected(c, column))
  BY DEF RarelyAround, DivergenceIsBypass, Around
<1> QED
  BY <1>1, <1>2, <1>3, TransactionsInvariant, DivergenceExplained, PTL DEF Spec
=============================================================================
