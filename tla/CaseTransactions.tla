---------------------------- MODULE CaseTransactions ----------------------------
(***************************************************************************)
(* Overlapping requests on a family of cases, each one a READ COMMITTED    *)
(* transaction, and the event stream that is appended in the same          *)
(* transaction as the row it describes (core/event_store).                 *)
(*                                                                         *)
(* CaseLifecycle says what one request does to a case; here a request is   *)
(* the list of its statements.  A statement reads what is committed (or    *)
(* written by its own transaction), an UPDATE locks its row until the      *)
(* transaction ends, an INSERT waits for a rival with the same key.        *)
(***************************************************************************)
EXTENDS Naturals, FiniteSets, Sequences

CONSTANTS
  Cases,
  None,         \* "no case"
  Parent,       \* Parent[c]: the case whose required sub-case c is, or None
  Workers,      \* requests that may be under way at the same time
  Kinds,        \* kinds of request that are made
  Stages,       \* names of the stages
  MaxRequests   \* bound on the requests of a run

AllKinds == {"status", "enter", "move", "escalate", "delete", "hold"}

ASSUME TransactionsAssumption ==
  /\ None \notin Cases
  /\ Parent \in [Cases -> Cases \cup {None}]
  /\ Kinds \subseteq AllKinds
  /\ "none" \notin Stages
  /\ MaxRequests \in Nat

VARIABLES
  row,       \* committed case_instances rows
  events,    \* committed case_events rows
  held,      \* cases under an active legal hold
  tx,        \* tx[w]: the transaction of worker w
  bypassed,  \* ghost: the <<case, column>> written without an event
  requests   \* requests begun so far

vars == <<row, events, held, tx, bypassed, requests>>

Statuses == {"open", "pending_subcase", "ended"}
Row      == [status : Statuses, stage : Stages \cup {"none"},
             is_deleted : {"no", "yes"}]
Columns  == {"status", "stage", "is_deleted"}
EventTypes == {"created", "status", "stage", "assigned"}
Values   == Statuses \cup Stages \cup {"none", "no", "yes"}

(* The statements of a request: "set" updates a column of the row of a     *)
(* case at a chokepoint, "put" updates one without telling the stream.     *)
Statement(op, c, what, to) == [op |-> op, case |-> c, what |-> what, to |-> to]
Updates(column, values) ==
  [op : {"set", "put"}, case : Cases, what : {column}, to : values]
Statements ==
  Updates("status", Statuses) \cup Updates("stage", Stages)
    \cup Updates("is_deleted", {"no", "yes"})
    \cup [op : {"event"}, case : Cases, what : EventTypes, to : Values]
    \cup [op : {"propagate", "hold"}, case : Cases, what : {"status"}, to : Values]

(* A transaction that has written nothing.                                 *)
Clean(active, todo) ==
  [active |-> active, todo |-> todo, rows |-> <<>>, events |-> {}, held |-> {},
   around |-> {}, seq |-> 0]
Idle == Clean(FALSE, <<>>)

Event == [case : Cases, seq : Nat \ {0}, type : EventTypes, to : Values]

(* A transaction: what it has still to do, and the rows, events and holds  *)
(* it has written, seen by nobody else before it commits.                  *)
Transaction ==
  [active : BOOLEAN, todo : Seq(Statements), rows : UNION {[D -> Row] : D \in SUBSET Cases},
   events : SUBSET Event, held : SUBSET Cases, around : SUBSET (Cases \X Columns), seq : Nat]

TypeOK ==
  /\ row \in [Cases -> Row]
  /\ events \subseteq Event
  /\ held \subseteq Cases
  /\ bypassed \subseteq Cases \X Columns
  /\ requests \in 0..MaxRequests
  /\ tx \in [Workers -> Transaction]

(* Every case is born event-sourced, with CaseCreated as its first event.  *)
Init ==
  /\ row = [c \in Cases |-> [status |-> "open", stage |-> "none", is_deleted |-> "no"]]
  /\ events = [case : Cases, seq : {1}, type : {"created"}, to : {"open"}]
  /\ held = {}
  /\ tx = [w \in Workers |-> Idle]
  /\ bypassed = {}
  /\ requests = 0
-----------------------------------------------------------------------------
(* Mutant: the event is recorded before the row is written.                *)
ChangeStatusEventFirst(c, to) ==
  <<Statement("event", c, "status", to), Statement("set", c, "status", to),
    Statement("propagate", c, "status", to)>>

(* Mutant: the new status ends up in another column.                       *)
ChangeStatusWrongColumn(c, to) ==
  <<Statement("set", c, "stage", to), Statement("event", c, "status", to),
    Statement("propagate", c, "status", to)>>

(* apply_status_change: the row first, then the event, then the parent.    *)
ChangeStatus(c, to) ==
  <<Statement("set", c, "status", to), Statement("event", c, "status", to),
    Statement("propagate", c, "status", to)>>

(* The on_enter_status of a stage is applied, or there is none.            *)
OnEnter(c) == {<<>>} \cup {ChangeStatus(c, to) : to \in Statuses}

(* on_stage_entered, the interpreter's chokepoint.                         *)
EnterStage(c, s) ==
  {<<Statement("set", c, "stage", s), Statement("event", c, "stage", s)>>
     \o entry \o <<Statement("event", c, "assigned", "none")>> : entry \in OnEnter(c)}

(* transition_stage and _auto_advance_if_complete.                         *)
MoveStage(c, s) == {<<Statement("put", c, "stage", s)>> \o entry : entry \in OnEnter(c)}

(* What a request of a kind on case c will do.                             *)
Requests(kind, c) ==
  CASE kind = "status"   -> {ChangeStatus(c, to) : to \in Statuses}
    [] kind = "enter"    -> UNION {EnterStage(c, s) : s \in Stages}
    [] kind = "move"     -> UNION {MoveStage(c, s) : s \in Stages}
    [] kind = "escalate" -> {<<Statement("put", c, "status", to)>> : to \in Statuses}
    [] kind = "delete"   -> {<<Statement("put", c, "is_deleted", "yes")>>}
    [] kind = "hold"     -> {<<Statement("hold", c, "status", "none")>>}

(* The checks of a request are made before its first statement: a deleted  *)
(* case is not found, a held one is not deleted, a held one takes no hold. *)
Begin(w) ==
  /\ ~tx[w].active
  /\ requests < MaxRequests
  /\ requests' = requests + 1
  /\ \E kind \in Kinds, c \in Cases :
       /\ kind \notin {"hold", "escalate", "enter"} => row[c].is_deleted = "no"
       /\ kind \in {"hold", "delete"} => c \notin held
       /\ \E todo \in Requests(kind, c) :
            tx' = [tx EXCEPT ![w] = Clean(TRUE, todo)]
  /\ UNCHANGED <<row, events, held, bypassed>>
-----------------------------------------------------------------------------
(* Statements of a transaction.                                            *)
Now(w)  == Head(tx[w].todo)
Doing(w, op) == tx[w].active /\ tx[w].todo # <<>> /\ Now(w).op = op
Locked(w)    == DOMAIN tx[w].rows
Unchanged    == UNCHANGED <<row, events, held, bypassed, requests>>

Visible(w, c) == IF c \in Locked(w) THEN tx[w].rows[c] ELSE row[c]

(* UPDATE: waits for the row, then writes one column of it.                *)
Update(w) ==
  LET s == Now(w)
      r == [Visible(w, s.case) EXCEPT ![s.what] = s.to]
  IN  /\ Doing(w, "set") \/ Doing(w, "put")
      /\ \A v \in Workers \ {w} : s.case \notin Locked(v)
      /\ tx' = [tx EXCEPT ![w] =
           [tx[w] EXCEPT
              !.todo = Tail(tx[w].todo),
              !.rows = [c \in Locked(w) \cup {s.case} |-> IF c = s.case THEN r ELSE tx[w].rows[c]],
              !.around = IF s.op = "put" THEN tx[w].around \cup {<<s.case, s.what>>}
                                         ELSE tx[w].around \ {<<s.case, s.what>>}]]
      /\ Unchanged

StreamOf(c, evs) == {e.seq : e \in {d \in evs : d.case = c}}

(* Mutant: the numbering starts at two.                                    *)
NextSeqFromTwo(w, c) ==
  2 + Cardinality(StreamOf(c, events \cup tx[w].events))

(* next_seq: the highest number this transaction can see, plus one.        *)
NextSeq(w, c) ==
  LET seen == StreamOf(c, events \cup tx[w].events)
  IN  IF seen = {} THEN 1 ELSE (CHOOSE n \in seen : \A m \in seen : m <= n) + 1

ReadSeq(w) ==
  /\ Doing(w, "event")
  /\ tx[w].seq = 0
  /\ tx' = [tx EXCEPT ![w].seq = NextSeq(w, Now(w).case)]
  /\ Unchanged

Taken(c, seq, evs) == \E e \in evs : e.case = c /\ e.seq = seq

(* The flush of append.  A rival that has the number is waited for; if it  *)
(* committed, the unique key refuses, append rolls the whole transaction   *)
(* back, record returns None and the request goes on.                      *)
AppendEvent(w) ==
  LET s == Now(w)
      e == [case |-> s.case, seq |-> tx[w].seq, type |-> s.what, to |-> s.to]
      next == [tx[w] EXCEPT !.todo = Tail(tx[w].todo), !.seq = 0]
  IN  /\ Doing(w, "event")
      /\ tx[w].seq # 0
      /\ \A v \in Workers \ {w} : ~Taken(s.case, tx[w].seq, tx[v].events)
      /\ tx' = [tx EXCEPT ![w] =
           IF Taken(s.case, tx[w].seq, events)
           THEN Clean(TRUE, Tail(tx[w].todo))
           ELSE [next EXCEPT !.events = tx[w].events \cup {e}]]
      /\ Unchanged

ChildrenOf(p) == {c \in Cases : Parent[c] = p}

(* propagate_status_change: reads the sub-cases and the parent, and will   *)
(* then write the parent's status.                                         *)
Propagate(w) ==
  LET p == Parent[Now(w).case]
      frees == /\ Now(w).to = "ended"
               /\ p # None
               /\ \A d \in ChildrenOf(p) : Visible(w, d).status = "ended"
               /\ Visible(w, p).status = "pending_subcase"
  IN  /\ Doing(w, "propagate")
      /\ tx' = [tx EXCEPT ![w].todo =
           IF frees THEN <<Statement("put", p, "status", "open")>> \o Tail(tx[w].todo)
                    ELSE Tail(tx[w].todo)]
      /\ Unchanged

(* The unique active_key of a hold: one of two operators is refused.       *)
PlaceHold(w) ==
  LET c == Now(w).case
  IN  /\ Doing(w, "hold")
      /\ \A v \in Workers \ {w} : c \notin tx[v].held
      /\ tx' = [tx EXCEPT ![w] =
           IF c \in held THEN Idle
           ELSE [tx[w] EXCEPT !.todo = Tail(tx[w].todo), !.held = {c}]]
      /\ Unchanged

(* Mutant: only the row is written, the events of the transaction are lost.*)
CommitRowsOnly(w) ==
  /\ tx[w].active
  /\ tx[w].todo = <<>>
  /\ row' = [c \in Cases |-> Visible(w, c)]
  /\ held' = held \cup tx[w].held
  /\ bypassed' = bypassed \cup tx[w].around
  /\ tx' = [tx EXCEPT ![w] = Idle]
  /\ UNCHANGED <<events, requests>>

Commit(w) ==
  /\ tx[w].active
  /\ tx[w].todo = <<>>
  /\ row' = [c \in Cases |-> Visible(w, c)]
  /\ events' = events \cup tx[w].events
  /\ held' = held \cup tx[w].held
  /\ bypassed' = bypassed \cup tx[w].around
  /\ tx' = [tx EXCEPT ![w] = Idle]
  /\ UNCHANGED requests

(* An exception, a time-out, a crash: nothing of the transaction remains.  *)
Abort(w) ==
  /\ tx[w].active
  /\ tx' = [tx EXCEPT ![w] = Idle]
  /\ Unchanged

(* All requests of the run are over: not a deadlock.                       *)
Quiet ==
  /\ requests = MaxRequests
  /\ \A w \in Workers : ~tx[w].active
  /\ UNCHANGED vars

Step(w) ==
  \/ Update(w) \/ ReadSeq(w) \/ AppendEvent(w) \/ Propagate(w) \/ PlaceHold(w) \/ Commit(w)

Next == Quiet \/ \E w \in Workers : Begin(w) \/ Step(w) \/ Abort(w)

Spec == Init /\ [][Next]_vars
-----------------------------------------------------------------------------
Contiguous(seqs) == seqs = 1..Cardinality(seqs)

(* The stream of a case has no holes and no number twice, whatever commits *)
(* and rolls back around it: a gap means that an event was deleted.        *)
StreamContiguous ==
  /\ \A c \in Cases : Contiguous(StreamOf(c, events))
  /\ \A d, e \in events : d.case = e.case /\ d.seq = e.seq => d = e

(* An append never loses the race for its number, so the rollback that     *)
(* would take the rest of the request with it never happens: whoever       *)
(* appends to a case has locked its row first.                             *)
AppendNeverLoses ==
  \A w \in Workers :
    Doing(w, "event") /\ tx[w].seq # 0 =>
      /\ ~Taken(Now(w).case, tx[w].seq, events)
      /\ \A v \in Workers \ {w} : ~Taken(Now(w).case, tx[w].seq, tx[v].events)

(* project: the last event of a type tells the column.                     *)
Latest(c, types, initially) ==
  LET evs == {e \in events : e.case = c /\ e.type \in types}
  IN  IF evs = {} THEN initially
      ELSE (CHOOSE e \in evs : \A d \in evs : d.seq <= e.seq).to

Projected(c, column) ==
  IF column = "status" THEN Latest(c, {"created", "status"}, "open")
                       ELSE Latest(c, {"stage"}, "none")

(* Divergence between a row and its stream means that a write bypassed the *)
(* chokepoints; concurrency alone never makes one.                         *)
DivergenceIsBypass ==
  \A c \in Cases, column \in {"status", "stage"} :
    row[c][column] # Projected(c, column) => <<c, column>> \in bypassed

(* verify() finds every case consistent.                                   *)
VerifyConsistent ==
  \A c \in Cases, column \in {"status", "stage"} : row[c][column] = Projected(c, column)

AllEnded(p) == \A c \in ChildrenOf(p) : row[c].status = "ended"

(* A waiting parent does not wait for sub-cases that are finished: the     *)
(* request that ends the last one opens it.                                *)
ParentFreed ==
  [][\A p \in Cases :
       ~AllEnded(p) /\ AllEnded(p)' /\ row[p].status = "pending_subcase" =>
         row'[p].status # "pending_subcase"]_vars

(* A case under a legal hold is not hidden.                                *)
HeldStaysVisible ==
  [][\A c \in held : row[c].is_deleted = "no" => row'[c].is_deleted = "no"]_vars
=============================================================================
