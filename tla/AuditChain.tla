------------------------------- MODULE AuditChain -------------------------------
(***************************************************************************)
(* The hash chain over the audit log (compliance/audit_chain), the purge   *)
(* of old audit rows, the anchoring of the tip at a timestamp authority,   *)
(* and everything else that touches the audit rows meanwhile.              *)
(*                                                                         *)
(* A hash is collision free: it is modelled as the sequence of everything  *)
(* it commits to.  Each sealer, purge and anchoring is a READ COMMITTED    *)
(* transaction that holds one advisory lock; the requests that write audit *)
(* rows do not take it.                                                    *)
(***************************************************************************)
EXTENDS Naturals, FiniteSets, Sequences

CONSTANTS
  Procs,     \* processes that seal, purge and anchor
  MaxRows,   \* bound on the audit rows written
  Cases,
  CaseOf,    \* CaseOf[r]: the case row r is about
  Users,
  Anon,      \* the id that replaces an anonymized user
  NoProc,
  HoldsMove  \* TRUE: a hold may be released while a purge is under way

Ids == 1..MaxRows

ASSUME ChainAssumption ==
  /\ MaxRows \in Nat
  /\ CaseOf \in [Ids -> Cases]
  /\ Anon \notin Users
  /\ NoProc \notin Procs
  /\ HoldsMove \in BOOLEAN

VARIABLES
  written,   \* audit rows written so far: their ids are in timestamp order
  audit,     \* case_audit_log: actor by id, of the rows that exist
  aged,      \* rows 1..aged are older than the retention period
  held,      \* cases under a legal hold
  chain,     \* case_audit_log_chain, in sequence order
  anchors,   \* receipts: a position in the chain and the hash signed for it
  asked,     \* asked[p]: the tip the anchoring of p has fixed for signing
  lock,      \* holder of the advisory lock
  tx,        \* tx[p]: the transaction of process p
  tampered   \* ghost: rows changed or removed by hand after they were written

vars == <<written, audit, aged, held, chain, anchors, asked, lock, tx, tampered>>

Idle == [op |-> "none", pc |-> "idle", listed |-> {}, gone |-> {}, links |-> <<>>]

TypeOK ==
  /\ written \in 0..MaxRows
  /\ DOMAIN audit \subseteq 1..written
  /\ \A r \in DOMAIN audit : audit[r] \in Users \cup {Anon}
  /\ aged \in 0..written
  /\ held \subseteq Cases
  /\ \A i \in DOMAIN chain : chain[i].what.kind \in {"row", "prune"}
  /\ \A a \in anchors : a.at \in DOMAIN chain
  /\ lock \in Procs \cup {NoProc}
  /\ \A p \in Procs :
       /\ tx[p].op \in {"none", "seal", "prune", "anchor"}
       /\ tx[p].pc \in {"idle", "lock", "read", "delete", "stamp", "commit"}
       /\ tx[p].listed \subseteq DOMAIN chain
       /\ tx[p].gone \subseteq Ids
       /\ \A a \in asked[p] : a.at \in Nat
  /\ tampered \subseteq Ids

Init ==
  /\ written = 0
  /\ audit = <<>>
  /\ aged = 0
  /\ held = {}
  /\ chain = <<>>
  /\ anchors = {}
  /\ asked = [p \in Procs |-> {}]
  /\ lock = NoProc
  /\ tx = [p \in Procs |-> Idle]
  /\ tampered = {}
-----------------------------------------------------------------------------
(* Hashes.                                                                 *)
HashOf(links) == IF links = <<>> THEN <<>> ELSE links[Len(links)].hash

(* Mutant: the hash of a row leaves the actor out.                         *)
RowContentWithoutActor(r, actor) ==
  [kind |-> "row", id |-> r, actor |-> Anon, seqs |-> {}, digest |-> {}]

(* What compute_row_hash covers of an audit row.                           *)
RowContent(r, actor) ==
  [kind |-> "row", id |-> r, actor |-> actor, seqs |-> {}, digest |-> {}]

(* What compute_prune_hash covers of a prune record.                       *)
PruneContent(seqs, digest) ==
  [kind |-> "prune", id |-> 0, actor |-> Anon, seqs |-> seqs, digest |-> digest]

Link(prev, what) == [what |-> what, prev |-> prev, hash |-> Append(prev, what)]

(* Mutant: every row of a batch is chained off the old tip.                *)
LinksFromTip(tip, whats) == [i \in DOMAIN whats |-> Link(tip, whats[i])]

(* The links of a batch, each chained off the one before.                  *)
LinksFrom(tip, whats) ==
  [i \in DOMAIN whats |-> Link(tip \o SubSeq(whats, 1, i - 1), whats[i])]
-----------------------------------------------------------------------------
(* Requests write audit rows, holds come and go, time passes.              *)
Keeps == UNCHANGED <<chain, anchors, asked, lock, tx>>

WriteRow(u) ==
  /\ written < MaxRows
  /\ written' = written + 1
  /\ audit' = [r \in DOMAIN audit \cup {written + 1} |->
                 IF r = written + 1 THEN u ELSE audit[r]]
  /\ Keeps /\ UNCHANGED <<aged, held, tampered>>

Purging == {p \in Procs : tx[p].op = "prune" /\ tx[p].pc \in {"delete", "commit"}}

(* The cutoff of a purge is fixed while it runs.                           *)
Age ==
  /\ aged < written
  /\ Purging = {}
  /\ aged' = aged + 1
  /\ Keeps /\ UNCHANGED <<written, audit, held, tampered>>

PlaceHold(c) ==
  /\ c \notin held
  /\ held' = held \cup {c}
  /\ Keeps /\ UNCHANGED <<written, audit, aged, tampered>>

ReleaseHold(c) ==
  /\ c \in held
  /\ HoldsMove \/ Purging = {}
  /\ held' = held \ {c}
  /\ Keeps /\ UNCHANGED <<written, audit, aged, tampered>>

(* The rows a purge has deleted are locked until it commits.               *)
Deleting == UNION {tx[p].gone : p \in Procs}

(* anonymize_user_data on the audit rows; refused while a case of the user *)
(* is under a hold.                                                        *)
Anonymize(u) ==
  LET mine == {r \in DOMAIN audit : audit[r] = u}
  IN  /\ mine # {}
      /\ mine \cap Deleting = {}
      /\ \A r \in mine : CaseOf[r] \notin held
      /\ audit' = [r \in DOMAIN audit |-> IF r \in mine THEN Anon ELSE audit[r]]
      /\ Keeps /\ UNCHANGED <<written, aged, held, tampered>>

(* A row is changed or removed behind the chain's back.                    *)
InHand(r) ==
  /\ r \in DOMAIN audit
  /\ r \notin Deleting
  /\ tampered' = tampered \cup {r}
  /\ Keeps /\ UNCHANGED <<written, aged, held>>

ChangeRow(r, u) == InHand(r) /\ u # audit[r] /\ audit' = [audit EXCEPT ![r] = u]

RemoveRow(r) == InHand(r) /\ audit' = [s \in DOMAIN audit \ {r} |-> audit[s]]
-----------------------------------------------------------------------------
(* Transactions on the chain.                                              *)
Untouched == UNCHANGED <<written, aged, held, tampered>>
Reads     == UNCHANGED <<written, audit, aged, held, chain, anchors, tampered>>
At(p, op, pc) == tx[p].op \in op /\ tx[p].pc = pc
Goes(p, t) == tx' = [tx EXCEPT ![p] = t]

Begin(p, op) ==
  /\ At(p, {"none"}, "idle")
  /\ Goes(p, [Idle EXCEPT !.op = op, !.pc = "lock"])
  /\ Reads /\ UNCHANGED <<lock, asked>>

(* Mutant: no lock, the unique sequence is the only guard.                 *)
SealLockSkipped(p) ==
  /\ tx[p].pc = "lock"
  /\ Goes(p, [tx[p] EXCEPT !.pc = "read"])
  /\ Reads /\ UNCHANGED <<lock, asked>>

(* _seal_lock, released at the end of the transaction.                     *)
SealLock(p) ==
  /\ tx[p].pc = "lock"
  /\ lock = NoProc
  /\ lock' = p
  /\ Goes(p, [tx[p] EXCEPT !.pc = "read"])
  /\ Reads /\ UNCHANGED asked

SealedIds == {chain[i].what.id : i \in {j \in DOMAIN chain : chain[j].what.kind = "row"}}

(* Audit rows without a link.                                              *)
Pending == DOMAIN audit \ SealedIds

(* The n oldest of them, in timestamp order.                               *)
Batches(n) ==
  {b \in [1..n -> Pending] : \A i \in 1..n, r \in Pending :
     r < b[i] <=> \E j \in 1..(i - 1) : b[j] = r}

TipOf(links) == [at |-> Len(links), hash |-> HashOf(links)]

(* Mutant: an empty chain is anchored too.                                 *)
StampsGenesis(p, tip) == tx[p].op = "anchor" /\ tip \notin anchors

(* An anchoring goes on to the timestamp authority unless the chain is     *)
(* empty or its tip is the one anchored last.                              *)
Stamps(p, tip) == tx[p].op = "anchor" /\ tip.at # 0 /\ tip \notin anchors

(* seal_new_entries, of at most max_rows rows.  The tip it returns is what *)
(* an anchoring has signed and what its receipt names.                     *)
Seal(p) ==
  /\ At(p, {"seal", "anchor"}, "read")
  /\ \E n \in 0..MaxRows : \E batch \in Batches(n) :
       /\ n = 0 => Pending = {}
       /\ LET whats == [i \in 1..n |-> RowContent(batch[i], audit[batch[i]])]
              links == LinksFrom(HashOf(chain), whats)
              tip   == TipOf(chain \o links)
          IN  /\ Goes(p, [tx[p] EXCEPT !.links = links,
                            !.pc = IF Stamps(p, tip) THEN "stamp" ELSE "commit"])
              /\ asked' = [asked EXCEPT ![p] = IF Stamps(p, tip) THEN {tip} ELSE {}]
  /\ Reads /\ UNCHANGED lock

(* The rows the purge of retention's _audit_log names.                     *)
Due == {r \in DOMAIN audit : r <= aged /\ CaseOf[r] \notin held}

(* prune_audit_rows: the sealed rows that are due ...                      *)
PruneSelect(p) ==
  /\ At(p, {"prune"}, "read")
  /\ Goes(p, [tx[p] EXCEPT !.pc = "delete",
       !.listed = {i \in DOMAIN chain : chain[i].what.kind = "row" /\ chain[i].what.id \in Due}])
  /\ Reads /\ UNCHANGED <<lock, asked>>

(* ... are deleted with the others that are due, and put on record.        *)
PruneDelete(p) ==
  LET listed == tx[p].listed
      rec == PruneContent(listed, {chain[i].hash : i \in listed})
  IN  /\ At(p, {"prune"}, "delete")
      /\ Goes(p, [tx[p] EXCEPT !.pc = "commit", !.gone = Due,
           !.links = IF listed = {} \/ Due = {} THEN <<>> ELSE <<Link(HashOf(chain), rec)>>])
      /\ Reads /\ UNCHANGED <<lock, asked>>

(* The timestamp authority signs the tip, or the whole transaction fails.  *)
Stamp(p) ==
  /\ At(p, {"anchor"}, "stamp")
  /\ Goes(p, [tx[p] EXCEPT !.pc = "commit"])
  /\ Reads /\ UNCHANGED <<lock, asked>>

Frees(p) == lock' = IF lock = p THEN NoProc ELSE lock

(* The unique sequence: links that were read off an older tip are refused. *)
Fresh(p) == tx[p].links # <<>> => Head(tx[p].links).prev = HashOf(chain)

(* Mutant: the tip is anchored, the rows just sealed are not written.      *)
AppendedUnlessAnchor(p) == IF tx[p].op = "anchor" THEN chain ELSE chain \o tx[p].links

Appended(p) == chain \o tx[p].links

Commit(p) ==
  /\ tx[p].pc = "commit"
  /\ Fresh(p)
  /\ chain' = Appended(p)
  /\ audit' = [r \in DOMAIN audit \ tx[p].gone |-> audit[r]]
  /\ anchors' = anchors \cup asked[p]
  /\ asked' = [asked EXCEPT ![p] = {}]
  /\ Goes(p, Idle) /\ Frees(p) /\ Untouched

(* An error, a crash, an answer of the authority that never comes.         *)
Fail(p) ==
  /\ tx[p].op # "none"
  /\ asked' = [asked EXCEPT ![p] = {}]
  /\ Goes(p, Idle) /\ Frees(p) /\ Reads

Work(p) == SealLock(p) \/ Seal(p) \/ PruneSelect(p) \/ PruneDelete(p) \/ Stamp(p) \/ Commit(p)

Next ==
  \/ \E u \in Users : WriteRow(u) \/ Anonymize(u)
  \/ Age
  \/ \E c \in Cases : PlaceHold(c) \/ ReleaseHold(c)
  \/ \E r \in Ids : RemoveRow(r) \/ \E u \in Users : ChangeRow(r, u)
  \/ \E p \in Procs : (\E op \in {"seal", "prune", "anchor"} : Begin(p, op)) \/ Work(p) \/ Fail(p)

Spec == Init /\ [][Next]_vars
-----------------------------------------------------------------------------
(* verify_chain.                                                           *)
PrevOf(i) == IF i = 1 THEN <<>> ELSE chain[i - 1].hash

Recorded(i) ==
  /\ chain[i].what.kind = "prune"
  /\ chain[i].hash = Append(chain[i].prev, chain[i].what)
  /\ chain[i].what.seqs # {}
  /\ \A s \in chain[i].what.seqs : s < i
  /\ chain[i].what.digest = {chain[s].hash : s \in chain[i].what.seqs}

Covered == UNION {chain[i].what.seqs : i \in {j \in DOMAIN chain : Recorded(j)}}

BrokenLink(i) == chain[i].prev # PrevOf(i)
InvalidRecord(i) == chain[i].what.kind = "prune" /\ ~Recorded(i)
MissingRow(i) ==
  chain[i].what.kind = "row" /\ chain[i].what.id \notin DOMAIN audit /\ i \notin Covered
ContentTampered(i) ==
  LET r == chain[i].what.id
  IN  /\ chain[i].what.kind = "row"
      /\ r \in DOMAIN audit
      /\ Append(chain[i].prev, RowContent(r, audit[r])) # chain[i].hash

Break(i) == BrokenLink(i) \/ InvalidRecord(i) \/ MissingRow(i) \/ ContentTampered(i)
-----------------------------------------------------------------------------
(* Sealers, purges and anchorings never disturb one another: each link is  *)
(* chained off the one before it and no audit row is sealed twice.         *)
ChainSound ==
  /\ \A i \in DOMAIN chain : ~BrokenLink(i) /\ ~InvalidRecord(i)
  /\ \A i, j \in DOMAIN chain :
       chain[i].what.kind = "row" /\ chain[j].what.kind = "row"
         /\ chain[i].what.id = chain[j].what.id => i = j

(* No false alarm: what verify_chain reports was changed or removed by     *)
(* hand.                                                                   *)
BreaksAreTampering ==
  \A i \in DOMAIN chain : Break(i) => chain[i].what.id \in tampered

(* What is reported was changed or removed by hand, or is a row whose      *)
(* actor has been anonymized.                                              *)
BreaksExplained ==
  \A i \in DOMAIN chain :
    LET r == chain[i].what.id
    IN  Break(i) => r \in tampered \/ (r \in DOMAIN audit /\ audit[r] = Anon)

(* Nothing escapes: a sealed row that is gone without a record that names  *)
(* it, or is no longer what was sealed, is reported.                       *)
AlteredRow(i) ==
  /\ chain[i].what.kind = "row"
  /\ chain[i].what.id \in DOMAIN audit => audit[chain[i].what.id] # chain[i].what.actor
  /\ \A j \in DOMAIN chain : i \notin chain[j].what.seqs

TamperingFound == \A i \in DOMAIN chain : AlteredRow(i) => Break(i)

(* A receipt proves what it says: the hash that was signed is that of the  *)
(* committed link it names, whatever was sealed, purged, anchored or       *)
(* rolled back between the sealing, the answer of the authority and now.   *)
ReceiptsProve ==
  \A a \in anchors : a.at \in DOMAIN chain /\ chain[a.at].hash = a.hash

(* chain_status: rows that still wait to be sealed.                        *)
StatusCountsPending == Cardinality(DOMAIN audit) - Len(chain) = Cardinality(Pending)
=============================================================================
