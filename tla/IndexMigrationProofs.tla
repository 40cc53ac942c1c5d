------------------------ MODULE IndexMigrationProofs ------------------------
(***************************************************************************)
(* Proofs about the index migration, for any processes, collections and    *)
(* versions and any bounds on what is asked for.                           *)
(***************************************************************************)
EXTENDS IndexMigration, SequenceTheorems, TLAPS

Switching == {"previous", "lease", "flip", "mirror", "compensate", "release"}

\* What a build records about itself names collections, not NULL.
Building ==
    \A p \in Procs : op[p].pc \in {"rows", "upsert", "begin"} =>
        op[p].target \in Collections /\ op[p].previous \in Collections

\* No two operations have the same owner, and none has one of the future.
Owners ==
    /\ lease.owner <= asked
    /\ \A p \in Procs : /\ op[p].owner <= asked
                        /\ op[p].pc \in Switching => op[p].owner # 0
    /\ \A p, q \in Procs : p # q /\ op[p].owner = op[q].owner => op[p].owner = 0

\* What is compensated has failed.
Undone == \A p \in Procs : op[p].pc = "compensate" => op[p].failed

IndexInv == IndexTypeOK /\ Building /\ Owners /\ Undone /\ SwitchIsKept

-----------------------------------------------------------------------------
LEMMA Effectives == \A pointer \in Pointers : Effective(pointer) \in Collections
BY DEF Effective, Pointers, Collections

LEMMA Requests ==
    /\ NoOperation \in Operation
    /\ NoOperation.pc = "idle" /\ NoOperation.owner = 0
    /\ NoRun \in Run /\ NoLease \in Lease /\ NoLease.owner = 0
    /\ \A c \in Pointers, d \in Pointers :
          LET o == [NoOperation EXCEPT !.pc = "rows", !.target = c, !.previous = d]
          IN  /\ o \in Operation /\ o.pc = "rows" /\ o.target = c /\ o.previous = d
              /\ o.owner = 0
    /\ \A c \in Pointers, n \in Nat :
          LET o == [NoOperation EXCEPT !.pc = "previous", !.owner = n, !.target = c]
          IN  o \in Operation /\ o.pc = "previous" /\ o.owner = n
<1>1. None \in Pointers
  BY DEF Pointers
<1> QED BY <1>1 DEF NoOperation, Operation, OpPlace, NoRun, Run, NoLease, Lease

LEMMA OpParts ==
    ASSUME IndexTypeOK, NEW p \in Procs
    PROVE  /\ op[p] \in Operation
           /\ op[p].owner \in Nat /\ op[p].target \in Pointers /\ op[p].previous \in Pointers
           /\ \A place \in OpPlace :
                 [op[p] EXCEPT !.pc = place] \in Operation
<1>1. op[p] \in Operation
  BY DEF IndexTypeOK
<1> QED BY <1>1 DEF Operation

LEMMA IndexInit_ == IndexInit => IndexInv
<1> SUFFICES ASSUME IndexInit PROVE IndexInv
  OBVIOUS
<1>1. \A p \in Procs : op[p] = NoOperation
  BY DEF IndexInit
<1>2. op \in [Procs -> Operation] /\ rec \in [Procs -> Run]
  BY Requests DEF IndexInit
<1>3. \A p \in Procs : op[p].pc = "idle" /\ op[p].owner = 0
  BY <1>1, Requests
<1>4. ledger \in Seq(Build) /\ lease \in Lease /\ lease.owner = 0
  <2>1. <<>> \in Seq(Build)
    OBVIOUS
  <2> QED BY <2>1, Requests DEF IndexInit
<1>5. /\ content \in [Collections -> SUBSET Versions]
      /\ collections \subseteq Collections
      /\ persisted \in Pointers /\ live \in [Procs -> Pointers]
  BY ConfiguredAssumption DEF IndexInit, Collections
<1>6. IndexTypeOK
  BY <1>2, <1>3, <1>4, <1>5, BoundsAssumption DEF IndexInit, IndexTypeOK, At
<1>7. asked = 0
  BY DEF IndexInit
<1> QED
  BY <1>3, <1>4, <1>6, <1>7
  DEF IndexInv, Building, Owners, Undone, SwitchIsKept, At, Switching

\* A step of one process keeps the invariant if what it leaves behind is in order:
\* only the owner of the lease moves the pointer.
LEMMA OpKeeps ==
    ASSUME IndexInv, NEW p \in Procs, NEW o \in Operation,
           op' = [op EXCEPT ![p] = o],
           UNCHANGED <<rec, active, published, starts>>,
           persisted' \in Pointers, live' \in [Procs -> Pointers],
           collections' \subseteq Collections,
           content' \in [Collections -> SUBSET Versions],
           ledger' \in Seq(Build), Len(ledger') >= Len(ledger),
           lease' \in Lease, lease'.owner \in {0, lease.owner, op[p].owner},
           asked' \in 0 .. MaxAsked, faults' \in 0 .. MaxFaults, asked' >= asked,
           o.pc = "complete" => o.row \in 1 .. Len(ledger'),
           o.pc \in {"rows", "upsert", "begin"} =>
               o.target \in Collections /\ o.previous \in Collections,
           o.owner \in {0, op[p].owner, asked + 1}, o.owner <= asked',
           o.pc \in Switching => o.owner # 0,
           o.pc = "compensate" => o.failed,
           persisted' # persisted => lease.owner = op[p].owner /\ op[p].owner # 0,
           o.pc \in {"mirror", "release"} /\ lease'.owner = o.owner /\ ~o.failed /\ ~o.reset
               => persisted' = o.target
    PROVE  IndexInv'
<1>1. /\ op \in [Procs -> Operation] /\ asked \in Nat /\ lease.owner \in Nat
      /\ Len(ledger) \in Nat /\ Len(ledger') \in Nat /\ asked' \in Nat
  BY BoundsAssumption DEF IndexInv, IndexTypeOK, Lease
<1>2. /\ op' \in [Procs -> Operation] /\ op'[p] = o
      /\ \A q \in Procs \ {p} : op'[q] = op[q]
  BY <1>1
<1>3. \A q \in Procs : op[q].owner \in Nat /\ op'[q].owner \in Nat
  BY <1>1, <1>2 DEF Operation
<1>4. IndexTypeOK'
  <2>1. \A q \in Procs : op'[q].pc = "complete" => op'[q].row \in 1 .. Len(ledger')
    <3>1. ASSUME NEW q \in Procs \ {p}, op'[q].pc = "complete"
          PROVE  op'[q].row \in 1 .. Len(ledger')
      <4>1. op[q].row \in 1 .. Len(ledger)
        BY <1>2, <3>1 DEF IndexInv, IndexTypeOK, At
      <4> QED BY <1>1, <1>2, <4>1
    <3> QED BY <1>2, <3>1
  <2> QED BY <1>2, <2>1 DEF IndexInv, IndexTypeOK, At
<1>5. Building' /\ Undone'
  BY <1>2 DEF IndexInv, Building, Undone, Collections
<1>6. Owners'
  <2>1. lease'.owner <= asked'
    BY <1>1, <1>3 DEF IndexInv, Owners
  <2>2. ASSUME NEW q \in Procs
        PROVE  op'[q].owner <= asked' /\ (op'[q].pc \in Switching => op'[q].owner # 0)
    <3>1. op[q].owner <= asked /\ (op[q].pc \in Switching => op[q].owner # 0)
      BY DEF IndexInv, Owners
    <3>2. CASE q = p
      BY <1>2, <3>2
    <3>3. CASE q # p
      BY <1>1, <1>2, <1>3, <3>1, <3>3
    <3> QED BY <3>2, <3>3
  <2>3. ASSUME NEW q \in Procs \ {p}, o.owner = op[q].owner PROVE o.owner = 0
    <3>1. op[q].owner <= asked /\ (op[q].owner = op[p].owner => op[p].owner = 0)
      BY DEF IndexInv, Owners
    <3> QED BY <1>1, <1>3, <2>3, <3>1
  <2>4. ASSUME NEW q \in Procs, NEW r \in Procs, q # r, op'[q].owner = op'[r].owner
        PROVE  op'[q].owner = 0
    <3>1. CASE q = p
      BY <1>2, <2>3, <2>4, <3>1
    <3>2. CASE r = p
      BY <1>2, <2>3, <2>4, <3>2
    <3>3. CASE q # p /\ r # p
      BY <1>2, <2>4, <3>3 DEF IndexInv, Owners
    <3> QED BY <3>1, <3>2, <3>3
  <2> QED BY <2>1, <2>2, <2>4 DEF Owners
<1>7. SwitchIsKept'
  <2> SUFFICES ASSUME NEW q \in Procs, op'[q].pc \in {"mirror", "release"},
                      lease'.owner = op'[q].owner, ~op'[q].failed, ~op'[q].reset
               PROVE  persisted' = op'[q].target
    BY DEF SwitchIsKept, At
  <2>1. CASE q = p
    BY <1>2, <2>1
  <2>2. CASE q # p
    <3>1. op'[q] = op[q]
      BY <1>2, <2>2
    <3>2. op[q].owner # 0
      BY <3>1 DEF IndexInv, Owners, Switching
    <3>3. op[p].owner # op[q].owner
      BY <2>2, <3>2 DEF IndexInv, Owners
    <3>4. lease.owner = op[q].owner
      BY <3>1, <3>2, <3>3
    <3>5. persisted = op[q].target
      BY <3>1, <3>4 DEF IndexInv, SwitchIsKept, At
    <3> QED BY <3>1, <3>3, <3>4, <3>5
  <2> QED BY <2>1, <2>2
<1> QED BY <1>4, <1>5, <1>6, <1>7 DEF IndexInv

-----------------------------------------------------------------------------
(* Builds.                                                                 *)

LEMMA AskKeeps ==
    ASSUME IndexInv, NEW p \in Procs, NEW o \in Operation, Ask(p, o),
           collections' \subseteq Collections,
           \/ o.pc = "rows" /\ o.owner = 0 /\ o.target \in Collections /\ o.previous \in Collections
           \/ o.pc = "previous" /\ o.owner = asked + 1
    PROVE  IndexInv'
<1>1. /\ UNCHANGED <<starts, faults, persisted, content, ledger, lease, live, rec, active, published>>
      /\ asked' = asked + 1 /\ asked < MaxAsked /\ asked \in Nat
      /\ op' = [op EXCEPT ![p] = o]
  BY BoundsAssumption DEF Ask, IndexInv, IndexTypeOK
<1>2. /\ persisted \in Pointers /\ live \in [Procs -> Pointers]
      /\ content \in [Collections -> SUBSET Versions]
      /\ ledger \in Seq(Build) /\ Len(ledger) \in Nat /\ lease \in Lease
      /\ faults \in 0 .. MaxFaults
  BY DEF IndexInv, IndexTypeOK
<1>3. asked' \in 0 .. MaxAsked /\ asked' >= asked /\ o.owner <= asked'
  BY <1>1, BoundsAssumption
<1>4. o.pc \in Switching => o.owner # 0
  BY <1>1 DEF Switching
<1>5. Len(ledger') >= Len(ledger)
  BY <1>1, <1>2
<1> QED BY <1>1, <1>2, <1>3, <1>4, <1>5, OpKeeps

LEMMA BuildKeeps ==
    ASSUME IndexInv, NEW p \in Procs, NEW c \in Targets, build_index_v2(p, c)
    PROVE  IndexInv'
<1>1. c \in Collections /\ c \in Pointers
  BY DEF Collections, Pointers
<1>2. resolve_collection_name(p) \in Collections /\ resolve_collection_name(p) \in Pointers
  BY Effectives DEF resolve_collection_name, IndexInv, IndexTypeOK, Pointers
<1>3. collections' \subseteq Collections
  BY <1>1 DEF build_index_v2, IndexInv, IndexTypeOK
<1> DEFINE d == resolve_collection_name(p)
           o == [NoOperation EXCEPT !.pc = "rows", !.target = c, !.previous = d]
<1>4. Ask(p, o)
  BY DEF build_index_v2
<1> HIDE DEF d
<1>5. d \in Collections /\ d \in Pointers
  BY <1>2 DEF d
<1>6. o \in Operation /\ o.pc = "rows" /\ o.owner = 0 /\ o.target = c /\ o.previous = d
  <2>1. c \in Pointers /\ d \in Pointers /\ None \in Pointers
    BY <1>1, <1>5 DEF Pointers
  <2> QED BY <2>1 DEF NoOperation, Operation, OpPlace
<1> HIDE DEF o
<1> QED BY <1>1, <1>3, <1>4, <1>5, <1>6, AskKeeps

LEMMA SwitchKeeps ==
    ASSUME IndexInv, NEW p \in Procs, NEW c \in Collections, _switch_pointer(p, c)
    PROVE  IndexInv'
<1>1. c \in Pointers /\ asked + 1 \in Nat
  BY BoundsAssumption DEF Pointers, IndexInv, IndexTypeOK
<1> DEFINE o == [NoOperation EXCEPT !.pc = "previous", !.owner = asked + 1, !.target = c]
<1>2. o \in Operation /\ o.pc = "previous" /\ o.owner = asked + 1
  BY <1>1, Requests
<1>3. Ask(p, o) /\ collections' \subseteq Collections
  BY DEF _switch_pointer, IndexInv, IndexTypeOK
<1> HIDE DEF o
<1> QED BY <1>2, <1>3, AskKeeps

LEMMA RequestKeeps == ASSUME IndexInv, NEW p \in Procs, Request(p) PROVE IndexInv'
<1>1. CASE \E c \in Targets : build_index_v2(p, c)
  BY <1>1, BuildKeeps
<1>2. CASE \E c \in Collections : switch_index(p, c)
  BY <1>2, SwitchKeeps DEF switch_index
<1>3. CASE rollback_index(p)
  <2>1. ledger \in Seq(Build) /\ ledger # <<>>
    BY <1>3 DEF rollback_index, IndexInv, IndexTypeOK
  <2>2. ledger[Len(ledger)] \in Build
    BY <2>1
  <2>3. ledger[Len(ledger)].previous \in Collections
    BY <2>2 DEF Build
  <2> QED BY <1>3, <2>3, SwitchKeeps DEF rollback_index
<1> QED BY <1>1, <1>2, <1>3 DEF Request

\* What the stores are before a step.
LEMMA StoresTyped ==
    ASSUME IndexInv
    PROVE  /\ persisted \in Pointers /\ live \in [Procs -> Pointers]
           /\ collections \subseteq Collections
           /\ content \in [Collections -> SUBSET Versions]
           /\ ledger \in Seq(Build) /\ Len(ledger) \in Nat /\ lease \in Lease
           /\ asked \in Nat /\ asked \in 0 .. MaxAsked /\ faults \in 0 .. MaxFaults
           /\ asked >= asked /\ Len(ledger) >= Len(ledger)
           /\ ActiveRows \subseteq Versions
BY BoundsAssumption DEF IndexInv, IndexTypeOK, ActiveRows

\* A step that goes on within an operation, and one that ends it.
LEMMA GotoParts ==
    ASSUME IndexInv, NEW p \in Procs, NEW place \in OpPlace, Goto(p, place)
    PROVE  LET o == [op[p] EXCEPT !.pc = place]
           IN  /\ op' = [op EXCEPT ![p] = o] /\ o \in Operation /\ o.pc = place
               /\ o.owner = op[p].owner /\ o.target = op[p].target
               /\ o.previous = op[p].previous /\ o.failed = op[p].failed
               /\ o.reset = op[p].reset /\ o.row = op[p].row /\ o.owner <= asked
<1>1. op[p] \in Operation /\ op \in [Procs -> Operation] /\ op[p].owner <= asked
  BY DEF IndexInv, IndexTypeOK, Owners
<1> QED BY <1>1 DEF Goto, Operation

LEMMA RowsKeeps ==
    ASSUME IndexInv, NEW p \in Procs, iter_active_child_chunks(p)
    PROVE  IndexInv'
<1> DEFINE o == [op[p] EXCEPT !.pc = "upsert", !.rows = ActiveRows]
<1>1. /\ op[p].pc = "rows" /\ op[p] \in Operation /\ op \in [Procs -> Operation]
      /\ op[p].owner <= asked
      /\ op[p].target \in Collections /\ op[p].previous \in Collections
      /\ UNCHANGED <<stores, live, rec, active, published, bounds>>
  BY DEF iter_active_child_chunks, At, IndexInv, IndexTypeOK, Owners, Building
<1>2. /\ o \in Operation /\ o.pc = "upsert" /\ o.owner = op[p].owner
      /\ o.target = op[p].target /\ o.previous = op[p].previous
  BY <1>1, StoresTyped DEF Operation, OpPlace
<1>3. op' = [op EXCEPT ![p] = o]
  BY <1>1 DEF iter_active_child_chunks
<1> HIDE DEF o
<1> QED BY <1>1, <1>2, <1>3, StoresTyped, OpKeeps DEF stores, bounds, Switching

LEMMA UpsertKeeps ==
    ASSUME IndexInv, NEW p \in Procs, UpsertRows(p)
    PROVE  IndexInv'
<1> DEFINE o == [op[p] EXCEPT !.pc = "begin"]
<1>1. /\ op[p].pc = "upsert" /\ op[p].rows \subseteq Versions
      /\ op[p].target \in Collections /\ op[p].previous \in Collections
      /\ Goto(p, "begin")
      /\ UNCHANGED <<persisted, collections, ledger, lease, live, rec, active, published, bounds>>
      /\ content' = [content EXCEPT ![op[p].target] = @ \cup op[p].rows]
  BY OpParts DEF UpsertRows, At, IndexInv, IndexTypeOK, Building, Operation
<1>2. content' \in [Collections -> SUBSET Versions]
  BY <1>1, StoresTyped
<1>3. /\ op' = [op EXCEPT ![p] = o] /\ o \in Operation /\ o.pc = "begin"
      /\ o.owner = op[p].owner /\ o.target = op[p].target /\ o.previous = op[p].previous
      /\ o.owner <= asked
  <2>1. Goto(p, "begin") /\ "begin" \in OpPlace
    BY <1>1 DEF OpPlace
  <2> QED BY <2>1, GotoParts
<1> HIDE DEF o
<1> QED BY <1>1, <1>2, <1>3, StoresTyped, OpKeeps DEF bounds, Switching

LEMMA BeginBuildKeeps ==
    ASSUME IndexInv, NEW p \in Procs, begin_index_build(p)
    PROVE  IndexInv'
<1> DEFINE o == [op[p] EXCEPT !.pc = "complete", !.row = Len(ledger) + 1]
           b == [collection |-> op[p].target, previous |-> op[p].previous,
                 status |-> "building"]
<1>1. /\ op[p].pc = "begin" /\ op[p] \in Operation /\ op \in [Procs -> Operation]
      /\ op[p].owner <= asked
      /\ op[p].target \in Collections /\ op[p].previous \in Collections
      /\ ledger' = Append(ledger, b)
      /\ UNCHANGED <<persisted, collections, content, lease, live, rec, active, published, bounds>>
  BY DEF begin_index_build, At, IndexInv, IndexTypeOK, Owners, Building
<1>2. b \in Build
  BY <1>1 DEF Build
<1>3. ledger' \in Seq(Build) /\ Len(ledger') = Len(ledger) + 1
  <2> HIDE DEF b
  <2> QED BY <1>1, <1>2, StoresTyped
<1>4. /\ o \in Operation /\ o.pc = "complete" /\ o.owner = op[p].owner
      /\ o.row = Len(ledger) + 1
  <2>1. Len(ledger) + 1 \in Nat
    BY StoresTyped
  <2> HIDE DEF b
  <2> QED BY <1>1, <2>1 DEF Operation, OpPlace
<1>5. o.row \in 1 .. Len(ledger') /\ Len(ledger') >= Len(ledger)
  BY <1>3, <1>4, StoresTyped
<1>6. op' = [op EXCEPT ![p] = o]
  BY <1>1 DEF begin_index_build
<1> HIDE DEF o, b
<1> QED BY <1>1, <1>3, <1>4, <1>5, <1>6, StoresTyped, OpKeeps DEF bounds, Switching

\* The statuses of some builds are set.
LEMMA LedgerSet ==
    ASSUME IndexInv, NEW S, NEW status \in {"active", "switched"}
    PROVE  LET after == [k \in DOMAIN ledger |->
                            IF k \in S THEN [ledger[k] EXCEPT !.status = status] ELSE ledger[k]]
           IN  after \in Seq(Build) /\ Len(after) = Len(ledger)
<1>1. /\ ledger \in Seq(Build) /\ Len(ledger) \in Nat /\ DOMAIN ledger = 1 .. Len(ledger)
      /\ \A k \in 1 .. Len(ledger) : ledger[k] \in Build
  BY StoresTyped
<1>2. \A k \in 1 .. Len(ledger) : [ledger[k] EXCEPT !.status = status] \in Build
  BY <1>1 DEF Build
<1> QED BY <1>1, <1>2

LEMMA EndKeeps ==
    ASSUME IndexInv, NEW p \in Procs, OpDone(p),
           UNCHANGED <<persisted, collections, content, live, rec, active, published, bounds>>,
           ledger' \in Seq(Build), Len(ledger') = Len(ledger),
           lease' \in Lease, lease'.owner \in {0, lease.owner, op[p].owner}
    PROVE  IndexInv'
<1>1. op' = [op EXCEPT ![p] = NoOperation]
  BY DEF OpDone
<1>2. /\ 0 <= asked /\ Len(ledger') >= Len(ledger) /\ asked' >= asked
      /\ asked' \in 0 .. MaxAsked /\ faults' \in 0 .. MaxFaults /\ UNCHANGED starts
      /\ persisted' \in Pointers /\ live' \in [Procs -> Pointers]
      /\ collections' \subseteq Collections /\ content' \in [Collections -> SUBSET Versions]
  BY StoresTyped DEF bounds
<1>3. /\ NoOperation \in Operation /\ NoOperation.owner \in {0, op[p].owner, asked + 1}
      /\ NoOperation.owner <= asked' /\ NoOperation.pc = "idle"
  <2>1. NoOperation \in Operation /\ NoOperation.owner = 0 /\ NoOperation.pc = "idle"
    BY Requests
  <2>2. 0 <= asked'
    BY <1>2 DEF bounds
  <2> QED BY <2>1, <2>2
<1> QED BY <1>1, <1>2, <1>3, OpKeeps DEF Switching

LEMMA CompleteBuildKeeps ==
    ASSUME IndexInv, NEW p \in Procs, complete_index_build(p)
    PROVE  IndexInv'
<1> DEFINE after == [k \in DOMAIN ledger |->
                        IF k \in {op[p].row} THEN [ledger[k] EXCEPT !.status = "active"]
                        ELSE ledger[k]]
<1>1. ledger' = after
  BY DEF complete_index_build
<1>2. after \in Seq(Build) /\ Len(after) = Len(ledger)
  BY LedgerSet
<1> HIDE DEF after
<1> QED BY <1>1, <1>2, EndKeeps, StoresTyped DEF complete_index_build

-----------------------------------------------------------------------------
(* Switches and rollbacks.                                                 *)

\* An operation that switches has an owner of its own.
LEMMA SwitcherOwns ==
    ASSUME IndexInv, NEW p \in Procs, op[p].pc \in Switching
    PROVE  op[p].owner # 0 /\ op[p].owner <= asked
BY DEF IndexInv, Owners

LEMMA ReadPreviousKeeps ==
    ASSUME IndexInv, NEW p \in Procs, ReadPrevious(p)
    PROVE  IndexInv'
<1> DEFINE o == [op[p] EXCEPT !.pc = "lease", !.previous = persisted]
<1>1. /\ op[p].pc = "previous" /\ op[p] \in Operation /\ op \in [Procs -> Operation]
      /\ UNCHANGED <<stores, live, rec, active, published, bounds>>
  BY DEF ReadPrevious, At, IndexInv, IndexTypeOK
<1>2. op[p].owner # 0 /\ op[p].owner <= asked
  BY <1>1, SwitcherOwns DEF Switching
<1>3. o \in Operation /\ o.pc = "lease" /\ o.owner = op[p].owner
  BY <1>1, StoresTyped DEF Operation, OpPlace
<1>4. op' = [op EXCEPT ![p] = o]
  BY <1>1 DEF ReadPrevious
<1> HIDE DEF o
<1> QED BY <1>1, <1>2, <1>3, <1>4, StoresTyped, OpKeeps DEF stores, bounds, Switching

LEMMA AcquireKeeps ==
    ASSUME IndexInv, NEW p \in Procs, acquire_index_switch_lease(p)
    PROVE  IndexInv'
<1>1. /\ op[p].pc = "lease"
      /\ UNCHANGED <<persisted, collections, content, ledger, live, rec, active, published, bounds>>
  BY DEF acquire_index_switch_lease, At
<1>2. op[p].owner # 0 /\ op[p].owner <= asked /\ op[p].owner \in Nat
  BY <1>1, SwitcherOwns, OpParts DEF Switching, IndexInv
<1>3. CASE lease' = [owner |-> op[p].owner, expired |-> FALSE] /\ Goto(p, "flip")
  <2> DEFINE o == [op[p] EXCEPT !.pc = "flip"]
  <2>1. op' = [op EXCEPT ![p] = o] /\ o \in Operation /\ o.pc = "flip" /\ o.owner = op[p].owner
    BY <1>3, GotoParts DEF OpPlace
  <2>2. lease' \in Lease /\ lease'.owner = op[p].owner
    BY <1>2, <1>3 DEF Lease
  <2> HIDE DEF o
  <2> QED BY <1>1, <1>2, <2>1, <2>2, StoresTyped, OpKeeps DEF bounds, Switching
<1>4. CASE OpDone(p) /\ UNCHANGED lease
  BY <1>1, <1>4, StoresTyped, EndKeeps
<1> QED BY <1>3, <1>4 DEF acquire_index_switch_lease

\* The pointer and the builds it concerns.
LEMMA AtomicParts ==
    ASSUME IndexInv, NEW pointer \in Pointers, set_active_collection_atomic(pointer)
    PROVE  /\ persisted' = pointer /\ persisted' \in Pointers
           /\ ledger' \in Seq(Build) /\ Len(ledger') = Len(ledger)
           /\ Len(ledger') >= Len(ledger)
<1> DEFINE S == {k \in DOMAIN ledger : ledger[k].collection = pointer}
           after == [k \in DOMAIN ledger |->
                        IF k \in S THEN [ledger[k] EXCEPT !.status = "switched"] ELSE ledger[k]]
<1>1. ledger' = after /\ persisted' = pointer
  BY DEF set_active_collection_atomic
<1>2. after \in Seq(Build) /\ Len(after) = Len(ledger)
  BY LedgerSet
<1> HIDE DEF after
<1> QED BY <1>1, <1>2, StoresTyped

\* A switch flips the pointer only while it has the lease.
LEMMA FlipKeeps ==
    ASSUME IndexInv, NEW p \in Procs, Flip(p)
    PROVE  IndexInv'
<1>1. /\ op[p].pc = "flip"
      /\ UNCHANGED <<collections, content, lease, live, rec, active, published, bounds>>
  BY DEF Flip, At
<1>2. /\ op[p].owner # 0 /\ op[p].owner <= asked
      /\ op[p] \in Operation /\ op[p].target \in Pointers /\ op \in [Procs -> Operation]
  BY <1>1, SwitcherOwns, OpParts DEF Switching, IndexInv, IndexTypeOK
<1>3. CASE Holds(p) /\ set_active_collection_atomic(op[p].target) /\ Goto(p, "mirror")
  <2> DEFINE o == [op[p] EXCEPT !.pc = "mirror"]
  <2>1. /\ op' = [op EXCEPT ![p] = o] /\ o \in Operation /\ o.pc = "mirror"
        /\ o.owner = op[p].owner /\ o.target = op[p].target
    BY <1>3, GotoParts DEF OpPlace
  <2>2. /\ persisted' = op[p].target /\ persisted' \in Pointers
        /\ ledger' \in Seq(Build) /\ Len(ledger') >= Len(ledger)
    BY <1>2, <1>3, AtomicParts
  <2>3. lease.owner = op[p].owner
    BY <1>3 DEF Holds
  <2> HIDE DEF o
  <2> QED BY <1>1, <1>2, <2>1, <2>2, <2>3, StoresTyped, OpKeeps DEF bounds, Switching
<1>4. CASE /\ op' = [op EXCEPT ![p].pc = "release", ![p].failed = TRUE]
           /\ UNCHANGED <<persisted, ledger>>
  <2> DEFINE o == [op[p] EXCEPT !.pc = "release", !.failed = TRUE]
  <2>1. o \in Operation /\ o.pc = "release" /\ o.owner = op[p].owner /\ o.failed
    BY <1>2 DEF Operation, OpPlace
  <2>2. op' = [op EXCEPT ![p] = o]
    BY <1>2, <1>4
  <2> HIDE DEF o
  <2> QED BY <1>1, <1>2, <1>4, <2>1, <2>2, StoresTyped, OpKeeps DEF bounds, Switching
<1> QED BY <1>3, <1>4 DEF Flip

LEMMA MirrorKeeps ==
    ASSUME IndexInv, NEW p \in Procs, Mirror(p)
    PROVE  IndexInv'
<1>1. op[p].pc = "mirror" /\ UNCHANGED <<stores, rec, active, published, asked, starts>>
  BY DEF Mirror, At
<1>2. /\ op[p].owner # 0 /\ op[p].owner <= asked
      /\ op[p] \in Operation /\ op[p].target \in Pointers /\ op \in [Procs -> Operation]
  BY <1>1, SwitcherOwns, OpParts DEF Switching, IndexInv, IndexTypeOK
<1>3. CASE /\ live' = [live EXCEPT ![p] = op[p].target]
           /\ Goto(p, "release") /\ UNCHANGED faults
  <2> DEFINE o == [op[p] EXCEPT !.pc = "release"]
  <2>1. /\ op' = [op EXCEPT ![p] = o] /\ o \in Operation /\ o.pc = "release"
        /\ o.owner = op[p].owner /\ o.target = op[p].target
        /\ o.failed = op[p].failed /\ o.reset = op[p].reset
    BY <1>3, GotoParts DEF OpPlace
  <2>2. lease.owner = op[p].owner /\ ~op[p].failed /\ ~op[p].reset => persisted = op[p].target
    BY <1>1 DEF IndexInv, SwitchIsKept, At
  <2>3. live' \in [Procs -> Pointers]
    BY <1>2, <1>3, StoresTyped
  <2> HIDE DEF o
  <2> QED BY <1>1, <1>2, <1>3, <2>1, <2>2, <2>3, StoresTyped, OpKeeps DEF stores, Switching
<1>4. CASE /\ faults < MaxFaults /\ faults' = faults + 1
           /\ op' = [op EXCEPT ![p].pc = "compensate", ![p].failed = TRUE]
           /\ UNCHANGED live
  <2> DEFINE o == [op[p] EXCEPT !.pc = "compensate", !.failed = TRUE]
  <2>1. o \in Operation /\ o.pc = "compensate" /\ o.owner = op[p].owner /\ o.failed
    BY <1>2 DEF Operation, OpPlace
  <2>2. op' = [op EXCEPT ![p] = o]
    BY <1>2, <1>4
  <2>3. faults' \in 0 .. MaxFaults
    BY <1>4, StoresTyped, BoundsAssumption
  <2> HIDE DEF o
  <2> QED BY <1>1, <1>2, <1>4, <2>1, <2>2, <2>3, StoresTyped, OpKeeps DEF stores, Switching
<1> QED BY <1>3, <1>4 DEF Mirror

\* What is put back is put back by who still has the lease.
LEMMA CompensateKeeps ==
    ASSUME IndexInv, NEW p \in Procs, Compensate(p)
    PROVE  IndexInv'
<1> DEFINE o == [op[p] EXCEPT !.pc = "release"]
<1>1. /\ op[p].pc = "compensate" /\ op[p].failed
      /\ UNCHANGED <<collections, content, lease, live, rec, active, published, bounds>>
  BY DEF Compensate, At, IndexInv, Undone
<1>2. op[p].owner # 0 /\ op[p].owner <= asked /\ op[p].previous \in Pointers
  BY <1>1, SwitcherOwns, OpParts DEF Switching, IndexInv
<1>3. /\ op' = [op EXCEPT ![p] = o] /\ o \in Operation /\ o.pc = "release"
      /\ o.owner = op[p].owner /\ o.failed
  <2>1. Goto(p, "release") /\ "release" \in OpPlace
    BY DEF Compensate, OpPlace
  <2> QED BY <1>1, <2>1, GotoParts
<1>4. /\ persisted' \in Pointers /\ ledger' \in Seq(Build) /\ Len(ledger') >= Len(ledger)
      /\ persisted' # persisted => lease.owner = op[p].owner
  <2>1. CASE Holds(p)
    BY <1>2, <2>1, AtomicParts DEF Compensate, Holds
  <2>2. CASE ~Holds(p)
    BY <2>2, StoresTyped DEF Compensate
  <2> QED BY <2>1, <2>2
<1> HIDE DEF o
<1> QED BY <1>1, <1>2, <1>3, <1>4, StoresTyped, OpKeeps DEF bounds, Switching

LEMMA ReleaseKeeps ==
    ASSUME IndexInv, NEW p \in Procs, release_index_switch_lease(p)
    PROVE  IndexInv'
<1>1. lease' \in Lease /\ lease'.owner \in {0, lease.owner, op[p].owner}
  BY Requests, StoresTyped DEF release_index_switch_lease
<1> QED BY <1>1, EndKeeps, StoresTyped DEF release_index_switch_lease

LEMMA OperateKeeps == ASSUME IndexInv, NEW p \in Procs, Operate(p) PROVE IndexInv'
BY RowsKeeps, UpsertKeeps, BeginBuildKeeps, CompleteBuildKeeps, ReadPreviousKeeps,
   AcquireKeeps, FlipKeeps, MirrorKeeps, CompensateKeeps, ReleaseKeeps DEF Operate

-----------------------------------------------------------------------------
(* The lease's time, restarts, ingestion and the reconciler.               *)

LEMMA ExpiresKeeps == IndexInv /\ LeaseExpires => IndexInv'
<1> SUFFICES ASSUME IndexInv, LeaseExpires PROVE IndexInv'
  OBVIOUS
<1>1. /\ lease' \in Lease /\ lease'.owner = lease.owner
      /\ UNCHANGED <<persisted, collections, content, ledger, live, op, rec, active,
                     published, bounds>>
  BY StoresTyped DEF LeaseExpires, Lease
<1> QED BY <1>1 DEF IndexInv, IndexTypeOK, Building, Owners, Undone, SwitchIsKept, At, bounds

LEMMA RegisterKeeps ==
    ASSUME IndexInv, NEW p \in Procs, register_corpus(p)
    PROVE  IndexInv'
<1>1. /\ starts < MaxStarts /\ starts' = starts + 1 /\ persisted' = Configured
      /\ live' = [live EXCEPT ![p] = Configured]
      /\ op' = [q \in Procs |-> IF q = p THEN NoOperation ELSE [op[q] EXCEPT !.reset = TRUE]]
      /\ rec' = [rec EXCEPT ![p] = NoRun]
      /\ UNCHANGED <<collections, content, ledger, lease, active, published, asked, faults>>
  BY DEF register_corpus
<1>2. \A q \in Procs \ {p} :
         /\ op'[q] \in Operation /\ op'[q].reset
         /\ op'[q].pc = op[q].pc /\ op'[q].owner = op[q].owner /\ op'[q].row = op[q].row
         /\ op'[q].target = op[q].target /\ op'[q].previous = op[q].previous
         /\ op'[q].failed = op[q].failed
  <2> SUFFICES ASSUME NEW q \in Procs \ {p}
               PROVE  /\ op'[q] \in Operation /\ op'[q].reset
                      /\ op'[q].pc = op[q].pc /\ op'[q].owner = op[q].owner
                      /\ op'[q].row = op[q].row
                      /\ op'[q].target = op[q].target /\ op'[q].previous = op[q].previous
                      /\ op'[q].failed = op[q].failed
    OBVIOUS
  <2>1. op[q] \in Operation /\ op'[q] = [op[q] EXCEPT !.reset = TRUE]
    BY <1>1 DEF IndexInv, IndexTypeOK
  <2> QED BY <2>1 DEF Operation
<1>3. op'[p] = NoOperation /\ op'[p].pc = "idle" /\ op'[p].owner = 0 /\ op'[p] \in Operation
  BY <1>1, Requests
<1>4. op' \in [Procs -> Operation]
  BY <1>1, <1>2, <1>3
<1>5. starts' \in 0 .. MaxStarts /\ rec' \in [Procs -> Run] /\ live' \in [Procs -> Pointers]
  <2>1. starts' \in 0 .. MaxStarts
    BY <1>1, BoundsAssumption DEF IndexInv, IndexTypeOK
  <2>2. rec' \in [Procs -> Run]
    BY <1>1, Requests DEF IndexInv, IndexTypeOK
  <2>3. live' \in [Procs -> Pointers]
    BY <1>1, ConfiguredAssumption, StoresTyped
  <2> QED BY <2>1, <2>2, <2>3
<1>6. IndexTypeOK'
  BY <1>1, <1>2, <1>3, <1>4, <1>5, ConfiguredAssumption DEF IndexInv, IndexTypeOK, At
<1>7. Building' /\ Undone'
  BY <1>2, <1>3 DEF IndexInv, Building, Undone
<1>8. Owners'
  <2>1. lease'.owner <= asked'
    BY <1>1 DEF IndexInv, Owners
  <2>2. \A q \in Procs : op'[q].owner <= asked' /\ (op'[q].pc \in Switching => op'[q].owner # 0)
    BY <1>1, <1>2, <1>3, StoresTyped DEF IndexInv, Owners, Switching
  <2>3. \A q, r \in Procs : q # r /\ op'[q].owner = op'[r].owner => op'[q].owner = 0
    BY <1>2, <1>3 DEF IndexInv, Owners
  <2> QED BY <2>1, <2>2, <2>3 DEF Owners
<1>9. SwitchIsKept'
  BY <1>2, <1>3 DEF SwitchIsKept, At
<1> QED BY <1>6, <1>7, <1>8, <1>9 DEF IndexInv

\* What leaves the pointer, the lease and the operations alone.
LEMMA ApartKeeps ==
    ASSUME IndexInv,
           UNCHANGED <<persisted, collections, ledger, lease, op, bounds>>,
           live' \in [Procs -> Pointers], content' \in [Collections -> SUBSET Versions],
           rec' \in [Procs -> Run], active' \in Versions \cup {None},
           published' \subseteq Versions
    PROVE  IndexInv'
BY DEF IndexInv, IndexTypeOK, Building, Owners, Undone, SwitchIsKept, At, bounds

LEMMA PublishKeeps ==
    ASSUME IndexInv, NEW v \in Versions, Publish(v)
    PROVE  IndexInv'
<1>1. content' \in [Collections -> SUBSET Versions]
  BY StoresTyped DEF Publish
<1> QED BY <1>1, StoresTyped, ApartKeeps DEF Publish, IndexInv, IndexTypeOK

LEMMA ReconcileKeeps == ASSUME IndexInv, NEW p \in Procs, Reconcile(p) PROVE IndexInv'
<1>1. /\ rec \in [Procs -> Run] /\ active \in Versions \cup {None} /\ published \subseteq Versions
      /\ rec[p] \in Run
  BY DEF IndexInv, IndexTypeOK
<1>2. CASE Realign(p)
  <2>1. Effective(persisted) \in Pointers
    BY Effectives, StoresTyped DEF Pointers
  <2>2. live' \in [Procs -> Pointers]
    BY <1>2, <2>1, StoresTyped DEF Realign
  <2>3. [NoRun EXCEPT !.pc = "snapshot", !.collection = Effective(persisted)] \in Run
    BY <2>1 DEF NoRun, Run
  <2>4. rec' \in [Procs -> Run]
    BY <1>1, <1>2, <2>3 DEF Realign
  <2> QED BY <1>1, <1>2, <2>2, <2>4, StoresTyped, ApartKeeps DEF Realign, stores
<1>3. CASE Snapshot(p)
  <2>1. [rec[p] EXCEPT !.pc = "repair", !.seen = ActiveRows] \in Run
    BY <1>1, StoresTyped DEF Run
  <2>2. rec' = [rec EXCEPT ![p] = [rec[p] EXCEPT !.pc = "repair", !.seen = ActiveRows]]
    BY <1>1, <1>3 DEF Snapshot
  <2>3. rec' \in [Procs -> Run]
    BY <1>1, <2>1, <2>2
  <2> QED BY <1>1, <1>3, <2>3, StoresTyped, ApartKeeps DEF Snapshot, stores
<1>4. CASE Repair(p)
  <2>1. rec[p].seen \subseteq Versions
    BY <1>1 DEF Run
  <2>2. content' \in [Collections -> SUBSET Versions] /\ rec' \in [Procs -> Run]
    BY <1>1, <1>4, <2>1, Requests, StoresTyped DEF Repair
  <2> QED BY <1>1, <1>4, <2>2, StoresTyped, ApartKeeps DEF Repair
<1> QED BY <1>2, <1>3, <1>4 DEF Reconcile

LEMMA IndexStep == IndexInv /\ [IndexNext]_indexVars => IndexInv'
<1> SUFFICES ASSUME IndexInv, [IndexNext]_indexVars PROVE IndexInv'
  OBVIOUS
<1>1. CASE UNCHANGED indexVars
  BY <1>1, StoresTyped, ApartKeeps DEF indexVars, stores, bounds, IndexInv, IndexTypeOK
<1>2. CASE IndexNext
  BY <1>2, RequestKeeps, OperateKeeps, ReconcileKeeps, RegisterKeeps, PublishKeeps,
     ExpiresKeeps DEF IndexNext
<1> QED BY <1>1, <1>2

\* The invariant behind the theorems below.
LEMMA IndexInvariant == IndexSpec => []IndexInv
BY IndexInit_, IndexStep, PTL DEF IndexSpec

\* The stores, the ledger of the builds and the operations keep their types.
THEOREM IndexTypeCorrect == IndexSpec => []IndexTypeOK
<1>1. IndexInv => IndexTypeOK
  BY DEF IndexInv
<1> QED BY <1>1, IndexInvariant, PTL

\* _switch_pointer: while a switch has its lease, nobody else moves the pointer
\* it set, whatever leases expire, and a compensation is not the exception.
THEOREM SwitchIsKeptHolds == IndexSpec => []SwitchIsKept
<1>1. IndexInv => SwitchIsKept
  BY DEF IndexInv
<1> QED BY <1>1, IndexInvariant, PTL
=============================================================================
