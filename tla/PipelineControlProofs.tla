------------------------ MODULE PipelineControlProofs ------------------------
(***************************************************************************)
(* Machine-checked proofs about what a host steers operators with.  About  *)
(* PipelineControl, for every plan, every set of callers and of requests   *)
(* and every set of calls: ControlInv is about the callers of Control and  *)
(* the Nodes' configurations; BoardInv, which rests on it, about the       *)
(* requests that run meanwhile and their boards.  About OperatorHandles,   *)
(* the table that a call of Control and all others pass through, for every *)
(* set of threads and of addresses: HandlesInv.  The two specifications    *)
(* have no variable in common.                                             *)
(***************************************************************************)
EXTENDS PipelineControl, OperatorHandles, NaturalsInduction, WellFoundedInduction,
        SequenceTheorems, TLAPS

-----------------------------------------------------------------------------
(* The inductive invariant *)

CallRecord ==
  [pc : {"idle", "telling", "updating", "returned"},
   request : Calls \cup {None},
   left : SUBSET Node,
   next : Config \cup {None},
   failure : {"", "invalid_argument", "internal_exception", "node_code"},
   handled : BOOLEAN,
   code : {"", "invalid_argument", "internal_exception", "node_code",
           "unsupported_control"},
   stage : {"none", "node", "request", "unsupported"},
   told : SUBSET Node,
   stored : SUBSET AuthorNodes,
   calls : Nat]

ControlTypeOK ==
  /\ snapshot \in [AuthorNodes -> Config]
  /\ writer \in [AuthorNodes -> Caller \cup {None}]
  /\ call \in [Caller -> CallRecord]

(* What one caller has done and has left to do is what it addressed, and   *)
(* it has told a Node only if all its targets could take the call.         *)
ToldWhatFits(c) ==
  /\ c.pc # "idle" => c.request \in Calls
  /\ c.pc \in {"telling", "updating"} =>
       Stage(c.request) = "node" /\ c.told \cup c.left = Targets(c.request)
  /\ c.told # {} => Stage(c.request) = "node"
  /\ c.told \cap c.left = {}
  /\ c.pc = "updating" => c.left # {}

StoredWhatSucceeded(c) ==
  /\ c.stored \subseteq c.told
  /\ c.failure = "" => c.stored = c.told \cap AuthorNodes
  /\ c.stored # {} => c.handled

ReturnedWhatHappened(c) ==
  c.pc = "returned" =>
    /\ c.stage \in {"none", "node"} => c.told = Targets(c.request)
    /\ c.stage = "none" => c.failure = ""
    /\ c.stage \in {"request", "unsupported"} => c.stored = {}

CallsAreConsistent ==
  \A t \in Caller :
    /\ ToldWhatFits(call[t])
    /\ StoredWhatSucceeded(call[t])
    /\ ReturnedWhatHappened(call[t])

(* Whoever has read a configuration to replace it holds its lock, so that  *)
(* the configuration is still in force.                                    *)
UpdatesHoldTheLock ==
  \A t \in Caller : call[t].pc = "updating" =>
    /\ NextTarget(t) \in AuthorNodes
    /\ writer[NextTarget(t)] = t
    /\ call[t].next = Assign(snapshot[NextTarget(t)], call[t].request.fields)

ControlInv == ControlTypeOK /\ CallsAreConsistent /\ UpdatesHoldTheLock
-----------------------------------------------------------------------------
(* Lemmas *)

(* A set of natural numbers has a least one. *)
LEMMA LeastNatural ==
  ASSUME NEW T \in SUBSET Nat, T # {}
  PROVE  \E x \in T : \A y \in T : x <= y
<1> DEFINE R == OpToRel(<, Nat)
<1>1. \E x \in T : \A y \in T : ~ (<<y, x>> \in R)
  BY NatLessThanWellFounded, WFMin
<1>2. \A x, y \in Nat : y < x => <<y, x>> \in R
  BY DEF OpToRel
<1> HIDE DEF R
<1>3. PICK x \in T : \A y \in T : ~ (<<y, x>> \in R)
  BY <1>1
<1>4. \A y \in T : ~ (y < x)
  BY <1>2, <1>3
<1>5. \A y \in T : x <= y
  BY <1>4
<1> QED BY <1>5

(* The first of some Nodes is one of them. *)
LEMMA EarliestIsMember ==
  ASSUME NEW S \in SUBSET Node, S # {}
  PROVE  Earliest(S) \in S
<1>1. \A n \in Node : Position(n) \in Nat
  <2> SUFFICES ASSUME NEW n \in Node PROVE Position(n) \in Nat
    OBVIOUS
  <2>1. \E i \in DOMAIN Plan : Plan[i] = n
    BY DEF Node, Range
  <2>2. Position(n) \in DOMAIN Plan
    BY <2>1 DEF Position
  <2>3. DOMAIN Plan = 1 .. Len(Plan) /\ Len(Plan) \in Nat
    BY ControlAssumption
  <2> QED BY <2>2, <2>3
<1>2. \E p \in {Position(n) : n \in S} : \A q \in {Position(n) : n \in S} : p <= q
  <2> DEFINE T == {Position(n) : n \in S}
  <2>1. T \in SUBSET Nat /\ T # {}
    BY <1>1
  <2> HIDE DEF T
  <2>2. \E p \in T : \A q \in T : p <= q
    BY <2>1, LeastNatural
  <2> QED BY <2>2 DEF T
<1>3. \E n \in S : \A m \in S : Position(n) <= Position(m)
  BY <1>2
<1> QED BY <1>3 DEF Earliest

(* Control tells its targets only what all of them can take. *)
LEMMA NodeStageFits ==
  ASSUME NEW c, Stage(c) = "node"
  PROVE  \A n \in Targets(c) : FitsSchema(c, n)
BY DEF Stage

(* What a call addresses are Nodes of the plan.                            *)
LEMMA TargetsAreNodes ==
  ASSUME NEW c
  PROVE  Targets(c) \subseteq Node
BY DEF Targets, Addressed

(* Values of their schemas, assigned to a configuration, give another. *)
LEMMA AssignGivesConfig ==
  ASSUME NEW config \in Config, NEW c \in Calls, NEW n \in AuthorNodes, FitsSchema(c, n)
  PROVE  Assign(config, c.fields) \in Config
<1>1. \A f \in DOMAIN c.fields : c.fields[f] \in Schema[f]
  BY DEF FitsSchema
<1>2. \A f \in Field : Schema[f] \in Range(Schema)
  BY ControlAssumption DEF Range
<1>3. \A f \in Field : f \in DOMAIN c.fields => c.fields[f] \in UNION Range(Schema)
  BY <1>1, <1>2
<1> QED BY <1>3 DEF Assign, Config

(* A Node's answer: whatever it is, the books of the caller stay right.    *)
LEMMA AnsweredKeepsBooks ==
  ASSUME ControlTypeOK, CallsAreConsistent, NEW t \in Caller,
         call[t].pc \in {"telling", "updating"}, call[t].left # {},
         NEW status \in {"unsupported", "handled", "failed"},
         NEW code \in {"", "invalid_argument", "internal_exception", "node_code"},
         NextTarget(t) \in AuthorNodes => status # "unsupported",
         NEW stores,
         stores = IF status = "handled" THEN {NextTarget(t)} \cap AuthorNodes ELSE {},
         Answered(t, status, code, stores)
  PROVE  /\ call' \in [Caller -> CallRecord]
         /\ CallsAreConsistent'
         /\ call'[t].pc = "telling"
         /\ \A u \in Caller \ {t} : call'[u] = call[u]
<1> DEFINE n == NextTarget(t)
           old == call[t]
           fail == IF status = "failed" /\ old.failure = ""
                   THEN IF code = "" THEN "internal_exception" ELSE code
                   ELSE old.failure
           hand == old.handled \/ status = "handled"
           new == [old EXCEPT !.pc = "telling", !.left = @ \ {n}, !.next = None,
                              !.handled = hand,
                              !.told = @ \cup {n},
                              !.stored = @ \cup stores,
                              !.failure = fail]
<1>1. old \in CallRecord
  BY DEF ControlTypeOK
<1>2. n \in old.left /\ n \in Node
  <2>1. old.left \in SUBSET Node
    BY <1>1 DEF CallRecord
  <2> QED BY <2>1, EarliestIsMember DEF NextTarget
<1>3. call' = [call EXCEPT ![t] = new]
  BY DEF Answered
<1>4. call'[t] = new /\ \A u \in Caller \ {t} : call'[u] = call[u]
  BY <1>3 DEF ControlTypeOK
<1> HIDE DEF n
<1>5. stores \subseteq {n} /\ stores \subseteq AuthorNodes
  BY DEF n
<1>6. fail \in {"", "invalid_argument", "internal_exception", "node_code"}
  <2>1. old.failure \in {"", "invalid_argument", "internal_exception", "node_code"}
    BY <1>1 DEF CallRecord
  <2> HIDE DEF old
  <2> QED BY <2>1
<1>14. fail = "" => old.failure = "" /\ status # "failed"
  <2> HIDE DEF old
  <2> QED OBVIOUS
<1> HIDE DEF fail
<1>7. /\ new.pc = "telling" /\ new.left = old.left \ {n}
      /\ new.handled = (old.handled \/ status = "handled")
      /\ new.told = old.told \cup {n} /\ new.stored = old.stored \cup stores
      /\ new.failure = fail /\ new.request = old.request /\ new.stage = old.stage
  BY <1>1 DEF CallRecord
<1>8. new \in CallRecord
  <2> DEFINE left == old.left \ {n}
             told == old.told \cup {n}
             stored == old.stored \cup stores
  <2>1. /\ left \in SUBSET Node /\ None \in Config \cup {None}
        /\ told \in SUBSET Node /\ stored \in SUBSET AuthorNodes
    BY <1>1, <1>2, <1>5 DEF CallRecord
  <2>2. hand \in BOOLEAN
    OBVIOUS
  <2>3. new = [old EXCEPT !.pc = "telling", !.left = left, !.next = None,
                          !.handled = hand, !.told = told, !.stored = stored,
                          !.failure = fail]
    OBVIOUS
  <2> HIDE DEF new, hand, left, told, stored, old
  <2> QED BY <1>1, <1>6, <2>1, <2>2, <2>3 DEF CallRecord
<1>9. call' \in [Caller -> CallRecord]
  BY <1>3, <1>8 DEF ControlTypeOK
<1>10. ToldWhatFits(new)
  <2>1. ToldWhatFits(old)
    BY DEF CallsAreConsistent
  <2>2. /\ n \in old.left /\ old.pc \in {"telling", "updating"}
        /\ new.pc = "telling" /\ new.request = old.request
        /\ new.told = old.told \cup {n} /\ new.left = old.left \ {n}
    BY <1>2, <1>7
  <2> HIDE DEF new, old
  <2>3. new.told \cup new.left = old.told \cup old.left /\ new.told \cap new.left = {}
    BY <2>1, <2>2 DEF ToldWhatFits
  <2> QED BY <2>1, <2>2, <2>3 DEF ToldWhatFits
<1>11. StoredWhatSucceeded(new)
  <2>1. StoredWhatSucceeded(old)
    BY DEF CallsAreConsistent
  <2>2. new.failure = "" => old.failure = "" /\ status # "failed"
    BY <1>7, <1>14
  <2>3. status # "failed" => stores = {n} \cap AuthorNodes
    BY DEF n
  <2>4. new.failure = "" => new.stored = new.told \cap AuthorNodes
    BY <1>7, <2>1, <2>2, <2>3 DEF StoredWhatSucceeded
  <2>5. new.stored # {} => new.handled
    BY <1>7, <2>1 DEF StoredWhatSucceeded
  <2> QED BY <1>5, <1>7, <2>1, <2>4, <2>5 DEF StoredWhatSucceeded
<1>12. ReturnedWhatHappened(new)
  BY <1>7 DEF ReturnedWhatHappened
<1>13. CallsAreConsistent'
  <2> SUFFICES ASSUME NEW u \in Caller
               PROVE  /\ ToldWhatFits(call'[u])
                      /\ StoredWhatSucceeded(call'[u])
                      /\ ReturnedWhatHappened(call'[u])
    BY DEF CallsAreConsistent
  <2>1. CASE u = t
    BY <2>1, <1>4, <1>10, <1>11, <1>12
  <2>2. CASE u # t
    BY <2>2, <1>4 DEF CallsAreConsistent
  <2> QED BY <2>1, <2>2
<1> QED BY <1>4, <1>7, <1>9, <1>13

(* An update under a lock is not disturbed by a step of another caller     *)
(* that leaves the locks of others and what they protect alone.            *)
LEMMA OthersKeepTheLock ==
  ASSUME ControlTypeOK, UpdatesHoldTheLock, NEW t \in Caller,
         \A u \in Caller \ {t} : call'[u] = call[u],
         \A n \in AuthorNodes : writer[n] \in Caller \ {t} =>
            writer'[n] = writer[n] /\ snapshot'[n] = snapshot[n],
         call'[t].pc = "updating" =>
            /\ NextTarget(t)' \in AuthorNodes
            /\ writer'[NextTarget(t)'] = t
            /\ call'[t].next = Assign(snapshot'[NextTarget(t)'], call'[t].request.fields)
  PROVE  UpdatesHoldTheLock'
<1> SUFFICES ASSUME NEW u \in Caller, call'[u].pc = "updating"
             PROVE  /\ NextTarget(u)' \in AuthorNodes
                    /\ writer'[NextTarget(u)'] = u
                    /\ call'[u].next = Assign(snapshot'[NextTarget(u)'], call'[u].request.fields)
  BY DEF UpdatesHoldTheLock, Assign
<1>1. CASE u = t
  BY <1>1
<1>2. CASE u # t
  <2>1. NextTarget(u)' = NextTarget(u)
    BY <1>2 DEF NextTarget
  <2> QED BY <1>2, <2>1 DEF UpdatesHoldTheLock
<1> QED BY <1>1, <1>2

-----------------------------------------------------------------------------
(* Each step keeps the invariant *)

(* No call is under way at first.                                          *)
LEMMA InitControlInv == Init => ControlInv
<1> SUFFICES ASSUME Init PROVE ControlInv
  OBVIOUS
<1>1. NoCall \in CallRecord
  BY DEF NoCall, CallRecord
<1>2. ControlTypeOK
  BY <1>1, ControlAssumption DEF Init, ControlTypeOK
<1>3. CallsAreConsistent
  BY DEF Init, NoCall, CallsAreConsistent, ToldWhatFits, StoredWhatSucceeded,
         ReturnedWhatHappened
<1>4. UpdatesHoldTheLock
  BY DEF Init, NoCall, UpdatesHoldTheLock
<1> QED BY <1>2, <1>3, <1>4 DEF ControlInv

(* Starting or ending a call: only the caller's record changes. *)
LEMMA RecordKeepsInv ==
  ASSUME ControlInv, NEW t \in Caller, NEW record \in CallRecord,
         call' = [call EXCEPT ![t] = record],
         record.pc # "updating",
         ToldWhatFits(record), StoredWhatSucceeded(record), ReturnedWhatHappened(record),
         UNCHANGED <<snapshot, writer>>
  PROVE  ControlInv'
<1>1. call'[t] = record /\ \A u \in Caller \ {t} : call'[u] = call[u]
  BY DEF ControlInv, ControlTypeOK
<1>2. ControlTypeOK'
  BY DEF ControlInv, ControlTypeOK
<1>3. CallsAreConsistent'
  BY <1>1 DEF ControlInv, CallsAreConsistent
<1>4. UpdatesHoldTheLock'
  BY <1>1, OthersKeepTheLock DEF ControlInv
<1> QED BY <1>2, <1>3, <1>4 DEF ControlInv

(* A call is turned down before any Node is told, or it begins to tell.    *)
LEMMA StartControlKeepsInv ==
  ASSUME ControlInv, NEW t \in Caller, StartControl(t)
  PROVE  ControlInv'
<1>1. PICK c \in Calls :
        LET record == [NoCall EXCEPT !.request = c, !.calls = call[t].calls + 1] IN
        call' = [call EXCEPT ![t] =
          CASE Stage(c) = "request" -> Finished(record, "invalid_argument", "request")
            [] Stage(c) = "unsupported" ->
                 Finished(record, "unsupported_control", "unsupported")
            [] OTHER -> [record EXCEPT !.pc = "telling", !.left = Targets(c)]]
  BY DEF StartControl
<1> DEFINE record == [NoCall EXCEPT !.request = c, !.calls = call[t].calls + 1]
           rejected == Finished(record, "invalid_argument", "request")
           unknown == Finished(record, "unsupported_control", "unsupported")
           telling == [record EXCEPT !.pc = "telling", !.left = Targets(c)]
<1>2. call[t].calls + 1 \in Nat
  <2>1. call[t] \in CallRecord
    BY DEF ControlInv, ControlTypeOK
  <2>2. call[t].calls \in Nat
    BY <2>1 DEF CallRecord
  <2> QED BY <2>2
<1>3. UNCHANGED <<snapshot, writer>>
  BY DEF StartControl
<1>4. Targets(c) \in SUBSET Node
  BY TargetsAreNodes
<1>5. CASE Stage(c) = "request"
  <2>1. rejected \in CallRecord
    BY <1>2 DEF CallRecord, Finished, NoCall
  <2>2. /\ ToldWhatFits(rejected) /\ StoredWhatSucceeded(rejected)
        /\ ReturnedWhatHappened(rejected) /\ rejected.pc # "updating"
    BY DEF Finished, NoCall, ToldWhatFits, StoredWhatSucceeded, ReturnedWhatHappened
  <2>3. call' = [call EXCEPT ![t] = rejected]
    BY <1>1, <1>5
  <2> HIDE DEF rejected
  <2> QED BY <1>3, <2>1, <2>2, <2>3, RecordKeepsInv
<1>6. CASE Stage(c) = "unsupported"
  <2>1. unknown \in CallRecord
    BY <1>2 DEF CallRecord, Finished, NoCall
  <2>2. /\ ToldWhatFits(unknown) /\ StoredWhatSucceeded(unknown)
        /\ ReturnedWhatHappened(unknown) /\ unknown.pc # "updating"
    BY DEF Finished, NoCall, ToldWhatFits, StoredWhatSucceeded, ReturnedWhatHappened
  <2>3. call' = [call EXCEPT ![t] = unknown]
    BY <1>1, <1>6
  <2> HIDE DEF unknown
  <2> QED BY <1>3, <2>1, <2>2, <2>3, RecordKeepsInv
<1>7. CASE Stage(c) = "node"
  <2>1. telling \in CallRecord
    BY <1>2, <1>4 DEF CallRecord, NoCall
  <2>2. /\ ToldWhatFits(telling) /\ StoredWhatSucceeded(telling)
        /\ ReturnedWhatHappened(telling) /\ telling.pc # "updating"
    BY <1>7 DEF NoCall, ToldWhatFits, StoredWhatSucceeded, ReturnedWhatHappened
  <2>3. call' = [call EXCEPT ![t] = telling]
    BY <1>1, <1>7
  <2> HIDE DEF telling
  <2> QED BY <1>3, <2>1, <2>2, <2>3, RecordKeepsInv
<1>8. Stage(c) \in {"request", "unsupported", "node"}
  BY DEF Stage
<1> QED BY <1>5, <1>6, <1>7, <1>8

(* What a Node with its own ControlNode answers goes into the books.       *)
LEMMA TellHandWrittenKeepsInv ==
  ASSUME ControlInv, NEW t \in Caller, TellHandWritten(t)
  PROVE  ControlInv'
<1>1. PICK status \in {"unsupported", "handled", "failed"}, code \in {"", "node_code"} :
        Answered(t, status, code, {})
  BY DEF TellHandWritten
<1>2. NextTarget(t) \notin AuthorNodes
  BY DEF TellHandWritten, AuthorNodes
<1>3. /\ ControlTypeOK /\ CallsAreConsistent
      /\ call[t].pc \in {"telling", "updating"} /\ call[t].left # {}
  BY DEF ControlInv, TellHandWritten, Telling
<1>4. /\ call' \in [Caller -> CallRecord] /\ CallsAreConsistent'
      /\ call'[t].pc = "telling" /\ \A u \in Caller \ {t} : call'[u] = call[u]
  <2> DEFINE stores == IF status = "handled" THEN {NextTarget(t)} \cap AuthorNodes ELSE {}
  <2>1. stores = {}
    BY <1>2
  <2>2. Answered(t, status, code, stores)
    BY <1>1, <2>1
  <2> HIDE DEF stores
  <2>3. code \in {"", "invalid_argument", "internal_exception", "node_code"}
    OBVIOUS
  <2> QED BY <1>2, <1>3, <2>2, <2>3, AnsweredKeepsBooks DEF stores
<1>5. UNCHANGED <<snapshot, writer>>
  BY DEF TellHandWritten
<1>6. ControlTypeOK'
  BY <1>4, <1>5 DEF ControlInv, ControlTypeOK
<1>7. UpdatesHoldTheLock'
  BY <1>4, <1>5, OthersKeepTheLock DEF ControlInv
<1> QED BY <1>4, <1>6, <1>7 DEF ControlInv

(* In an update every target fits, so that the second check of the payload *)
(* never fails and the configuration to come is well formed.               *)
LEMMA LockSnapshotKeepsInv ==
  ASSUME ControlInv, NEW t \in Caller, LockSnapshot(t)
  PROVE  ControlInv'
<1> DEFINE n == NextTarget(t)
           old == call[t]
           next == Assign(snapshot[n], old.request.fields)
           new == [old EXCEPT !.pc = "updating", !.next = next]
<1>1. /\ old \in CallRecord /\ snapshot \in [AuthorNodes -> Config]
      /\ writer \in [AuthorNodes -> Caller \cup {None}]
      /\ ToldWhatFits(old) /\ StoredWhatSucceeded(old)
  BY DEF ControlInv, ControlTypeOK, CallsAreConsistent
<1>2. old.pc = "telling" /\ old.left # {} /\ n \in AuthorNodes
  BY DEF LockSnapshot, Telling
<1>3. n \in old.left
  <2>1. old.left \in SUBSET Node
    BY <1>1 DEF CallRecord
  <2> QED BY <1>2, <2>1, EarliestIsMember DEF NextTarget
<1>4. old.request \in Calls /\ FitsSchema(old.request, n)
  <2>1. /\ old.request \in Calls /\ Stage(old.request) = "node"
        /\ n \in Targets(old.request)
    BY <1>1, <1>2, <1>3 DEF ToldWhatFits
  <2> QED BY <2>1, NodeStageFits
<1>5. /\ writer[n] = None /\ writer' = [writer EXCEPT ![n] = t]
      /\ call' = [call EXCEPT ![t].pc = "updating", ![t].next = next]
      /\ snapshot' = snapshot
  BY <1>4 DEF LockSnapshot
<1>6. next \in Config
  BY <1>1, <1>2, <1>4, AssignGivesConfig
<1> HIDE DEF next, n
<1>7. /\ call' = [call EXCEPT ![t] = new] /\ call'[t] = new
      /\ \A u \in Caller \ {t} : call'[u] = call[u]
  BY <1>5 DEF ControlInv, ControlTypeOK
<1>8. /\ new.pc = "updating" /\ new.next = next
      /\ new.left = old.left /\ new.told = old.told /\ new.stored = old.stored
      /\ new.request = old.request /\ new.failure = old.failure
      /\ new.handled = old.handled
  BY <1>1 DEF CallRecord
<1>9. new \in CallRecord
  <2> HIDE DEF old
  <2> QED BY <1>1, <1>6 DEF CallRecord
<1>10. ToldWhatFits(new) /\ StoredWhatSucceeded(new) /\ ReturnedWhatHappened(new)
  <2> HIDE DEF new, old
  <2> QED BY <1>1, <1>2, <1>8 DEF ToldWhatFits, StoredWhatSucceeded, ReturnedWhatHappened
<1> HIDE DEF new
<1>11. ControlTypeOK'
  BY <1>1, <1>5, <1>7, <1>9 DEF ControlInv, ControlTypeOK
<1>12. CallsAreConsistent'
  BY <1>7, <1>10 DEF ControlInv, CallsAreConsistent
<1>13. NextTarget(t)' = n
  BY <1>7, <1>8 DEF NextTarget, n
<1>14. UpdatesHoldTheLock'
  <2>1. \A m \in AuthorNodes : writer[m] \in Caller \ {t} =>
           writer'[m] = writer[m] /\ snapshot'[m] = snapshot[m]
    BY <1>1, <1>5, ControlAssumption
  <2>2. writer'[n] = t
    BY <1>1, <1>2, <1>5
  <2>3. call'[t].next = Assign(snapshot'[n], call'[t].request.fields)
    BY <1>5, <1>7, <1>8 DEF next
  <2> QED BY <1>2, <1>7, <1>13, <2>1, <2>2, <2>3, OthersKeepTheLock DEF ControlInv, n
<1> QED BY <1>11, <1>12, <1>14 DEF ControlInv

(* The end of an update, stored or refused. *)
LEMMA UpdateKeepsInv ==
  ASSUME ControlInv, NEW t \in Caller, call[t].pc = "updating",
         NEW status \in {"handled", "failed"},
         NEW code \in {"", "invalid_argument", "internal_exception", "node_code"},
         Answered(t, status, code, IF status = "handled" THEN {NextTarget(t)} ELSE {}),
         writer' = [writer EXCEPT ![NextTarget(t)] = None],
         \/ snapshot' = snapshot
         \/ snapshot' = [snapshot EXCEPT ![NextTarget(t)] = call[t].next]
  PROVE  ControlInv'
<1> DEFINE n == NextTarget(t)
           stores == IF status = "handled" THEN {n} \cap AuthorNodes ELSE {}
<1>1. /\ ControlTypeOK /\ CallsAreConsistent /\ UpdatesHoldTheLock
      /\ call[t].left # {}
  BY DEF ControlInv, CallsAreConsistent, ToldWhatFits
<1>2. n \in AuthorNodes /\ writer[n] = t
      /\ call[t].next = Assign(snapshot[n], call[t].request.fields)
  BY <1>1 DEF UpdatesHoldTheLock
<1>3. Answered(t, status, code, stores)
  <2>1. stores = IF status = "handled" THEN {n} ELSE {}
    BY <1>2
  <2> QED BY <2>1
<1>4. /\ call' \in [Caller -> CallRecord] /\ CallsAreConsistent'
      /\ call'[t].pc = "telling" /\ \A u \in Caller \ {t} : call'[u] = call[u]
  <2>1. status \in {"unsupported", "handled", "failed"} /\ status # "unsupported"
    OBVIOUS
  <2> HIDE DEF stores
  <2> QED BY <1>1, <1>3, <2>1, AnsweredKeepsBooks DEF stores
<1>5. snapshot \in [AuthorNodes -> Config]
      /\ writer \in [AuthorNodes -> Caller \cup {None}]
  BY <1>1 DEF ControlTypeOK
<1>6. call[t].next \in Config
  <2>1. call[t].request \in Calls /\ FitsSchema(call[t].request, n)
    <3>1. call[t].left \in SUBSET Node
      BY <1>1 DEF ControlTypeOK, CallRecord
    <3>2. n \in call[t].left
      BY <1>1, <3>1, EarliestIsMember DEF NextTarget
    <3>3. /\ call[t].request \in Calls /\ Stage(call[t].request) = "node"
          /\ n \in Targets(call[t].request)
      BY <1>1, <3>2 DEF CallsAreConsistent, ToldWhatFits
    <3> QED BY <3>3, NodeStageFits
  <2>2. snapshot[n] \in Config
    BY <1>2, <1>5
  <2>3. Assign(snapshot[n], call[t].request.fields) \in Config
    BY <1>2, <2>1, <2>2, AssignGivesConfig
  <2> QED BY <1>2, <2>3
<1>7. ControlTypeOK'
  BY <1>2, <1>4, <1>5, <1>6 DEF ControlTypeOK
<1>8. \A m \in AuthorNodes : writer[m] \in Caller \ {t} =>
         writer'[m] = writer[m] /\ snapshot'[m] = snapshot[m]
  BY <1>2, <1>5
<1>9. UpdatesHoldTheLock'
  BY <1>1, <1>4, <1>8, OthersKeepTheLock
<1> QED BY <1>4, <1>7, <1>9 DEF ControlInv

(* An accepted configuration takes the place of the one it was made from.  *)
LEMMA StoreSnapshotKeepsInv ==
  ASSUME ControlInv, NEW t \in Caller, StoreSnapshot(t)
  PROVE  ControlInv'
<1>1. /\ call[t].pc = "updating"
      /\ Answered(t, "handled", "", {NextTarget(t)})
      /\ writer' = [writer EXCEPT ![NextTarget(t)] = None]
      /\ snapshot' = [snapshot EXCEPT ![NextTarget(t)] = call[t].next]
  BY DEF StoreSnapshot
<1>2. Answered(t, "handled", "", IF "handled" = "handled" THEN {NextTarget(t)} ELSE {})
  BY <1>1
<1> QED BY <1>1, <1>2, UpdateKeepsInv

(* A refused one gives the lock back and changes nothing.                  *)
LEMMA RefuseUpdateKeepsInv ==
  ASSUME ControlInv, NEW t \in Caller, RefuseUpdate(t)
  PROVE  ControlInv'
<1>1. /\ call[t].pc = "updating" /\ snapshot' = snapshot
      /\ writer' = [writer EXCEPT ![NextTarget(t)] = None]
  BY DEF RefuseUpdate
<1>2. PICK code \in {"invalid_argument", "internal_exception"} :
        Answered(t, "failed", code, {})
  BY DEF RefuseUpdate
<1>3. Answered(t, "failed", code, IF "failed" = "handled" THEN {NextTarget(t)} ELSE {})
  BY <1>2
<1> QED BY <1>1, <1>3, UpdateKeepsInv

(* A call that has told all returns what the books say.                    *)
LEMMA ReturnControlKeepsInv ==
  ASSUME ControlInv, NEW t \in Caller, ReturnControl(t)
  PROVE  ControlInv'
<1> DEFINE old == call[t]
           failed == Finished(old, old.failure, "node")
           handled == Finished(old, "", "none")
           unsupported == Finished(old, "unsupported_control", "unsupported")
<1>1. /\ old \in CallRecord /\ old.pc = "telling" /\ old.left = {}
      /\ ToldWhatFits(old) /\ StoredWhatSucceeded(old)
      /\ UNCHANGED <<snapshot, writer>>
  BY DEF ControlInv, ControlTypeOK, CallsAreConsistent, ReturnControl
<1>2. call' = [call EXCEPT ![t] =
        IF old.failure # "" THEN failed ELSE IF old.handled THEN handled ELSE unsupported]
  BY DEF ReturnControl
<1> HIDE DEF old
<1>3. CASE old.failure # ""
  <2>1. failed \in CallRecord
    BY <1>1 DEF CallRecord, Finished
  <2>2. /\ ToldWhatFits(failed) /\ StoredWhatSucceeded(failed)
        /\ ReturnedWhatHappened(failed) /\ failed.pc # "updating"
    BY <1>1, <1>3 DEF Finished, CallRecord, ToldWhatFits, StoredWhatSucceeded,
                      ReturnedWhatHappened
  <2>3. call' = [call EXCEPT ![t] = failed]
    BY <1>2, <1>3
  <2> HIDE DEF failed
  <2> QED BY <1>1, <2>1, <2>2, <2>3, RecordKeepsInv
<1>4. CASE old.failure = "" /\ old.handled
  <2>1. handled \in CallRecord
    BY <1>1 DEF CallRecord, Finished
  <2>2. /\ ToldWhatFits(handled) /\ StoredWhatSucceeded(handled)
        /\ ReturnedWhatHappened(handled) /\ handled.pc # "updating"
    BY <1>1, <1>4 DEF Finished, CallRecord, ToldWhatFits, StoredWhatSucceeded,
                      ReturnedWhatHappened
  <2>3. call' = [call EXCEPT ![t] = handled]
    BY <1>2, <1>4
  <2> HIDE DEF handled
  <2> QED BY <1>1, <2>1, <2>2, <2>3, RecordKeepsInv
<1>5. CASE old.failure = "" /\ ~old.handled
  <2>1. unsupported \in CallRecord
    BY <1>1 DEF CallRecord, Finished
  <2>2. /\ ToldWhatFits(unsupported) /\ StoredWhatSucceeded(unsupported)
        /\ ReturnedWhatHappened(unsupported) /\ unsupported.pc # "updating"
    BY <1>1, <1>5 DEF Finished, CallRecord, ToldWhatFits, StoredWhatSucceeded,
                      ReturnedWhatHappened
  <2>3. call' = [call EXCEPT ![t] = unsupported]
    BY <1>2, <1>5
  <2> HIDE DEF unsupported
  <2> QED BY <1>1, <2>1, <2>2, <2>3, RecordKeepsInv
<1> QED BY <1>3, <1>4, <1>5

(* Requests leave the callers and the configurations alone.                *)
LEMMA NextKeepsControlInv ==
  ASSUME ControlInv, [Next]_vars
  PROVE  ControlInv'
<1>1. ASSUME UNCHANGED <<snapshot, writer, call>> PROVE ControlInv'
  <2>1. \A t \in Caller : NextTarget(t)' = NextTarget(t)
    BY <1>1 DEF NextTarget
  <2> QED BY <1>1, <2>1 DEF ControlInv, ControlTypeOK, CallsAreConsistent, UpdatesHoldTheLock
<1>2. CASE \E t \in Caller : Control(t)
  BY <1>2, StartControlKeepsInv, TellHandWrittenKeepsInv, LockSnapshotKeepsInv,
     StoreSnapshotKeepsInv, RefuseUpdateKeepsInv, ReturnControlKeepsInv DEF Control
<1>3. CASE \E r \in Request : Process(r)
  BY <1>1, <1>3 DEF Process, StartNode, MapItem, FinishNode
<1>4. CASE UNCHANGED vars
  BY <1>1, <1>4 DEF vars
<1> QED BY <1>2, <1>3, <1>4 DEF Next

(* The books of every caller are right, and updates hold their locks.      *)
THEOREM ControlInvariant == Spec => []ControlInv
BY InitControlInv, NextKeepsControlInv, PTL DEF Spec

-----------------------------------------------------------------------------
(* What follows *)

(* No update of a configuration is lost (Pipeline::Control,                *)
(* ConfigurationSnapshot::Update): whatever replaces a configuration was   *)
(* made from the one it replaces, by one call's fields.                    *)
THEOREM UpdatesAreKept == Spec => NoUpdateIsLost
<1> DEFINE Kept == \A n \in AuthorNodes : snapshot'[n] # snapshot[n] =>
             \E t \in Caller :
               /\ n \in call'[t].stored \ call[t].stored
               /\ snapshot'[n] = Assign(snapshot[n], call[t].request.fields)
<1>1. ASSUME ControlInv, [Next]_vars PROVE Kept
  <2> SUFFICES ASSUME NEW n \in AuthorNodes, snapshot'[n] # snapshot[n]
               PROVE  \E t \in Caller :
                        /\ n \in call'[t].stored \ call[t].stored
                        /\ snapshot'[n] = Assign(snapshot[n], call[t].request.fields)
    BY Zenon
  <2>1. PICK t \in Caller : StoreSnapshot(t)
    BY <1>1 DEF Next, vars, Control, Process, StartControl, TellHandWritten, LockSnapshot,
                RefuseUpdate, ReturnControl, StartNode, MapItem, FinishNode
  <2> DEFINE m == NextTarget(t)
  <2>2. /\ call[t].pc = "updating" /\ snapshot' = [snapshot EXCEPT ![m] = call[t].next]
        /\ Answered(t, "handled", "", {m})
    BY <2>1 DEF StoreSnapshot
  <2>3. /\ m \in AuthorNodes
        /\ call[t].next = Assign(snapshot[m], call[t].request.fields)
    BY <1>1, <2>2 DEF ControlInv, UpdatesHoldTheLock
  <2>4. snapshot \in [AuthorNodes -> Config] /\ call \in [Caller -> CallRecord]
    BY <1>1 DEF ControlInv, ControlTypeOK
  <2>5. m = n /\ snapshot'[n] = Assign(snapshot[n], call[t].request.fields)
    BY <2>2, <2>3, <2>4
  <2>6. m \in call[t].left
    <3>1. call[t].left \in SUBSET Node /\ call[t].left # {}
      BY <1>1, <2>2, <2>4 DEF ControlInv, CallsAreConsistent, ToldWhatFits, CallRecord
    <3> QED BY <3>1, EarliestIsMember DEF NextTarget
  <2>7. m \notin call[t].stored
    BY <1>1, <2>6 DEF ControlInv, CallsAreConsistent, ToldWhatFits, StoredWhatSucceeded
  <2>8. m \in call'[t].stored
    <3> HIDE DEF m
    <3>1. call[t] \in CallRecord
      BY <2>4
    <3> QED BY <2>2, <2>4, <3>1 DEF Answered, CallRecord, m
  <2> QED BY <2>5, <2>7, <2>8
<1>2. ControlInv /\ [Next]_vars => [Kept]_vars
  BY <1>1
<1> QED BY <1>2, ControlInvariant, PTL DEF Spec, NoUpdateIsLost

(* What Control returns is what happened to its targets, whatever other    *)
(* callers do in between (Pipeline::Control).                              *)
THEOREM OutcomesAreTrue == Spec => []OutcomeTellsWhatHappened
<1>1. ControlInv => OutcomeTellsWhatHappened
  <2> SUFFICES ASSUME ControlInv, NEW t \in Caller, call[t].pc = "returned"
      PROVE LET targets == Targets(call[t].request) stage == call[t].stage IN
            /\ \/ stage \in {"request", "unsupported"}
               \/ \E n \in targets : ~FitsSchema(call[t].request, n)
               => call[t].stored = {}
            /\ stage \in {"none", "node"} => call[t].told = targets
            /\ stage = "none" => call[t].stored = targets \cap AuthorNodes
    BY DEF OutcomeTellsWhatHappened
  <2>1. /\ ToldWhatFits(call[t]) /\ StoredWhatSucceeded(call[t])
        /\ ReturnedWhatHappened(call[t])
    BY DEF ControlInv, CallsAreConsistent
  <2>2. (\E n \in Targets(call[t].request) : ~FitsSchema(call[t].request, n))
          => call[t].stored = {}
    BY <2>1, NodeStageFits DEF ToldWhatFits, StoredWhatSucceeded
  <2> QED BY <2>1, <2>2 DEF ReturnedWhatHappened, StoredWhatSucceeded
<1> QED BY <1>1, ControlInvariant, PTL

-----------------------------------------------------------------------------
(* The boards of requests *)

RunFields == {"pc", "at", "held", "items", "code"}

(* A request is at a Node of the plan, and what it has computed there was  *)
(* computed under the configuration that it holds.                         *)
RunIsOnCourse(r) ==
  /\ run[r] = [f \in RunFields |-> run[r][f]]
  /\ run[r].pc \in {"start", "mapping", "failed"}
  /\ run[r].at \in 1 .. Len(Plan) + 1
  /\ run[r].pc # "start" => run[r].at <= Len(Plan)
  /\ run[r].held \in Config \cup {None}
  /\ run[r].items \in Seq(BoardItem)
  /\ \A i \in DOMAIN run[r].items : run[r].items[i].data = run[r].held
  /\ run[r].pc = "mapping" => InputsReady(Ports[At(r)], Declared[At(r)], board[r])

OfOneConfiguration(batch) ==
  \A i, j \in DOMAIN batch : batch[i].data = batch[j].data

(* A board has the request's batches and, of the Nodes that the request is *)
(* past, batches that line up with them, each of one configuration.        *)
BoardIsInOrder(r) ==
  /\ \A key \in DOMAIN board[r] : board[r][key].batch \in Seq(BoardItem)
  /\ \A key, other \in DOMAIN board[r] :
       Keys(board[r][key].batch) = Keys(board[r][other].batch)
  /\ \A key \in DOMAIN board[r] \ DOMAIN InputBatch :
       /\ OfOneConfiguration(board[r][key].batch)
       /\ \E k \in 1 .. run[r].at - 1 : \E o \in DOMAIN Declared[Plan[k]].outputs :
            key = OutputKey(Plan[k], o)
       /\ key # Unbound

BoardInv ==
  /\ run = [r \in Request |-> run[r]]
  /\ board = [r \in Request |-> board[r]]
  /\ \A r \in Request : RunIsOnCourse(r) /\ BoardIsInOrder(r)

-----------------------------------------------------------------------------
(* Lemmas *)

(* A set of numbers has its minimum. *)
LEMMA LeastOne ==
  ASSUME NEW S \in SUBSET Nat, S # {}
  PROVE  Min(S) \in S /\ \A x \in S : Min(S) <= x
BY LeastNatural DEF Min

(* Naming a port gives a port of that name. *)
LEMMA NamedIs ==
  ASSUME NEW T, NEW ports \in Seq(T), NEW i \in DOMAIN ports
  PROVE  /\ Named(ports, ports[i].name) \in Range(ports)
         /\ Named(ports, ports[i].name).name = ports[i].name
<1> DEFINE S == {j \in DOMAIN ports : ports[j].name = ports[i].name}
<1>1. S \in SUBSET Nat /\ i \in S
  BY LenProperties
<1>2. Min(S) \in S
  BY <1>1, LeastOne
<1> HIDE DEF S
<1>3. Named(ports, ports[i].name) = ports[Min(S)]
  BY DEF Named, S
<1>4. Min(S) \in DOMAIN ports /\ ports[Min(S)].name = ports[i].name
  BY <1>2 DEF S
<1> QED BY <1>3, <1>4 DEF Range

(* What a plan's position holds is a Node, and each Node has one position. *)
LEMMA PlanIs ==
  /\ Len(Plan) \in Nat /\ DOMAIN Plan = 1 .. Len(Plan)
  /\ \A k \in 1 .. Len(Plan) : Plan[k] \in Node
  /\ \A k, l \in 1 .. Len(Plan) : Plan[k] = Plan[l] => k = l
<1>1. Plan \in Seq(Range(Plan)) /\ IsInjective(Plan)
  BY ControlAssumption
<1>2. Len(Plan) \in Nat /\ DOMAIN Plan = 1 .. Len(Plan)
  BY <1>1, LenProperties
<1>3. \A k, l \in DOMAIN Plan : Plan[k] = Plan[l] => k = l
  BY <1>1 DEF IsInjective
<1> QED BY <1>2, <1>3 DEF Node, Range

(* The items of a request's batches are those of boards. *)
LEMMA ItemsAreBoardItems ==
  /\ \A key \in DOMAIN InputBatch : InputBatch[key].batch \in Seq(BoardItem)
  /\ \A item \in BoardItem, data \in Config \cup {None} :
       Item(item.req, item.sub, data) \in BoardItem
<1>1. Origins \subseteq BoardItem
  BY DEF BoardItem
<1>2. ASSUME NEW key \in DOMAIN InputBatch
      PROVE  InputBatch[key].batch \in Seq(BoardItem)
  <2> DEFINE s == InputBatch[key].batch
  <2>1. s \in Seq(Origins)
    BY BoardAssumption
  <2> HIDE DEF s
  <2>2. /\ Len(s) \in Nat /\ DOMAIN s = 1 .. Len(s)
        /\ \A i \in 1 .. Len(s) : s[i] \in Origins
        /\ s = [i \in 1 .. Len(s) |-> s[i]]
    BY <2>1, LenProperties, ElementOfSeq
  <2>3. s \in [1 .. Len(s) -> BoardItem]
    BY <1>1, <2>2
  <2>4. s \in UNION {[1 .. k -> BoardItem] : k \in Nat}
    BY <2>2, <2>3
  <2> QED BY <2>4, SeqDef DEF s
<1>3. ASSUME NEW item \in BoardItem, NEW data \in Config \cup {None}
      PROVE  Item(item.req, item.sub, data) \in BoardItem
  <2>1. CASE item \in Origins
    BY <2>1 DEF BoardItem
  <2>2. CASE item \notin Origins
    <3>1. PICK origin \in Origins, other \in Config \cup {None} :
            item = Item(origin.req, origin.sub, other)
      BY <2>2 DEF BoardItem
    <3>2. item.req = origin.req /\ item.sub = origin.sub
      BY <3>1 DEF Item
    <3> QED BY <3>2 DEF BoardItem
  <2> QED BY <2>1, <2>2
<1> QED BY <1>2, <1>3

-----------------------------------------------------------------------------
(* What a Node reads and publishes *)

(* A sequence that is not empty has a first element. *)
LEMMA HasFirst ==
  ASSUME NEW T, NEW s \in Seq(T), s # <<>>
  PROVE  1 \in DOMAIN s
<1>1. Len(s) \in Nat /\ DOMAIN s = 1 .. Len(s)
  BY LenProperties
<1>2. Len(s) # 0
  BY EmptySeq
<1> QED BY <1>1, <1>2

(* The inputs that a Node must have are batches of the board. *)
LEMMA InputsAreThere ==
  ASSUME NEW n \in Node, NEW b, InputsReady(Ports[n], Declared[n], b),
         NEW name \in {Declared[n].inputs[1].name} \cup Range(Column(Declared[n].outputs, "anchor"))
  PROVE  \E key \in DOMAIN b : PopulateInputs(Ports[n], Declared[n], b)[name] = b[key].batch
<1> DEFINE inputs == Declared[n].inputs
           outputs == Declared[n].outputs
           port == Named(inputs, name)
           found == PopulateInput(Ports[n], port, b)
<1>1. /\ inputs \in Seq(Range(inputs)) /\ outputs \in Seq(Range(outputs)) /\ inputs # <<>>
      /\ CheckAnchors(Declared[n]) /\ "" \notin Range(Column(outputs, "anchor"))
      /\ \A p \in Range(inputs) :
           p.name \in {inputs[1].name} \cup Range(Column(outputs, "anchor")) =>
             p.required /\ ~p.allow_missing
  BY BoardAssumption
<1> HIDE DEF inputs, outputs
<1>2. \E i \in DOMAIN inputs : name = inputs[i].name
  <2>1. CASE name = inputs[1].name
    <3>1. 1 \in DOMAIN inputs
      BY <1>1, HasFirst
    <3> QED BY <2>1, <3>1
  <2>2. CASE name \in Range(Column(outputs, "anchor"))
    <3>1. PICK o \in DOMAIN outputs : name = outputs[o].anchor
      BY <2>2 DEF Range, Column
    <3>2. outputs[o] \in Range(outputs) /\ outputs[o].anchor # ""
      BY <1>1, <2>2, <3>1 DEF Range
    <3>3. name \in Range(Column(inputs, "name"))
      BY <1>1, <3>1, <3>2 DEF CheckAnchors, inputs, outputs
    <3> QED BY <3>3 DEF Range, Column
  <2> QED BY <2>1, <2>2 DEF inputs, outputs
<1>3. port \in Range(inputs) /\ port.name = name
  BY <1>1, <1>2, NamedIs
<1>4. name \in Range(Column(inputs, "name"))
  BY <1>2 DEF Range, Column
<1> HIDE DEF port
<1>5. port.required /\ ~port.allow_missing
  BY <1>1, <1>3 DEF inputs, outputs
<1>6. found.ok
  BY <1>3 DEF InputsReady, inputs
<1>7. \E key \in DOMAIN b : found.value = b[key].batch
  BY <1>5, <1>6 DEF PopulateInput, Success, Failure
<1>8. PopulateInputs(Ports[n], Declared[n], b)[name] = found.value
  BY <1>4 DEF PopulateInputs, inputs, port
<1> QED BY <1>7, <1>8

(* Outputs with keys of their own are all published. *)
LEMMA PublishIs ==
  ASSUME NEW n \in Node, NEW value, NEW b,
         \A o \in DOMAIN Declared[n].outputs :
           OutputKey(n, o) # Unbound => OutputKey(n, o) \notin DOMAIN b
  PROVE  LET after == Publish(Ports[n], Declared[n], value, b) IN
         /\ after.code = "ok"
         /\ \A key \in DOMAIN after.board :
              \/ key \in DOMAIN b /\ after.board[key] = b[key]
              \/ /\ key \notin DOMAIN b /\ key # Unbound
                 /\ \E o \in DOMAIN Declared[n].outputs :
                      /\ key = OutputKey(n, o)
                      /\ after.board[key].batch = value[Declared[n].outputs[o].member]
<1> DEFINE outputs == Declared[n].outputs
           KeyOf(o) == FindPort(Ports[n], "output", outputs[o].name).key
           bound == {o \in DOMAIN outputs : KeyOf(o) # Unbound}
           taken == {o \in bound : \/ KeyOf(o) \in DOMAIN b
                                   \/ \E p \in bound : p < o /\ KeyOf(p) = KeyOf(o)}
           placed == {o \in bound : \A t \in taken : o < t}
           Placed(key) == outputs[CHOOSE o \in placed : KeyOf(o) = key]
           all == [key \in DOMAIN b \cup {KeyOf(o) : o \in placed} |->
                     IF key \in DOMAIN b THEN b[key]
                     ELSE [type |-> Placed(key).type, batch |-> value[Placed(key).member]]]
           after == Publish(Ports[n], Declared[n], value, b)
<1>1. /\ after.code = IF taken = {} THEN "ok" ELSE "internal_exception"
      /\ after.board = all
  BY DEF Publish
<1>2. \A o : OutputKey(n, o) = KeyOf(o)
  BY DEF OutputKey
<1>3. DOMAIN outputs \subseteq Nat
  <2>1. outputs \in Seq(Range(outputs))
    BY BoardAssumption
  <2> QED BY <2>1, LenProperties
<1>4. \A o, p \in DOMAIN outputs : p # o /\ OutputKey(n, o) = OutputKey(n, p) =>
        OutputKey(n, o) = Unbound
  BY BoardAssumption
<1> HIDE DEF KeyOf, after
<1>5. taken = {}
  <2> SUFFICES ASSUME NEW o \in bound,
                      KeyOf(o) \in DOMAIN b \/ \E p \in bound : p < o /\ KeyOf(p) = KeyOf(o)
               PROVE  FALSE
    OBVIOUS
  <2>1. o \in DOMAIN outputs /\ OutputKey(n, o) # Unbound /\ KeyOf(o) \notin DOMAIN b
    BY <1>2
  <2>2. PICK p \in bound : p < o /\ KeyOf(p) = KeyOf(o)
    BY <2>1
  <2>3. p # o
    BY <1>3, <2>1, <2>2
  <2> QED BY <1>2, <1>4, <2>1, <2>2, <2>3
<1>6. placed = bound
  BY <1>5
<1> HIDE DEF taken, outputs
<1>7. ASSUME NEW key \in DOMAIN all
      PROVE  \/ key \in DOMAIN b /\ all[key] = b[key]
             \/ /\ key \notin DOMAIN b /\ key # Unbound
                /\ \E o \in DOMAIN outputs :
                     key = OutputKey(n, o) /\ all[key].batch = value[outputs[o].member]
  <2>1. CASE key \in DOMAIN b
    BY <2>1
  <2>2. CASE key \notin DOMAIN b
    <3> DEFINE o == CHOOSE o \in placed : KeyOf(o) = key
    <3>1. \E p \in placed : KeyOf(p) = key
      BY <2>2
    <3>2. o \in placed /\ KeyOf(o) = key
      BY <3>1
    <3>3. all[key] = [type |-> outputs[o].type, batch |-> value[outputs[o].member]]
      BY <2>2
    <3>4. o \in DOMAIN outputs /\ key # Unbound
      BY <1>6, <3>2
    <3> HIDE DEF o, all
    <3> QED BY <1>2, <2>2, <3>2, <3>3, <3>4
  <2> QED BY <2>1, <2>2
<1> HIDE DEF all
<1>8. DOMAIN after.board = DOMAIN all
  BY <1>1
<1> QED BY <1>1, <1>5, <1>7, <1>8 DEF after, outputs

(* What is declared valid lines up, output by output. *)
LEMMA ValidOutputsLineUp ==
  ASSUME NEW n \in Node, NEW inputs, NEW value,
         ValidateOutputs(Declared[n], inputs, value) = "none",
         NEW o \in DOMAIN Declared[n].outputs,
         inputs[Declared[n].outputs[o].anchor] \in Seq(BoardItem)
  PROVE  Keys(value[Declared[n].outputs[o].member])
           = Keys(inputs[Declared[n].outputs[o].anchor])
<1> DEFINE outputs == Declared[n].outputs
           Of(p) == OutputAlignment(inputs, outputs[p], value[outputs[p].member])
           bad == {p \in DOMAIN outputs : Of(p) # "none"}
<1>1. outputs \in Seq(Range(outputs)) /\ "" \notin Range(Column(outputs, "anchor"))
  BY BoardAssumption
<1>2. DOMAIN outputs \subseteq Nat /\ outputs[o].anchor # ""
  <2>1. outputs[o].anchor \in Range(Column(outputs, "anchor"))
    BY DEF Range, Column
  <2>2. outputs[o].anchor # ""
    BY <1>1, <2>1
  <2>3. DOMAIN outputs \subseteq Nat
    <3>1. outputs \in Seq(Range(outputs))
      BY <1>1
    <3> HIDE DEF outputs
    <3>2. DOMAIN outputs = 1 .. Len(outputs)
      BY <3>1, LenProperties
    <3> QED BY <3>2
  <2> QED BY <2>2, <2>3
<1>3. (IF bad = {} THEN "none" ELSE Of(Min(bad))) = "none"
  BY DEF ValidateOutputs
<1> HIDE DEF Of
<1>4. bad = {}
  <2>1. bad # {} => Min(bad) \in bad
    BY <1>2, LeastOne
  <2>2. bad # {} => Of(Min(bad)) # "none"
    BY <2>1
  <2> HIDE DEF bad
  <2> QED BY <1>3, <2>2
<1>5. Of(o) = "none"
  BY <1>4
<1>6. OutputAlignment(inputs, outputs[o], value[outputs[o].member]) = "none"
  BY <1>5 DEF Of
<1>7. inputs[outputs[o].anchor] # Null
  BY BoardAssumption
<1> HIDE DEF outputs
<1>8. Alignment(inputs[outputs[o].anchor], value[outputs[o].member]) = "none"
  BY <1>2, <1>6, <1>7 DEF OutputAlignment
<1> QED BY <1>8 DEF Alignment, outputs

(* What a Run function makes of items of one configuration is of that one. *)
LEMMA ShapesAre ==
  ASSUME NEW items \in Seq(BoardItem), NEW held, \A i \in DOMAIN items : items[i].data = held,
         NEW batch \in Shapes(items)
  PROVE  batch \in Seq(BoardItem) /\ OfOneConfiguration(batch)
<1> DEFINE L == Len(items)
<1>1. L \in Nat /\ DOMAIN items = 1 .. L /\ \A i \in 1 .. L : items[i] \in BoardItem
  BY LenProperties, ElementOfSeq
<1> SUFFICES batch \in Seq(BoardItem) /\ \A i \in DOMAIN batch : batch[i].data = held
  BY DEF OfOneConfiguration
<1>2. CASE batch = items
  BY <1>2
<1>3. CASE batch = SubSeq(items, 2, L)
  <2>2. CASE L = 0
    <3>1. batch = <<>>
      BY <1>3, <2>2, SubSeqEmpty
    <3>2. DOMAIN batch = {} /\ batch \in Seq(BoardItem)
      BY <3>1, EmptySeq
    <3> QED BY <3>2
  <2>3. CASE L # 0
    <3>1. L - 1 \in Nat /\ \A i \in 1 .. L - 1 : i + 1 \in 1 .. L
      BY <1>1, <2>3
    <3>2. batch = [i \in 1 .. L - 1 |-> items[i + 1]]
      <4>1. /\ SubSeq(items, 2, L) \in Seq(BoardItem)
            /\ Len(SubSeq(items, 2, L)) = L - 1
            /\ \A i \in 1 .. L - 1 : SubSeq(items, 2, L)[i] = items[i + 1]
        <5>1. /\ 2 \in 1 .. L + 1 /\ L \in 2 - 1 .. L /\ L - 2 + 1 = L - 1
              /\ \A i \in 1 .. L - 1 : 2 + i - 1 = i + 1
          BY <1>1, <2>3
        <5> QED BY <5>1, SubSeqProperties
      <4> HIDE DEF L
      <4> QED BY <1>3, <3>1, <4>1, LenProperties
    <3>3. batch \in [1 .. L - 1 -> BoardItem]
      BY <1>1, <3>1, <3>2
    <3>4. batch \in UNION {[1 .. k -> BoardItem] : k \in Nat}
      <4> HIDE DEF L
      <4> QED BY <3>1, <3>3
    <3>5. batch \in Seq(BoardItem)
      BY <3>4, SeqDef
    <3>6. \A i \in DOMAIN batch : batch[i].data = held
      <4> HIDE DEF L
      <4> QED BY <1>1, <3>1, <3>2
    <3> QED BY <3>5, <3>6
  <2> QED BY <2>2, <2>3
<1>4. CASE batch = Reverse(items)
  <2>1. batch = [i \in 1 .. L |-> items[(L - i) + 1]]
    BY <1>4 DEF Reverse
  <2>2. \A i \in 1 .. L : (L - i) + 1 \in 1 .. L
    BY <1>1
  <2> HIDE DEF L
  <2>3. batch \in [1 .. L -> BoardItem]
    BY <1>1, <2>1, <2>2
  <2>4. batch \in UNION {[1 .. k -> BoardItem] : k \in Nat}
    BY <1>1, <2>3
  <2>5. batch \in Seq(BoardItem)
    BY <2>4, SeqDef
  <2> QED BY <1>1, <2>1, <2>2, <2>5
<1> QED BY <1>2, <1>3, <1>4 DEF Shapes

-----------------------------------------------------------------------------
(* The steps of requests *)

(* A step of one request concerns no other.                                *)
LEMMA StepOfRequest ==
  ASSUME BoardInv, NEW r \in Request,
         run' = [q \in Request |-> run'[q]], board' = [q \in Request |-> board'[q]],
         \A q \in Request \ {r} : run'[q] = run[q] /\ board'[q] = board[q],
         RunIsOnCourse(r)', BoardIsInOrder(r)'
  PROVE  BoardInv'
<1>1. ASSUME NEW q \in Request \ {r}
      PROVE  RunIsOnCourse(q)' /\ BoardIsInOrder(q)'
  <2>1. RunIsOnCourse(q) /\ BoardIsInOrder(q)
    BY DEF BoardInv
  <2>2. run'[q] = run[q] /\ board'[q] = board[q]
    OBVIOUS
  <2>3. RunIsOnCourse(q)'
    BY <2>1, <2>2 DEF RunIsOnCourse, At
  <2>4. BoardIsInOrder(q)'
    BY <2>1, <2>2 DEF BoardIsInOrder
  <2> QED BY <2>3, <2>4
<1> QED BY <1>1 DEF BoardInv

(* A request starts with its own batches.                                  *)
LEMMA InitBoardInv ==
  Init => BoardInv
<1> SUFFICES ASSUME Init, NEW r \in Request
             PROVE  RunIsOnCourse(r) /\ BoardIsInOrder(r)
  BY DEF Init, BoardInv
<1>1. \E code : run[r] = [pc |-> "start", at |-> 1, held |-> None, items |-> <<>>, code |-> code]
  BY DEF Init
<1>2. RunIsOnCourse(r)
  <2>1. PICK code :
          run[r] = [pc |-> "start", at |-> 1, held |-> None, items |-> <<>>, code |-> code]
    BY <1>1
  <2>2. /\ run[r] = [f \in RunFields |-> run[r][f]]
        /\ run[r].pc = "start" /\ run[r].at = 1 /\ run[r].held = None
        /\ run[r].items = <<>>
    BY <2>1 DEF RunFields
  <2>3. <<>> \in Seq(BoardItem) /\ DOMAIN <<>> = {}
    BY EmptySeq
  <2>4. 1 \in 1 .. Len(Plan) + 1
    BY PlanIs
  <2> QED BY <2>2, <2>3, <2>4 DEF RunIsOnCourse
<1>3. BoardIsInOrder(r)
  <2>1. board[r] = InputBatch
    BY DEF Init
  <2> QED BY <2>1, ItemsAreBoardItems, BoardAssumption DEF BoardIsInOrder
<1> QED BY <1>2, <1>3

(* Giving up at a Node leaves the board as it is. *)
LEMMA FailsKeeps ==
  ASSUME BoardInv, NEW r \in Request, NEW code, Fails(r, code), UNCHANGED board,
         run[r].at <= Len(Plan)
  PROVE  BoardInv'
<1>1. /\ RunIsOnCourse(r) /\ BoardIsInOrder(r)
      /\ run' = [run EXCEPT ![r] = [@ EXCEPT !.pc = "failed", !.code = code]]
  BY DEF BoardInv, Fails
<1>2. /\ run' = [q \in Request |-> run'[q]] /\ board' = [q \in Request |-> board'[q]]
      /\ \A q \in Request \ {r} : run'[q] = run[q] /\ board'[q] = board[q]
  BY <1>1 DEF BoardInv
<1>3. run'[r] = [run[r] EXCEPT !.pc = "failed", !.code = code]
  BY <1>1 DEF BoardInv
<1>4. /\ run'[r] = [f \in RunFields |-> run'[r][f]]
      /\ run'[r].pc = "failed" /\ run'[r].at = run[r].at
      /\ run'[r].held = run[r].held /\ run'[r].items = run[r].items
  <2>1. run[r] = [f \in RunFields |-> run[r][f]]
    BY <1>1 DEF RunIsOnCourse
  <2>2. DOMAIN run[r] = RunFields
    BY <2>1
  <2> QED BY <1>3, <2>2 DEF RunFields
<1>5. RunIsOnCourse(r)'
  BY <1>1, <1>4 DEF RunIsOnCourse
<1>6. BoardIsInOrder(r)'
  BY <1>1, <1>4 DEF BoardIsInOrder
<1> QED BY <1>2, <1>5, <1>6, StepOfRequest

(* A Node starts under the configuration that is then in force. *)
LEMMA StartNodeKeeps ==
  ASSUME ControlInv, BoardInv, NEW r \in Request, StartNode(r)
  PROVE  BoardInv'
<1>1. /\ RunIsOnCourse(r) /\ BoardIsInOrder(r)
      /\ run[r].pc = "start" /\ run[r].at <= Len(Plan) /\ UNCHANGED board
  BY DEF BoardInv, StartNode
<1>2. CASE ~InputsReady(Ports[At(r)], Declared[At(r)], board[r])
  <2>1. Fails(r, "missing_input")
    BY <1>2 DEF StartNode
  <2> QED BY <1>1, <2>1, FailsKeeps
<1>3. CASE InputsReady(Ports[At(r)], Declared[At(r)], board[r])
  <2> DEFINE held == IF At(r) \in AuthorNodes THEN snapshot[At(r)] ELSE None
  <2>1. run' = [run EXCEPT ![r] = [@ EXCEPT !.pc = "mapping", !.items = <<>>, !.held = held]]
    BY <1>3 DEF StartNode
  <2>2. held \in Config \cup {None}
    BY DEF ControlInv, ControlTypeOK
  <2> HIDE DEF held
  <2>3. /\ run' = [q \in Request |-> run'[q]] /\ board' = [q \in Request |-> board'[q]]
        /\ \A q \in Request \ {r} : run'[q] = run[q] /\ board'[q] = board[q]
    BY <1>1, <2>1 DEF BoardInv
  <2>4. run'[r] = [run[r] EXCEPT !.pc = "mapping", !.items = <<>>, !.held = held]
    BY <2>1 DEF BoardInv
  <2>5. /\ run'[r] = [f \in RunFields |-> run'[r][f]]
        /\ run'[r].pc = "mapping" /\ run'[r].at = run[r].at
        /\ run'[r].held = held /\ run'[r].items = <<>>
    BY <1>1, <2>4 DEF RunIsOnCourse, RunFields
  <2>6. <<>> \in Seq(BoardItem) /\ DOMAIN <<>> = {}
    BY EmptySeq
  <2>7. RunIsOnCourse(r)'
    BY <1>1, <1>3, <2>2, <2>5, <2>6 DEF RunIsOnCourse, At
  <2>8. BoardIsInOrder(r)'
    BY <1>1, <2>5 DEF BoardIsInOrder
  <2> QED BY <2>3, <2>7, <2>8, StepOfRequest
<1> QED BY <1>2, <1>3

(* The Node that a request is at, and the batch that it maps. *)
LEMMA MappedIs ==
  ASSUME BoardInv, NEW r \in Request, run[r].pc = "mapping"
  PROVE  At(r) \in Node /\ Mapped(r) \in Seq(BoardItem)
<1>1. RunIsOnCourse(r) /\ BoardIsInOrder(r)
  BY DEF BoardInv
<1>2. At(r) \in Node
  BY <1>1, PlanIs DEF RunIsOnCourse, At
<1>3. InputsReady(Ports[At(r)], Declared[At(r)], board[r])
  BY <1>1 DEF RunIsOnCourse
<1>4. \E key \in DOMAIN board[r] :
        PopulateInputs(Ports[At(r)], Declared[At(r)], board[r])[Declared[At(r)].inputs[1].name]
          = board[r][key].batch
  BY <1>2, <1>3, InputsAreThere
<1>5. \E key \in DOMAIN board[r] : Mapped(r) = board[r][key].batch
  BY <1>4 DEF Mapped, Inputs
<1> QED BY <1>1, <1>2, <1>5 DEF BoardIsInOrder

(* An item is computed under the configuration that is held. *)
LEMMA MapItemKeeps ==
  ASSUME BoardInv, NEW r \in Request, MapItem(r)
  PROVE  BoardInv'
<1> DEFINE input == Mapped(r)[Len(run[r].items) + 1]
           item == Item(input.req, input.sub, run[r].held)
<1>1. /\ RunIsOnCourse(r) /\ BoardIsInOrder(r)
      /\ run[r].pc = "mapping" /\ Len(run[r].items) < Len(Mapped(r))
      /\ run' = [run EXCEPT ![r].items = Append(@, item)] /\ UNCHANGED board
  BY DEF BoardInv, MapItem
<1>2. run[r].items \in Seq(BoardItem) /\ Mapped(r) \in Seq(BoardItem)
  BY <1>1, MappedIs DEF RunIsOnCourse
<1>3. item \in BoardItem /\ item.data = run[r].held
  <2>1. Len(run[r].items) \in Nat /\ Len(Mapped(r)) \in Nat
    BY <1>2, LenProperties
  <2>2. Len(run[r].items) + 1 \in 1 .. Len(Mapped(r))
    BY <1>1, <2>1
  <2>3. input \in BoardItem
    BY <1>2, <2>2, ElementOfSeq
  <2>4. run[r].held \in Config \cup {None}
    BY <1>1 DEF RunIsOnCourse
  <2> HIDE DEF input
  <2> QED BY <2>3, <2>4, ItemsAreBoardItems DEF Item
<1> HIDE DEF item
<1> DEFINE items == Append(run[r].items, item)
<1>4. items \in Seq(BoardItem) /\ \A i \in DOMAIN items : items[i].data = run[r].held
  <2>1. /\ items \in Seq(BoardItem) /\ Len(items) = Len(run[r].items) + 1
        /\ items[Len(run[r].items) + 1] = item
        /\ \A i \in 1 .. Len(run[r].items) : items[i] = run[r].items[i]
    BY <1>2, <1>3, AppendProperties
  <2>2. /\ DOMAIN items = 1 .. Len(items) /\ Len(run[r].items) \in Nat
        /\ DOMAIN run[r].items = 1 .. Len(run[r].items)
    BY <1>2, <2>1, LenProperties
  <2>3. \A i \in DOMAIN run[r].items : run[r].items[i].data = run[r].held
    BY <1>1 DEF RunIsOnCourse
  <2> HIDE DEF items
  <2>4. \A i \in DOMAIN items : i \in 1 .. Len(run[r].items) \/ i = Len(run[r].items) + 1
    BY <2>1, <2>2
  <2> QED BY <1>3, <2>1, <2>2, <2>3, <2>4
<1>5. /\ run' = [q \in Request |-> run'[q]] /\ board' = [q \in Request |-> board'[q]]
      /\ \A q \in Request \ {r} : run'[q] = run[q] /\ board'[q] = board[q]
  BY <1>1 DEF BoardInv
<1>6. run'[r] = [run[r] EXCEPT !.items = items]
  BY <1>1 DEF BoardInv
<1> HIDE DEF items
<1>7. /\ run'[r] = [f \in RunFields |-> run'[r][f]]
      /\ run'[r].pc = run[r].pc /\ run'[r].at = run[r].at
      /\ run'[r].held = run[r].held /\ run'[r].items = items
  <2>1. run[r] = [f \in RunFields |-> run[r][f]]
    BY <1>1 DEF RunIsOnCourse
  <2>2. DOMAIN run[r] = RunFields
    BY <2>1
  <2> QED BY <1>6, <2>2 DEF RunFields
<1>8. RunIsOnCourse(r)'
  BY <1>1, <1>4, <1>7 DEF RunIsOnCourse, At
<1>9. BoardIsInOrder(r)'
  BY <1>1, <1>7 DEF BoardIsInOrder
<1> QED BY <1>5, <1>8, <1>9, StepOfRequest

(* No output of the Node that a request is at is on the board. *)
LEMMA KeysAreFree ==
  ASSUME BoardInv, NEW r \in Request, run[r].at <= Len(Plan),
         NEW o \in DOMAIN Declared[At(r)].outputs
  PROVE  OutputKey(At(r), o) \notin DOMAIN board[r]
<1>1. RunIsOnCourse(r) /\ BoardIsInOrder(r) /\ run[r].at \in 1 .. Len(Plan) + 1
  BY DEF BoardInv, RunIsOnCourse
<1>2. Len(Plan) \in Nat /\ run[r].at \in 1 .. Len(Plan)
  BY <1>1, PlanIs
<1>3. At(r) \in Node /\ OutputKey(At(r), o) \notin DOMAIN InputBatch
  BY <1>2, PlanIs, BoardAssumption DEF At
<1>4. SUFFICES ASSUME OutputKey(At(r), o) \in DOMAIN board[r] \ DOMAIN InputBatch
               PROVE  FALSE
  BY <1>3
<1>5. PICK k \in 1 .. run[r].at - 1 : \E p \in DOMAIN Declared[Plan[k]].outputs :
        OutputKey(At(r), o) = OutputKey(Plan[k], p)
  BY <1>1, <1>4 DEF BoardIsInOrder
<1>6. PICK p \in DOMAIN Declared[Plan[k]].outputs : OutputKey(At(r), o) = OutputKey(Plan[k], p)
  BY <1>5
<1>7. k \in 1 .. Len(Plan) /\ k # run[r].at
  BY <1>2
<1>8. Plan[k] \in Node /\ Plan[k] # At(r)
  BY <1>2, <1>7, PlanIs DEF At
<1>9. OutputKey(At(r), o) # Unbound
  BY <1>1, <1>4 DEF BoardIsInOrder
<1> QED BY <1>3, <1>6, <1>8, <1>9, BoardAssumption

-----------------------------------------------------------------------------
(* A Node ends with a failure and leaves the board as it was, or it        *)
(* publishes what it made, once that is found to line up.                  *)
LEMMA RunEnds ==
  ASSUME NEW r \in Request, FinishNode(r)
  PROVE  \E after :
           /\ board' = [board EXCEPT ![r] = after.board]
           /\ IF after.code = "ok"
              THEN run' = [run EXCEPT ![r].pc = "start", ![r].at = @ + 1]
              ELSE Fails(r, after.code)
           /\ \/ after.code # "ok" /\ after.board = board[r]
              \/ \E value \in [Range(Column(Declared[At(r)].outputs, "member"))
                                  -> Shapes(run[r].items)] :
                   /\ ValidateOutputs(Declared[At(r)], Inputs(r), value) = "none"
                   /\ after = Publish(Ports[At(r)], Declared[At(r)], value, board[r])
<1> DEFINE n == At(r)
           values == [Range(Column(Declared[n].outputs, "member")) -> Shapes(run[r].items)]
           After(result) == FinishRun(Ports[n], Declared[n], Inputs(r), result, board[r])
<1>1. PICK result \in {Success(value) : value \in values}
                \cup {Failure("callback_failed", None, code) : code \in {"", "cause"}}
                \cup {Failure("throws", None, "internal_exception")} :
        /\ board' = [board EXCEPT ![r] = After(result).board]
        /\ IF After(result).code = "ok"
           THEN run' = [run EXCEPT ![r].pc = "start", ![r].at = @ + 1]
           ELSE Fails(r, After(result).code)
  BY DEF FinishNode
<1> DEFINE after == After(result)
<1>2. CASE \E value \in values : result = Success(value)
  <2>1. PICK value \in values : result = Success(value)
    BY <1>2
  <2>2. result.ok /\ result.value = value
    BY <2>1, Zenon DEF Success
  <2> DEFINE verdict == ValidateOutputs(Declared[n], Inputs(r), value)
  <2>3. after = IF verdict # "none" THEN [code |-> OutputFailure(verdict), board |-> board[r]]
                ELSE Publish(Ports[n], Declared[n], value, board[r])
    BY <2>2, Zenon DEF FinishRun
  <2> HIDE DEF after, verdict
  <2>4. CASE verdict = "none"
    <3>1. after = Publish(Ports[n], Declared[n], value, board[r])
      BY <2>3, <2>4, Zenon
    <3> QED BY <1>1, <2>4, <3>1, Zenon DEF after, verdict
  <2>5. CASE verdict # "none"
    <3>1. after = [code |-> OutputFailure(verdict), board |-> board[r]]
      BY <2>3, <2>5, Zenon
    <3>2. after.code = OutputFailure(verdict) /\ after.board = board[r]
      BY <3>1, Zenon
    <3>3. OutputFailure(verdict) # "ok"
      BY Zenon DEF OutputFailure
    <3> QED BY <1>1, <3>2, <3>3, Zenon DEF after
  <2> QED BY <2>4, <2>5, Zenon
<1>3. CASE \E reason : \E code \in {"", "cause", "internal_exception"} :
             result = Failure(reason, None, code)
  <2> PICK reason : \E code \in {"", "cause", "internal_exception"} :
                      result = Failure(reason, None, code)
    BY <1>3, Zenon
  <2>1. PICK code \in {"", "cause", "internal_exception"} : result = Failure(reason, None, code)
    OBVIOUS
  <2>2. ~result.ok /\ result.code = code
    BY <2>1, Zenon DEF Failure
  <2> DEFINE cause == IF code = "" THEN "business_error" ELSE code
  <2>3. cause # "ok"
    BY <2>1, Zenon
  <2>4. after = [code |-> cause, board |-> board[r]]
    BY <2>2, Zenon DEF FinishRun
  <2> HIDE DEF cause, after
  <2>5. after.code = cause /\ after.board = board[r]
    BY <2>4, Zenon
  <2> QED BY <1>1, <2>3, <2>5, Zenon DEF after
<1>4. \/ \E value \in values : result = Success(value)
      \/ \E reason : \E code \in {"", "cause", "internal_exception"} :
           result = Failure(reason, None, code)
  <2>1. CASE \E value \in values : result = Success(value)
    BY <2>1, Zenon
  <2>2. CASE \E code \in {"", "cause"} : result = Failure("callback_failed", None, code)
    BY <2>2, Zenon
  <2>3. CASE result = Failure("throws", None, "internal_exception")
    BY <2>3, Zenon
  <2> HIDE DEF values
  <2> QED BY <2>1, <2>2, <2>3, Zenon
<1> QED BY <1>2, <1>3, <1>4, Zenon

(* What a Node publishes is on the board of its request, beside what was   *)
(* there; what it does not, leaves the board as it was.                    *)
LEMMA FinishNodeKeeps ==
  ASSUME BoardInv, NEW r \in Request, FinishNode(r)
  PROVE  BoardInv'
<1> DEFINE n == At(r)
           outputs == Declared[n].outputs
           members == Range(Column(outputs, "member"))
           items == run[r].items
           inputs == Inputs(r)
<1>1. /\ RunIsOnCourse(r) /\ BoardIsInOrder(r) /\ run[r].pc = "mapping"
      /\ run = [q \in Request |-> run[q]] /\ board = [q \in Request |-> board[q]]
  BY DEF BoardInv, FinishNode
<1>2. /\ n \in Node /\ Len(Plan) \in Nat /\ run[r].at \in 1 .. Len(Plan)
      /\ items \in Seq(BoardItem) /\ (\A i \in DOMAIN items : items[i].data = run[r].held)
      /\ InputsReady(Ports[n], Declared[n], board[r])
  <2>1. n \in Node
    BY <1>1, MappedIs
  <2>2. Len(Plan) \in Nat
    BY PlanIs
  <2>3. run[r].at \in 1 .. Len(Plan) + 1 /\ run[r].at <= Len(Plan)
    BY <1>1 DEF RunIsOnCourse
  <2>4. run[r].at \in 1 .. Len(Plan)
    BY <2>2, <2>3
  <2>5. /\ items \in Seq(BoardItem) /\ (\A i \in DOMAIN items : items[i].data = run[r].held)
        /\ InputsReady(Ports[n], Declared[n], board[r])
    BY <1>1 DEF RunIsOnCourse
  <2> QED BY <2>1, <2>2, <2>4, <2>5
<1>3. run[r].at <= Len(Plan)
  BY <1>2
<1>5. PICK after :
        /\ board' = [board EXCEPT ![r] = after.board]
        /\ IF after.code = "ok"
           THEN run' = [run EXCEPT ![r].pc = "start", ![r].at = @ + 1]
           ELSE Fails(r, after.code)
        /\ \/ after.code # "ok" /\ after.board = board[r]
           \/ \E value \in [members -> Shapes(items)] :
                /\ ValidateOutputs(Declared[n], inputs, value) = "none"
                /\ after = Publish(Ports[n], Declared[n], value, board[r])
  BY RunEnds, Zenon
<1>6. CASE after.code # "ok" /\ after.board = board[r]
  <2>1. board' = board
    BY <1>1, <1>5, <1>6
  <2>2. Fails(r, after.code)
    BY <1>5, <1>6, Zenon
  <2> QED BY <1>3, <2>1, <2>2, FailsKeeps
<1>7. CASE \E value \in [members -> Shapes(items)] :
              /\ ValidateOutputs(Declared[n], inputs, value) = "none"
              /\ after = Publish(Ports[n], Declared[n], value, board[r])
  <2>1. PICK value \in [members -> Shapes(items)] :
              /\ ValidateOutputs(Declared[n], inputs, value) = "none"
              /\ after = Publish(Ports[n], Declared[n], value, board[r])
    BY <1>7
  <2>2. \A o \in DOMAIN outputs : OutputKey(n, o) \notin DOMAIN board[r]
    BY <1>3, KeysAreFree
  <2>3. /\ after.code = "ok"
        /\ \A key \in DOMAIN after.board :
             \/ key \in DOMAIN board[r] /\ after.board[key] = board[r][key]
             \/ /\ key \notin DOMAIN board[r] /\ key # Unbound
                /\ \E o \in DOMAIN outputs :
                     /\ key = OutputKey(n, o)
                     /\ after.board[key].batch = value[outputs[o].member]
    <3> DEFINE published == Publish(Ports[n], Declared[n], value, board[r])
    <3>1. /\ published.code = "ok"
          /\ \A key \in DOMAIN published.board :
               \/ key \in DOMAIN board[r] /\ published.board[key] = board[r][key]
               \/ /\ key \notin DOMAIN board[r] /\ key # Unbound
                  /\ \E o \in DOMAIN outputs :
                       /\ key = OutputKey(n, o)
                       /\ published.board[key].batch = value[outputs[o].member]
      BY <1>2, <2>2, PublishIs, SMTT(30)
    <3>2. after = published
      BY <2>1
    <3> HIDE DEF published, outputs
    <3> QED BY <3>1, <3>2, Zenon
  <2>4. run' = [run EXCEPT ![r].pc = "start", ![r].at = @ + 1]
    BY <1>5, <2>3
  <2>5. /\ run' = [q \in Request |-> run'[q]] /\ board' = [q \in Request |-> board'[q]]
        /\ \A q \in Request \ {r} : run'[q] = run[q] /\ board'[q] = board[q]
    BY <1>1, <1>5, <2>4
  <2>6. /\ run'[r] = [run[r] EXCEPT !.pc = "start", !.at = @ + 1]
        /\ board'[r] = after.board
    BY <1>1, <1>5, <2>4
  <2>7. /\ run'[r] = [f \in RunFields |-> run'[r][f]]
        /\ run'[r].pc = "start" /\ run'[r].at = run[r].at + 1
        /\ run'[r].held = run[r].held /\ run'[r].items = items
    <3>1. run[r] = [f \in RunFields |-> run[r][f]]
      BY <1>1 DEF RunIsOnCourse
    <3>2. DOMAIN run[r] = RunFields
      BY <3>1
    <3> QED BY <2>6, <3>2 DEF RunFields
  <2>8. RunIsOnCourse(r)'
    <3>1. run'[r].at \in 1 .. Len(Plan) + 1
      BY <1>2, <2>7
    <3> QED BY <1>1, <2>7, <3>1 DEF RunIsOnCourse
  (* What is new lines up with something that was there. *)
  <2>9. ASSUME NEW o \in DOMAIN outputs
        PROVE  /\ value[outputs[o].member] \in Seq(BoardItem)
               /\ OfOneConfiguration(value[outputs[o].member])
               /\ \E old \in DOMAIN board[r] :
                    Keys(value[outputs[o].member]) = Keys(board[r][old].batch)
    <3>1. outputs[o].member \in members /\ outputs[o].anchor \in Range(Column(outputs, "anchor"))
      BY DEF Range, Column
    <3>2. value[outputs[o].member] \in Shapes(items)
      BY <3>1
    <3>3. PICK old \in DOMAIN board[r] : inputs[outputs[o].anchor] = board[r][old].batch
      <4>1. outputs[o].anchor \in {Declared[n].inputs[1].name} \cup Range(Column(outputs, "anchor"))
        BY <3>1
      <4>2. \E old \in DOMAIN board[r] :
              PopulateInputs(Ports[n], Declared[n], board[r])[outputs[o].anchor]
                = board[r][old].batch
        <5>1. \A m \in Node : \A b : InputsReady(Ports[m], Declared[m], b) =>
                \A name \in {Declared[m].inputs[1].name}
                            \cup Range(Column(Declared[m].outputs, "anchor")) :
                  \E old \in DOMAIN b :
                    PopulateInputs(Ports[m], Declared[m], b)[name] = b[old].batch
          BY InputsAreThere
        <5>2. n \in Node /\ InputsReady(Ports[n], Declared[n], board[r])
          BY <1>2
        <5>3. \A name \in {Declared[n].inputs[1].name}
                          \cup Range(Column(Declared[n].outputs, "anchor")) :
                \E old \in DOMAIN board[r] :
                  PopulateInputs(Ports[n], Declared[n], board[r])[name] = board[r][old].batch
          BY <5>1, <5>2, ZenonT(60)
        <5> QED BY <4>1, <5>3, Zenon
      <4> QED BY <4>2 DEF Inputs
    <3>4. inputs[outputs[o].anchor] \in Seq(BoardItem)
      BY <1>1, <3>3 DEF BoardIsInOrder
    <3>5. Keys(value[outputs[o].member]) = Keys(inputs[outputs[o].anchor])
      BY <1>2, <2>1, <3>4, ValidOutputsLineUp
    <3> QED BY <1>2, <3>2, <3>3, <3>5, ShapesAre
  <2>10. ASSUME NEW key \in DOMAIN after.board
         PROVE  /\ after.board[key].batch \in Seq(BoardItem)
                /\ \E old \in DOMAIN board[r] :
                     Keys(after.board[key].batch) = Keys(board[r][old].batch)
    <3> HIDE DEF outputs
    <3>1. CASE key \in DOMAIN board[r] /\ after.board[key] = board[r][key]
      BY <1>1, <3>1 DEF BoardIsInOrder
    <3>2. CASE \E o \in DOMAIN outputs : after.board[key].batch = value[outputs[o].member]
      BY <2>9, <3>2
    <3> QED BY <2>3, <3>1, <3>2
  <2>11. \A key, other \in DOMAIN after.board :
           Keys(after.board[key].batch) = Keys(after.board[other].batch)
    <3> SUFFICES ASSUME NEW key \in DOMAIN after.board, NEW other \in DOMAIN after.board
                 PROVE  Keys(after.board[key].batch) = Keys(after.board[other].batch)
      OBVIOUS
    <3>1. PICK x \in DOMAIN board[r] : Keys(after.board[key].batch) = Keys(board[r][x].batch)
      BY <2>10
    <3>2. PICK y \in DOMAIN board[r] : Keys(after.board[other].batch) = Keys(board[r][y].batch)
      BY <2>10
    <3> QED BY <1>1, <3>1, <3>2 DEF BoardIsInOrder
  <2>12. ASSUME NEW key \in DOMAIN after.board \ DOMAIN InputBatch
         PROVE  /\ OfOneConfiguration(after.board[key].batch)
                /\ \E k \in 1 .. run[r].at : \E o \in DOMAIN Declared[Plan[k]].outputs :
                     key = OutputKey(Plan[k], o)
                /\ key # Unbound
    <3>1. CASE key \in DOMAIN board[r] /\ after.board[key] = board[r][key]
      <4>1. /\ OfOneConfiguration(board[r][key].batch) /\ key # Unbound
            /\ \E k \in 1 .. run[r].at - 1 : \E o \in DOMAIN Declared[Plan[k]].outputs :
                 key = OutputKey(Plan[k], o)
        BY <1>1, <3>1 DEF BoardIsInOrder
      <4>2. \A k \in 1 .. run[r].at - 1 : k \in 1 .. run[r].at
        BY <1>2
      <4> QED BY <3>1, <4>1, <4>2
    <3>2. CASE /\ key # Unbound
               /\ \E o \in DOMAIN outputs :
                    /\ key = OutputKey(n, o)
                    /\ after.board[key].batch = value[outputs[o].member]
      <4>1. PICK o \in DOMAIN outputs : /\ key = OutputKey(n, o)
                                        /\ after.board[key].batch = value[outputs[o].member]
        BY <3>2
      <4>2. OfOneConfiguration(after.board[key].batch)
        BY <2>9, <4>1
      <4>3. run[r].at \in 1 .. run[r].at
        BY <1>2
      <4> QED BY <3>2, <4>1, <4>2, <4>3 DEF At
    <3> QED BY <2>3, <3>1, <3>2
  <2>13. BoardIsInOrder(r)'
    <3>1. run'[r].at - 1 = run[r].at
      BY <1>2, <2>7
    <3>2. /\ \A key \in DOMAIN board'[r] : board'[r][key].batch \in Seq(BoardItem)
          /\ \A key, other \in DOMAIN board'[r] :
               Keys(board'[r][key].batch) = Keys(board'[r][other].batch)
      BY <2>6, <2>10, <2>11
    <3>3. ASSUME NEW key \in DOMAIN board'[r] \ DOMAIN InputBatch
          PROVE  /\ OfOneConfiguration(board'[r][key].batch)
                 /\ \E k \in 1 .. run'[r].at - 1 : \E o \in DOMAIN Declared[Plan[k]].outputs :
                      key = OutputKey(Plan[k], o)
                 /\ key # Unbound
      BY <2>6, <2>12, <3>1
    <3> QED BY <3>2, <3>3 DEF BoardIsInOrder
  <2> QED BY <2>5, <2>8, <2>13, StepOfRequest
<1> QED BY <1>5, <1>6, <1>7

(* Calls of Control leave requests and their boards alone.                 *)
LEMMA NextKeepsBoardInv ==
  ASSUME ControlInv, BoardInv, [Next]_vars
  PROVE  BoardInv'
<1>1. ASSUME UNCHANGED <<run, board>> PROVE BoardInv'
  <2>1. \A r \in Request : RunIsOnCourse(r) /\ BoardIsInOrder(r)
    BY DEF BoardInv
  <2>2. ASSUME NEW r \in Request PROVE RunIsOnCourse(r)' /\ BoardIsInOrder(r)'
    <3>1. RunIsOnCourse(r)'
      BY <1>1, <2>1 DEF RunIsOnCourse, At
    <3>2. BoardIsInOrder(r)'
      BY <1>1, <2>1, ZenonT(60) DEF BoardIsInOrder
    <3> QED BY <3>1, <3>2
  <2> QED BY <1>1, <2>2 DEF BoardInv
<1>2. CASE \E t \in Caller : Control(t)
  BY <1>1, <1>2 DEF Control, StartControl, TellHandWritten, LockSnapshot, StoreSnapshot,
                    RefuseUpdate, ReturnControl
<1>3. CASE \E r \in Request : Process(r)
  BY <1>3, StartNodeKeeps, MapItemKeeps, FinishNodeKeeps DEF Process
<1>4. CASE UNCHANGED vars
  BY <1>1, <1>4 DEF vars
<1> QED BY <1>2, <1>3, <1>4 DEF Next

(* The boards of requests are in order (AuthorFunctionNode::Process).      *)
THEOREM BoardInvHolds == Spec => []BoardInv
<1>1. Init => BoardInv
  BY InitBoardInv
<1>2. ControlInv /\ BoardInv /\ [Next]_vars => BoardInv'
  BY NextKeepsBoardInv
<1> QED BY <1>1, <1>2, ControlInvariant, PTL DEF Spec

(* All items of a batch that a Node published were computed under one      *)
(* configuration, whatever was stored in the meantime                      *)
(* (ConfigurationSnapshot::Load).                                          *)
THEOREM BatchesAreOfOneConfiguration == Spec => []OneConfigurationPerBatch
<1>1. BoardInv => OneConfigurationPerBatch
  BY DEF BoardInv, BoardIsInOrder, OfOneConfiguration, OneConfigurationPerBatch
<1> QED BY <1>1, BoardInvHolds, PTL

(* Whatever is on a board lines up, item by item, with the request's       *)
(* inputs, and a Node that failed has published nothing                    *)
(* (AuthorFunctionNode::Process, ValidateOutputs).                         *)
THEOREM BoardsLineUp == Spec => []BoardFollowsInputs
<1>1. BoardInv => BoardFollowsInputs
  <2> SUFFICES ASSUME BoardInv, NEW r \in Request
               PROVE  /\ \A key, other \in DOMAIN board[r] :
                           Keys(board[r][key].batch) = Keys(board[r][other].batch)
                      /\ run[r].pc = "failed" =>
                           \A o \in Range(Declared[At(r)].outputs) :
                             FindPort(Ports[At(r)], "output", o.name).key \notin DOMAIN board[r]
    BY DEF BoardFollowsInputs
  <2>1. RunIsOnCourse(r) /\ BoardIsInOrder(r)
    BY DEF BoardInv
  <2>2. ASSUME run[r].pc = "failed", NEW o \in Range(Declared[At(r)].outputs)
        PROVE  FindPort(Ports[At(r)], "output", o.name).key \notin DOMAIN board[r]
    <3>1. run[r].at <= Len(Plan)
      BY <2>1, <2>2 DEF RunIsOnCourse
    <3>2. PICK i \in DOMAIN Declared[At(r)].outputs : o = Declared[At(r)].outputs[i]
      BY DEF Range
    <3>3. OutputKey(At(r), i) \notin DOMAIN board[r]
      BY <3>1, KeysAreFree
    <3> QED BY <3>2, <3>3 DEF OutputKey
  <2> QED BY <2>1, <2>2 DEF BoardIsInOrder
<1> QED BY <1>1, BoardInvHolds, PTL

-----------------------------------------------------------------------------
(* The inductive invariant of the table of handles *)

(* DeInit runs alone, and holds handles only inside its loop. *)
DeInitAlone ==
  /\ \A t, u \in Thread :
       pc[t] \in {"swapping", "destroying"} /\ u # t => pc[u] = "idle"
  /\ \A t \in Thread : to_destroy[t] # {} => pc[t] = "destroying"

(* An operator is at one address only, and no later one has been created. *)
OperatorsAreCreated ==
  /\ \A a \in Address : object[a] # Nothing => object[a] <= created
  /\ \A a \in Address : known[a] # Nothing => known[a] <= created
  /\ \A a, b \in Address : object[a] # Nothing /\ object[a] = object[b] => a = b

(* What the table lists is what the host got there, and is open. *)
TableIsCurrent ==
  \A a \in active_handles : object[a] = known[a] /\ state[object[a]] = "open"

(* An operator being created is one the host does not know yet, at an      *)
(* address nobody is calling.                                              *)
CreationIsPrivate ==
  \A t \in Thread :
    pc[t] \in {"creating", "registering"} =>
      /\ known[arg[t]] # object[arg[t]]
      /\ pc[t] = "registering" => state[object[arg[t]]] = "open"
      /\ \A u \in Thread :
           pc[u] \in {"validating", "running", "extracting"} => arg[u] # arg[t]

(* A call keeps meaning what the host knows at its address, which is there *)
(* or gone but never replaced; past the check it is in the table, and no   *)
(* Destroy of it is under way.                                             *)
CallsMeanWhatIsKnown ==
  /\ \A t \in Thread :
       pc[t] \in {"validating", "running", "extracting"} =>
         /\ means[t] # Nothing
         /\ means[t] = known[arg[t]]
         /\ object[arg[t]] \in {means[t], Nothing}
  /\ \A t \in Thread : pc[t] = "running" => arg[t] \in active_handles
  /\ \A t, u \in Thread :
       pc[t] \in {"validating", "running"} /\ pc[u] = "extracting" =>
         arg[t] # arg[u]

(* OneOwner, said of single addresses. *)
Has(t, a) ==
  \/ a \in to_destroy[t]
  \/ a = arg[t] /\ pc[t] \in {"creating", "registering", "closing", "deleting"}

OneHolder ==
  /\ \A a \in Address :
       object[a] # Nothing <=> a \in active_handles \/ \E t \in Thread : Has(t, a)
  /\ \A t \in Thread, a \in Address : Has(t, a) => a \notin active_handles
  /\ \A t, u \in Thread, a \in Address : Has(t, a) /\ Has(u, a) => t = u

(* HandlesAreInductive: every step of the host and of its calls keeps it. *)
HandlesInv ==
  /\ TypeOK
  /\ OneHolder
  /\ DeInitAlone
  /\ OperatorsAreCreated
  /\ TableIsCurrent
  /\ CreationIsPrivate
  /\ CallsMeanWhatIsKnown

-----------------------------------------------------------------------------
(* OneHolder says what OneOwner says. *)
LEMMA OwnersByAddress ==
  ASSUME TypeOK, OneHolder
  PROVE  OneOwner
<1>1. \A t \in Thread : Owns(t) \subseteq Address
  BY HandlesAssumption DEF TypeOK, Owns
<1>2. \A t \in Thread, a \in Address : a \in Owns(t) <=> Has(t, a)
  BY DEF Owns, Has
<1>3. QED
  BY <1>1, <1>2 DEF OneOwner, OneHolder

-----------------------------------------------------------------------------
(* Every step keeps the inductive invariant: one lemma for each action. *)
LEMMA CallCreateStep ==
  ASSUME HandlesInv, NEW t \in Thread, CallCreate(t)
  PROVE  HandlesInv'
<1> USE HandlesAssumption DEF HandlesInv, Operator, CallCreate, GoTo, tableVars,
        hostVars, NoDeInit
<1>1. TypeOK'
  BY DEF TypeOK
<1>2. OneHolder' /\ DeInitAlone' /\ OperatorsAreCreated'
      /\ TableIsCurrent' /\ CreationIsPrivate' /\ CallsMeanWhatIsKnown'
  BY DEF OneHolder, Has, DeInitAlone, OperatorsAreCreated, TableIsCurrent,
         CreationIsPrivate, CallsMeanWhatIsKnown
<1>3. QED
  BY <1>1, <1>2

LEMMA CallProcessStep ==
  ASSUME HandlesInv, NEW t \in Thread, NEW a \in Address, CallProcess(t, a)
  PROVE  HandlesInv'
<1> USE HandlesAssumption DEF HandlesInv, Operator, CallProcess, GoTo, tableVars,
        hostVars, NoDeInit, Destroying
<1>1. TypeOK'
  BY DEF TypeOK
<1>2. OneHolder'
  <2>1. \A u \in Thread, b \in Address : Has(u, b)' <=> Has(u, b)
    BY DEF TypeOK, Has
  <2>2. QED
    BY <2>1 DEF OneHolder
<1>3. CreationIsPrivate'
  BY DEF CreationIsPrivate, TypeOK, OneHolder, Has
<1>4. CallsMeanWhatIsKnown'
  BY DEF CallsMeanWhatIsKnown, TypeOK
<1>5. DeInitAlone' /\ OperatorsAreCreated' /\ TableIsCurrent'
  BY DEF DeInitAlone, OperatorsAreCreated, TableIsCurrent
<1>6. QED
  BY <1>1, <1>2, <1>3, <1>4, <1>5

LEMMA CallDestroyStep ==
  ASSUME HandlesInv, NEW t \in Thread, NEW a \in Address, CallDestroy(t, a)
  PROVE  HandlesInv'
<1> USE HandlesAssumption DEF HandlesInv, Operator, CallDestroy, GoTo, tableVars,
        hostVars, NoDeInit, Processing
<1>1. TypeOK'
  BY DEF TypeOK
<1>2. CreationIsPrivate'
  BY DEF CreationIsPrivate, TypeOK, OneHolder, Has
<1>3. CallsMeanWhatIsKnown'
  BY DEF CallsMeanWhatIsKnown, TypeOK
<1>4. OneHolder' /\ DeInitAlone' /\ OperatorsAreCreated'
      /\ TableIsCurrent'
  BY DEF OneHolder, Has, DeInitAlone, OperatorsAreCreated, TableIsCurrent
<1>5. QED
  BY <1>1, <1>2, <1>3, <1>4

LEMMA CallDeInitStep ==
  ASSUME HandlesInv, NEW t \in Thread, CallDeInit(t)
  PROVE  HandlesInv'
<1> USE HandlesAssumption DEF HandlesInv, Operator, CallDeInit, GoTo, tableVars,
        hostVars, QuietLibrary
<1>1. TypeOK'
  BY DEF TypeOK
<1>2. OneHolder' /\ DeInitAlone' /\ OperatorsAreCreated'
      /\ TableIsCurrent' /\ CreationIsPrivate' /\ CallsMeanWhatIsKnown'
  BY DEF OneHolder, Has, DeInitAlone, OperatorsAreCreated, TableIsCurrent,
         CreationIsPrivate, CallsMeanWhatIsKnown
<1>3. QED
  BY <1>1, <1>2

LEMMA AllocateStep ==
  ASSUME HandlesInv, NEW t \in Thread, NEW a \in Address, Allocate(t, a)
  PROVE  HandlesInv'
<1> USE HandlesAssumption DEF HandlesInv, Operator, Allocate, GoTo, hostVars,
        Processing, Destroying
<1>1. TypeOK'
  BY DEF TypeOK
<1>2. OneHolder'
  <2>1. \A u \in Thread, b \in Address : Has(u, b)' <=> Has(u, b) \/ (u = t /\ b = a)
    BY DEF Has, TypeOK
  <2>2. \A b \in Address : object'[b] # Nothing <=> object[b] # Nothing \/ b = a
    BY DEF TypeOK
  <2>3. a \notin active_handles /\ \A u \in Thread : ~Has(u, a)
    BY DEF OneHolder
  <2>4. QED
    BY <2>1, <2>2, <2>3 DEF OneHolder
<1>3. OperatorsAreCreated'
  BY DEF OperatorsAreCreated, TypeOK
<1>4. TableIsCurrent'
  BY DEF TableIsCurrent, OneHolder
<1>5. CreationIsPrivate'
  BY DEF CreationIsPrivate, TypeOK, OneHolder, Has, OperatorsAreCreated
<1>6. DeInitAlone' /\ CallsMeanWhatIsKnown'
  BY DEF DeInitAlone, CallsMeanWhatIsKnown
<1>7. QED
  BY <1>1, <1>2, <1>3, <1>4, <1>5, <1>6

LEMMA CreateRejectedStep ==
  ASSUME HandlesInv, NEW t \in Thread, CreateRejected(t)
  PROVE  HandlesInv'
<1> USE HandlesAssumption DEF HandlesInv, Operator, CreateRejected, Return,
        tableVars, hostVars, GoTo
<1>1. TypeOK'
  BY DEF TypeOK
<1>2. OneHolder' /\ DeInitAlone' /\ OperatorsAreCreated'
      /\ TableIsCurrent' /\ CreationIsPrivate' /\ CallsMeanWhatIsKnown'
  BY DEF OneHolder, Has, DeInitAlone, OperatorsAreCreated, TableIsCurrent,
         CreationIsPrivate, CallsMeanWhatIsKnown
<1>3. QED
  BY <1>1, <1>2

LEMMA CreateRuntimeStep ==
  ASSUME HandlesInv, NEW t \in Thread, CreateRuntime(t)
  PROVE  HandlesInv'
<1> USE HandlesAssumption DEF HandlesInv, Operator, CreateRuntime, GoTo, hostVars
<1>1. TypeOK'
  BY DEF TypeOK
<1>2. CreationIsPrivate'
  BY DEF CreationIsPrivate, TypeOK, OneHolder, Has
<1>3. OneHolder' /\ DeInitAlone' /\ OperatorsAreCreated'
      /\ TableIsCurrent' /\ CallsMeanWhatIsKnown'
  BY DEF OneHolder, Has, DeInitAlone, OperatorsAreCreated, TableIsCurrent,
         CallsMeanWhatIsKnown
<1>4. QED
  BY <1>1, <1>2, <1>3

LEMMA CreateFailsStep ==
  ASSUME HandlesInv, NEW t \in Thread, CreateFails(t)
  PROVE  HandlesInv'
<1> USE HandlesAssumption DEF HandlesInv, Operator, CreateFails, Return, Free,
        hostVars, GoTo
<1>1. TypeOK'
  BY DEF TypeOK
<1>2. OneHolder'
  <2>1. arg[t] \in Address /\ Has(t, arg[t]) /\ object[arg[t]] # Nothing
    BY DEF TypeOK, OneHolder, Has
  <2>2. \A u \in Thread, b \in Address :
          Has(u, b)' <=> Has(u, b) /\ ~(u = t /\ b = arg[t])
    <3>1. to_destroy[t] = {}
      BY DEF DeInitAlone
    <3>2. QED
      BY <3>1 DEF TypeOK, Has
  <2>3. /\ \A b \in Address : object'[b] # Nothing <=> object[b] # Nothing /\ b # arg[t]
        /\ active_handles' = active_handles
    BY <2>1 DEF TypeOK
  <2>4. OneHolder
    OBVIOUS
  <2> HIDE DEF HandlesInv, CreateFails
  <2>5. QED
    BY <2>1, <2>2, <2>3, <2>4 DEF OneHolder
<1>3. TableIsCurrent'
  BY DEF TableIsCurrent, TypeOK, OperatorsAreCreated, CreationIsPrivate
<1>4. CreationIsPrivate'
  BY DEF CreationIsPrivate, TypeOK, OneHolder, Has, OperatorsAreCreated
<1>5. DeInitAlone' /\ OperatorsAreCreated' /\ CallsMeanWhatIsKnown'
  BY DEF DeInitAlone, OperatorsAreCreated, CallsMeanWhatIsKnown
<1>6. QED
  BY <1>1, <1>2, <1>3, <1>4, <1>5

LEMMA RegisterStep ==
  ASSUME HandlesInv, NEW t \in Thread, Register(t)
  PROVE  HandlesInv'
<1> USE HandlesAssumption DEF HandlesInv, Operator, Register, Return, GoTo
<1>1. TypeOK'
  BY DEF TypeOK
<1>2. OneHolder'
  <2>1. arg[t] \in Address /\ Has(t, arg[t]) /\ object[arg[t]] # Nothing
    BY DEF TypeOK, OneHolder, Has
  <2>2. \A u \in Thread, b \in Address :
          Has(u, b)' <=> Has(u, b) /\ ~(u = t /\ b = arg[t])
    <3>1. to_destroy[t] = {}
      BY DEF DeInitAlone
    <3>2. QED
      BY <3>1 DEF TypeOK, Has
  <2>3. QED
    BY <2>1, <2>2 DEF OneHolder
<1>3. TableIsCurrent'
  BY DEF TableIsCurrent, TypeOK, CreationIsPrivate
<1>4. CreationIsPrivate'
  BY DEF CreationIsPrivate, TypeOK, OneHolder, Has
<1>5. CallsMeanWhatIsKnown'
  BY DEF CallsMeanWhatIsKnown, CreationIsPrivate
<1>6. DeInitAlone' /\ OperatorsAreCreated'
  BY DEF DeInitAlone, OperatorsAreCreated
<1>7. QED
  BY <1>1, <1>2, <1>3, <1>4, <1>5, <1>6

LEMMA ValidateStep ==
  ASSUME HandlesInv, NEW t \in Thread, Validate(t)
  PROVE  HandlesInv'
<1> USE HandlesAssumption DEF HandlesInv, Operator, Validate, GoTo, Return,
        tableVars, hostVars
<1>1. TypeOK'
  <2>1. CASE arg[t] \in active_handles
    BY <2>1 DEF TypeOK
  <2>2. CASE arg[t] \notin active_handles
    <3>1. /\ pc' = [pc EXCEPT ![t] = "idle"]
          /\ arg' = [arg EXCEPT ![t] = Nothing]
          /\ means' = [means EXCEPT ![t] = Nothing]
          /\ call_result' = [call_result EXCEPT ![t] = "none"]
      BY <2>2
    <3>2. QED
      BY <3>1 DEF TypeOK
  <2>3. QED
    BY <2>1, <2>2
<1>2. /\ \A u \in Thread \ {t} : pc'[u] = pc[u] /\ arg'[u] = arg[u]
      /\ pc[t] = "validating" /\ pc'[t] \in {"idle", "running"}
      /\ to_destroy[t] = {} /\ to_destroy' = to_destroy
      /\ UNCHANGED <<object, active_handles>>
  <2>1. pc'[t] \in {"idle", "running"}
    BY DEF TypeOK
  <2>2. \A u \in Thread \ {t} : pc'[u] = pc[u] /\ arg'[u] = arg[u]
    BY DEF TypeOK
  <2>3. to_destroy[t] = {}
    BY DEF DeInitAlone
  <2>4. QED
    BY <2>1, <2>2, <2>3
<1>3. OneHolder' /\ DeInitAlone'
  <2>1. OneHolder /\ DeInitAlone
    OBVIOUS
  <2> HIDE DEF HandlesInv, Validate
  <2>2. \A u \in Thread, b \in Address : Has(u, b)' <=> Has(u, b)
    BY <1>2 DEF Has
  <2>3. OneHolder'
    BY <1>2, <2>1, <2>2 DEF OneHolder
  <2>4. DeInitAlone'
    BY <1>2, <2>1 DEF DeInitAlone
  <2>5. QED
    BY <2>3, <2>4
<1>4. CreationIsPrivate'
  <2>1. CreationIsPrivate /\ UNCHANGED <<known, state>>
    OBVIOUS
  <2>2. pc'[t] # "idle" => arg'[t] = arg[t]
    BY DEF TypeOK
  <2> HIDE DEF HandlesInv, Validate
  <2>3. QED
    BY <1>2, <2>1, <2>2 DEF CreationIsPrivate
<1>5. CallsMeanWhatIsKnown'
  <2>1. \A u \in Thread \ {t} :
          pc'[u] = pc[u] /\ arg'[u] = arg[u] /\ means'[u] = means[u]
    BY DEF TypeOK
  <2>2. CASE arg[t] \in active_handles
    BY <2>1, <2>2 DEF TypeOK, CallsMeanWhatIsKnown
  <2>3. CASE arg[t] \notin active_handles
    <3>1. pc'[t] = "idle" /\ UNCHANGED <<object, active_handles, known>>
      BY <2>3 DEF TypeOK
    <3>2. CallsMeanWhatIsKnown
      BY DEF HandlesInv
    <3>3. QED
      <4> HIDE DEF HandlesInv, Validate
      <4>1. QED
        BY <2>1, <3>1, <3>2 DEF CallsMeanWhatIsKnown
  <2>4. QED
    BY <2>2, <2>3
<1>6. OperatorsAreCreated' /\ TableIsCurrent'
  BY DEF OperatorsAreCreated, TableIsCurrent
<1>7. QED
  BY <1>1, <1>2, <1>3, <1>4, <1>5, <1>6

LEMMA RunStep ==
  ASSUME HandlesInv, NEW t \in Thread, Run(t)
  PROVE  HandlesInv'
<1> USE HandlesAssumption DEF HandlesInv, Operator, Run, Return, tableVars, GoTo
<1>1. TypeOK'
  <2>1. arg[t] \in active_handles /\ object[arg[t]] \in Operator
    BY DEF TypeOK, OneHolder, CallsMeanWhatIsKnown
  <2>2. held_outputs' \in SUBSET Operator
    BY <2>1 DEF TypeOK
  <2>3. QED
    BY <2>2 DEF TypeOK
<1>2. CreationIsPrivate'
  BY DEF CreationIsPrivate, TypeOK
<1>3. CallsMeanWhatIsKnown'
  BY DEF CallsMeanWhatIsKnown, TypeOK
<1>4. OneHolder' /\ DeInitAlone' /\ OperatorsAreCreated'
      /\ TableIsCurrent'
  BY DEF OneHolder, Has, DeInitAlone, OperatorsAreCreated, TableIsCurrent
<1>5. QED
  BY <1>1, <1>2, <1>3, <1>4

LEMMA ExtractForDestroyStep ==
  ASSUME HandlesInv, NEW t \in Thread, ExtractForDestroy(t)
  PROVE  HandlesInv'
<1> USE HandlesAssumption DEF HandlesInv, Operator, ExtractForDestroy, GoTo,
        Return, hostVars
<1>1. TypeOK'
  <2>1. CASE arg[t] \in active_handles
    BY <2>1 DEF TypeOK
  <2>2. CASE arg[t] \notin active_handles
    <3>1. /\ pc' = [pc EXCEPT ![t] = "idle"]
          /\ arg' = [arg EXCEPT ![t] = Nothing]
          /\ means' = [means EXCEPT ![t] = Nothing]
          /\ call_result' = [call_result EXCEPT ![t] = "none"]
      BY <2>2
    <3>2. QED
      BY <2>2, <3>1 DEF TypeOK
  <2>3. QED
    BY <2>1, <2>2
<1>2. OneHolder'
  <2>1. CASE arg[t] \in active_handles
    <3>1. \A u \in Thread, b \in Address :
            Has(u, b)' <=> Has(u, b) \/ (u = t /\ b = arg[t])
      <4>1. to_destroy[t] = {}
        BY DEF DeInitAlone
      <4>2. QED
        BY <2>1, <4>1 DEF TypeOK, Has
    <3>2. QED
      BY <2>1, <3>1 DEF TypeOK, OneHolder
  <2>2. CASE arg[t] \notin active_handles
    <3>1. pc' = [pc EXCEPT ![t] = "idle"] /\ arg' = [arg EXCEPT ![t] = Nothing]
      BY <2>2
    <3>2. \A u \in Thread, b \in Address : Has(u, b)' <=> Has(u, b)
      BY <3>1 DEF TypeOK, Has
    <3>3. QED
      BY <2>2, <3>2 DEF OneHolder
  <2>3. QED
    BY <2>1, <2>2
<1>3. /\ \A u \in Thread \ {t} :
           pc'[u] = pc[u] /\ arg'[u] = arg[u] /\ means'[u] = means[u]
      /\ pc[t] = "extracting" /\ pc'[t] \in {"idle", "closing"}
      /\ active_handles' \in {active_handles, active_handles \ {arg[t]}}
      /\ UNCHANGED <<object, state, known, to_destroy>>
  <2>1. pc'[t] \in {"idle", "closing"}
    BY DEF TypeOK
  <2>2. \A u \in Thread \ {t} :
          pc'[u] = pc[u] /\ arg'[u] = arg[u] /\ means'[u] = means[u]
    BY DEF TypeOK
  <2>3. active_handles' \in {active_handles, active_handles \ {arg[t]}}
    OBVIOUS
  <2>4. QED
    BY <2>1, <2>2, <2>3
<1>4. DeInitAlone' /\ CreationIsPrivate' /\ CallsMeanWhatIsKnown'
  <2>1. DeInitAlone /\ CreationIsPrivate /\ CallsMeanWhatIsKnown
    OBVIOUS
  <2>2. to_destroy[t] = {}
    BY DEF DeInitAlone
  <2> HIDE DEF HandlesInv, ExtractForDestroy
  <2>3. DeInitAlone'
    BY <1>3, <2>1, <2>2 DEF DeInitAlone
  <2>4. CreationIsPrivate'
    BY <1>3, <2>1 DEF CreationIsPrivate
  <2>5. CallsMeanWhatIsKnown'
    <3>1. \A u \in Thread :
            pc'[u] \in {"validating", "running", "extracting"} =>
              u # t /\ pc[u] = pc'[u] /\ arg'[u] = arg[u] /\ means'[u] = means[u]
      BY <1>3
    <3>2. \A u \in Thread :
            pc'[u] = "running" => arg'[u] \in active_handles /\ arg[u] # arg[t]
      BY <1>3, <2>1, <3>1 DEF CallsMeanWhatIsKnown
    <3>3. QED
      BY <1>3, <2>1, <3>1, <3>2 DEF CallsMeanWhatIsKnown
  <2>6. QED
    BY <2>3, <2>4, <2>5
<1>5. OperatorsAreCreated' /\ TableIsCurrent'
  BY DEF OperatorsAreCreated, TableIsCurrent
<1>6. QED
  BY <1>1, <1>2, <1>4, <1>5

LEMMA CloseRuntimeStep ==
  ASSUME HandlesInv, NEW t \in Thread, CloseRuntime(t)
  PROVE  HandlesInv'
<1> USE HandlesAssumption DEF HandlesInv, Operator, CloseRuntime, GoTo, hostVars,
        CloseResult
<1>1. TypeOK'
  BY DEF TypeOK
<1>2. TableIsCurrent'
  BY DEF TableIsCurrent, TypeOK, OneHolder, Has, OperatorsAreCreated
<1>3. CreationIsPrivate'
  BY DEF CreationIsPrivate, TypeOK, OneHolder, Has, OperatorsAreCreated
<1>4. OneHolder' /\ DeInitAlone' /\ OperatorsAreCreated'
      /\ CallsMeanWhatIsKnown'
  BY DEF OneHolder, Has, DeInitAlone, OperatorsAreCreated,
         CallsMeanWhatIsKnown
<1>5. QED
  BY <1>1, <1>2, <1>3, <1>4

LEMMA DeleteStep ==
  ASSUME HandlesInv, NEW t \in Thread, Delete(t)
  PROVE  HandlesInv'
<1> USE HandlesAssumption DEF HandlesInv, Operator, Delete, Return, Free,
        hostVars, GoTo
<1>1. TypeOK'
  BY DEF TypeOK
<1>2. OneHolder'
  BY DEF OneHolder, Has, TypeOK, DeInitAlone
<1>3. TableIsCurrent'
  BY DEF TableIsCurrent, TypeOK, OneHolder, Has, OperatorsAreCreated
<1>4. CreationIsPrivate'
  BY DEF CreationIsPrivate, TypeOK, OneHolder, Has, OperatorsAreCreated
<1>5. DeInitAlone' /\ OperatorsAreCreated' /\ CallsMeanWhatIsKnown'
  BY DEF DeInitAlone, OperatorsAreCreated, CallsMeanWhatIsKnown
<1>6. QED
  BY <1>1, <1>2, <1>3, <1>4, <1>5

LEMMA SwapStep ==
  ASSUME HandlesInv, NEW t \in Thread, Swap(t)
  PROVE  HandlesInv'
<1> USE HandlesAssumption DEF HandlesInv, Operator, Swap, GoTo, hostVars
<1>1. TypeOK'
  BY DEF TypeOK
<1>2. OneHolder'
  BY DEF OneHolder, Has, TypeOK, DeInitAlone
<1>3. DeInitAlone'
  BY DEF DeInitAlone, TypeOK
<1>4. CallsMeanWhatIsKnown'
  BY DEF CallsMeanWhatIsKnown, DeInitAlone
<1>5. OperatorsAreCreated' /\ TableIsCurrent' /\ CreationIsPrivate'
  BY DEF OperatorsAreCreated, TableIsCurrent, CreationIsPrivate
<1>6. QED
  BY <1>1, <1>2, <1>3, <1>4, <1>5

LEMMA DestroyNextStep ==
  ASSUME HandlesInv, NEW t \in Thread, NEW a \in Address, DestroyNext(t, a)
  PROVE  HandlesInv'
<1> USE HandlesAssumption DEF HandlesInv, Operator, DestroyNext, Free, hostVars,
        CloseResult
<1>1. TypeOK'
  BY DEF TypeOK
<1>2. OneHolder'
  BY DEF OneHolder, Has, TypeOK
<1>3. TableIsCurrent'
  BY DEF TableIsCurrent, TypeOK, OneHolder, Has, OperatorsAreCreated
<1>4. CreationIsPrivate'
  BY DEF CreationIsPrivate, TypeOK, OneHolder, Has, OperatorsAreCreated
<1>5. DeInitAlone' /\ OperatorsAreCreated' /\ CallsMeanWhatIsKnown'
  BY DEF DeInitAlone, OperatorsAreCreated, CallsMeanWhatIsKnown
<1>6. QED
  BY <1>1, <1>2, <1>3, <1>4, <1>5

LEMMA FinishDeInitStep ==
  ASSUME HandlesInv, NEW t \in Thread, FinishDeInit(t)
  PROVE  HandlesInv'
<1> USE HandlesAssumption DEF HandlesInv, Operator, FinishDeInit, Return,
        tableVars, hostVars, GoTo
<1>1. TypeOK'
  BY DEF TypeOK
<1>2. OneHolder' /\ DeInitAlone' /\ OperatorsAreCreated'
      /\ TableIsCurrent' /\ CreationIsPrivate' /\ CallsMeanWhatIsKnown'
  BY DEF OneHolder, Has, DeInitAlone, OperatorsAreCreated, TableIsCurrent,
         CreationIsPrivate, CallsMeanWhatIsKnown
<1>3. QED
  BY <1>1, <1>2

LEMMA DropOutputsStep ==
  ASSUME HandlesInv, NEW op \in Operator, DropOutputs(op)
  PROVE  HandlesInv'
<1> USE DEF HandlesInv, DropOutputs, tableVars, callVars
<1>1. TypeOK'
  BY DEF TypeOK
<1>2. OneHolder'
  BY DEF OneHolder, Has
<1>3. QED
  BY <1>1, <1>2 DEF DeInitAlone, OperatorsAreCreated, TableIsCurrent,
    CreationIsPrivate, CallsMeanWhatIsKnown

LEMMA StutterStep ==
  ASSUME HandlesInv, UNCHANGED handlesVars
  PROVE  HandlesInv'
BY DEF HandlesInv, handlesVars, tableVars, hostVars, callVars, TypeOK, OneHolder, Has,
  DeInitAlone, OperatorsAreCreated, TableIsCurrent, CreationIsPrivate,
  CallsMeanWhatIsKnown

-----------------------------------------------------------------------------
(* The inductive invariant holds in every state, whatever the host does    *)
(* within its promises.                                                    *)
THEOREM HandlesAreInductive == HandlesSpec => []HandlesInv
<1>1. HandlesInit => HandlesInv
  <2> SUFFICES ASSUME HandlesInit PROVE HandlesInv
    OBVIOUS
  <2> USE HandlesAssumption DEF HandlesInit, Operator
  <2>1. TypeOK
    BY DEF TypeOK
  <2>2. OneHolder
    BY DEF OneHolder, Has
  <2>3. QED
    BY <2>1, <2>2 DEF HandlesInv, DeInitAlone, OperatorsAreCreated, TableIsCurrent,
      CreationIsPrivate, CallsMeanWhatIsKnown
<1>2. HandlesInv /\ [HandlesNext]_handlesVars => HandlesInv'
  <2> SUFFICES ASSUME HandlesInv, [HandlesNext]_handlesVars PROVE HandlesInv'
    OBVIOUS
  <2>1. ASSUME NEW t \in Thread, HostCall(t) PROVE HandlesInv'
    BY <2>1, CallCreateStep, CallProcessStep, CallDestroyStep, CallDeInitStep
       DEF HostCall
  <2>2. ASSUME NEW t \in Thread, CallStep(t) PROVE HandlesInv'
    BY <2>2, AllocateStep, CreateRejectedStep, CreateRuntimeStep,
       CreateFailsStep, RegisterStep, ValidateStep, RunStep,
       ExtractForDestroyStep, CloseRuntimeStep, DeleteStep, SwapStep,
       DestroyNextStep, FinishDeInitStep
       DEF CallStep
  <2>3. QED
    BY <2>1, <2>2, DropOutputsStep, StutterStep DEF HandlesNext
<1>3. QED
  BY <1>1, <1>2, PTL DEF HandlesSpec

(* Every variable keeps its type. *)
THEOREM HandlesTypeCorrect == HandlesSpec => []TypeOK
<1>1. HandlesInv => TypeOK
  BY DEF HandlesInv
<1>2. QED
  BY <1>1, HandlesAreInductive, PTL

(* Every object has one owner: none leaks, none is deleted twice, and the  *)
(* table never lists a freed address.                                      *)
THEOREM HandlesHaveOneOwner == HandlesSpec => []OneOwner
<1>1. HandlesInv => OneOwner
  BY OwnersByAddress DEF HandlesInv
<1>2. QED
  BY <1>1, HandlesAreInductive, PTL

(* A Process past its check runs on the operator its host means, open: a   *)
(* reused address never leads it to another one.                           *)
THEOREM CallsAreNotMisled == HandlesSpec => []CallsReachTheirOperator
<1>1. HandlesInv => CallsReachTheirOperator
  BY DEF HandlesInv, TypeOK, TableIsCurrent, CallsMeanWhatIsKnown,
    CallsReachTheirOperator
<1>2. QED
  BY <1>1, HandlesAreInductive, PTL
=============================================================================
