---------------------------- MODULE PipelineControl --------------------------
(***************************************************************************)
(* Control of a pipeline that is running: Pipeline::Control checks a call  *)
(* against every Node it addresses before it tells any of them, and each   *)
(* Node replaces its ConfigurationSnapshot under a lock of its own while   *)
(* requests read it without one (src/core/pipeline.cpp,                    *)
(* include/nodes/control_authoring.h, configuration_snapshot.h).           *)
(*                                                                         *)
(* The pipeline is Ready.  Requests run their Nodes in the order of the    *)
(* plan; what may run in parallel is PipelineExecutor's subject.           *)
(***************************************************************************)
EXTENDS AuthorNode

CONSTANTS
  Caller,       \* threads that call Control
  Request,      \* requests that are processed meanwhile
  Plan,         \* the Nodes, in the order of report.topological_layers
  Declared,     \* Declared[n]: the NodeSpec of n
  Ports,        \* Ports[n]: the bindings of n in the plan
  HandWritten,  \* Nodes with a ControlNode of their own, without schemas
  Field,        \* fields that commands may replace
  Schema,       \* Schema[f]: values that the field's schema accepts
  Accepted,     \* Accepted[n]: configurations that ValidateState accepts
  Initial,      \* Initial[n]: the configuration that Init parsed
  Calls,        \* calls of Control: records as in CallType
  InputBatch,   \* what is on a request's board at first
  MaxCalls,     \* how often a caller may call
  None

Node == Range(Plan)
AuthorNodes == Node \ HandWritten
Config == [Field -> UNION Range(Schema)]

(* What the batches on a board are made of: items of the request, with the *)
(* payloads they came with or the configuration they were computed under.  *)
Origins == UNION {Range(InputBatch[key].batch) : key \in DOMAIN InputBatch}
BoardItem ==
  Origins \cup {Item(item.req, item.sub, data) : item \in Origins, data \in Config \cup {None}}

OutputKey(n, o) == FindPort(Ports[n], "output", Declared[n].outputs[o].name).key

(* A call: through which entry, for which command, with which text.  The   *)
(* text of an object has fields and, in an envelope, a target; Unbound is  *)
(* a target that no Node has for its id.                                   *)
CallType ==
  [via : {"rules", "prompt", "json", "direct"},
   cmd : Int,
   form : {"object", "not_object", "not_json", "bad_envelope"},
   target : Node \cup {None, Unbound}]

ASSUME ControlAssumption ==
  /\ Plan \in Seq(Range(Plan)) /\ IsInjective(Plan)
  /\ DOMAIN Schema = Field
  /\ HandWritten \subseteq Node
  /\ None \notin Caller \cup Node
  /\ \A n \in AuthorNodes : NodeSpec(Declared[n]) /\ Initial[n] \in Accepted[n] \cap Config
  /\ \A c \in Calls : [f \in DOMAIN c \ {"fields"} |-> c[f]] \in CallType

(* What is on a board at first lines up.  The Nodes are those whose outputs *)
(* preserve an input that they must have; the plan makes a key from the    *)
(* Node and the output that it is for.                                     *)
ASSUME BoardAssumption ==
  /\ \A key, other \in DOMAIN InputBatch :
       /\ InputBatch[key].batch \in Seq(Origins)
       /\ Keys(InputBatch[key].batch) = Keys(InputBatch[other].batch)
  /\ Null \notin Seq(BoardItem)
  /\ \A n \in Node :
       LET inputs == Declared[n].inputs outputs == Declared[n].outputs IN
       /\ inputs \in Seq(Range(inputs)) /\ outputs \in Seq(Range(outputs))
       /\ inputs # <<>> /\ CheckAnchors(Declared[n])
       /\ "" \notin Range(Column(outputs, "anchor"))
       /\ \A port \in Range(inputs) :
            port.name \in {inputs[1].name} \cup Range(Column(outputs, "anchor")) =>
              port.required /\ ~port.allow_missing
       /\ \A o \in DOMAIN outputs :
            /\ OutputKey(n, o) \notin DOMAIN InputBatch
            /\ \A m \in Node : \A p \in DOMAIN Declared[m].outputs :
                 OutputKey(n, o) = OutputKey(m, p) /\ <<n, o>> # <<m, p>> =>
                   OutputKey(n, o) = Unbound

VARIABLES
  snapshot,  \* snapshot[n]: the configuration in force
  writer,    \* writer[n]: who holds writer_mutex_
  call,      \* call[c]: where caller c is
  run,       \* run[r]: where request r is
  board      \* board[r]: the blackboard of r

vars == <<snapshot, writer, call, run, board>>

NoCall == [pc |-> "idle", request |-> None, left |-> {}, next |-> None,
           failure |-> "", handled |-> FALSE, code |-> "", stage |-> "none",
           told |-> {}, stored |-> {}, calls |-> 0]

Init ==
  /\ snapshot = [n \in AuthorNodes |-> Initial[n]]
  /\ writer = [n \in AuthorNodes |-> None]
  /\ call = [c \in Caller |-> NoCall]
  /\ run = [r \in Request |-> [pc |-> "start", at |-> 1, held |-> None,
                               items |-> <<>>, code |-> ""]]
  /\ board = [r \in Request |-> InputBatch]

-----------------------------------------------------------------------------
(* Checking a call *)

(* What the operator shell makes of a host's parameter: the two older      *)
(* commands have ids of their own, and only objects are passed on.         *)
ResolveControlParam(c) ==
  [ok |-> \/ c.via = "direct" \/ c.via = "prompt"
          \/ c.form \in {"object", "bad_envelope"} /\ (c.via = "json" => c.cmd > 0),
   cmd |-> CASE c.via = "rules" -> 1 [] c.via = "prompt" -> 2 [] OTHER -> c.cmd]

Command(c) == ResolveControlParam(c).cmd

(* The commands that the catalog knows of n, each with its fields. *)
Commands(n) == BuildDefinition(Declared[n]).control_commands

Addressed(c) == {n \in Node : c.target \in {None, n}}
Targets(c) == {n \in Addressed(c) : Command(c) \in DOMAIN Commands(n)}

(* The first of a set of Nodes in the order of the plan. *)
Position(n) == CHOOSE i \in DOMAIN Plan : Plan[i] = n
Earliest(nodes) == CHOOSE n \in nodes : \A m \in nodes : Position(n) <= Position(m)

(* ValidateControlPayload with the schema that GenerateSchema made: one of *)
(* the command's fields at least, no others, and values of their schemas.  *)
FitsSchema(c, n) ==
  n \in AuthorNodes =>
    /\ c.form = "object"
    /\ DOMAIN c.fields # {}
    /\ DOMAIN c.fields \subseteq Commands(n)[Command(c)]
    /\ \A f \in DOMAIN c.fields : c.fields[f] \in Schema[f]

(* Mutant: only the first target's schema is looked at. *)
StageOfFirstTarget(c) ==
  IF ~ResolveControlParam(c).ok \/ c.form = "bad_envelope" THEN "request"
  ELSE IF c.target = Unbound THEN "request"
  ELSE IF Targets(c) # {} /\ ~FitsSchema(c, Earliest(Targets(c))) THEN "request"
  ELSE IF Targets(c) = {} THEN "unsupported" ELSE "node"

(* Where a call is turned down; "node" when the Nodes are told. *)
Stage(c) ==
  IF ~ResolveControlParam(c).ok \/ c.form = "bad_envelope" THEN "request"
  ELSE IF c.target = Unbound THEN "request"
  ELSE IF \E n \in Targets(c) : ~FitsSchema(c, n) THEN "request"
  ELSE IF Targets(c) = {} THEN "unsupported" ELSE "node"

Finished(record, code, stage) ==
  [record EXCEPT !.pc = "returned", !.code = code, !.stage = stage]

StartControl(t) ==
  /\ call[t].pc \in {"idle", "returned"}
  /\ call[t].calls < MaxCalls
  /\ \E c \in Calls :
       LET record == [NoCall EXCEPT !.request = c, !.calls = call[t].calls + 1] IN
       call' = [call EXCEPT ![t] =
         CASE Stage(c) = "request" -> Finished(record, "invalid_argument", "request")
           [] Stage(c) = "unsupported" ->
                Finished(record, "unsupported_control", "unsupported")
           [] OTHER -> [record EXCEPT !.pc = "telling", !.left = Targets(c)]]
  /\ UNCHANGED <<snapshot, writer, run, board>>

-----------------------------------------------------------------------------
(* Telling the Nodes, one after the other *)

Telling(t) == call[t].pc = "telling" /\ call[t].left # {}
NextTarget(t) == Earliest(call[t].left)

(* One Node answered.  A failure does not end the broadcast; the first is  *)
(* reported, a code of 0 as an internal exception.                         *)
Answered(t, status, code, stores) ==
  LET old == call[t] n == NextTarget(t) IN
  call' = [call EXCEPT ![t] =
    [old EXCEPT !.pc = "telling", !.left = @ \ {n}, !.next = None,
                !.handled = @ \/ status = "handled",
                !.told = @ \cup {n},
                !.stored = @ \cup stores,
                !.failure = IF status = "failed" /\ @ = ""
                            THEN IF code = "" THEN "internal_exception" ELSE code
                            ELSE @]]

(* A Node with a ControlNode of its own may answer anything. *)
TellHandWritten(t) ==
  /\ Telling(t) /\ NextTarget(t) \in HandWritten
  /\ \E status \in {"unsupported", "handled", "failed"}, code \in {"", "node_code"} :
       Answered(t, status, code, {})
  /\ UNCHANGED <<snapshot, writer, run, board>>

(* Assigning the fields that the payload has to a copy. *)
Assign(config, fields) ==
  [f \in Field |-> IF f \in DOMAIN fields THEN fields[f] ELSE config[f]]

(* Mutant: the copy is made before the writer's lock is held. *)
LockSnapshotLate(t) ==
  LET n == NextTarget(t) IN
  /\ Telling(t) /\ n \in AuthorNodes
  /\ \/ /\ call[t].next = None
        /\ call' = [call EXCEPT ![t].next = Assign(snapshot[n], call[t].request.fields)]
        /\ UNCHANGED writer
     \/ /\ call[t].next # None
        /\ writer[n] = None
        /\ writer' = [writer EXCEPT ![n] = t]
        /\ call' = [call EXCEPT ![t].pc = "updating"]
  /\ UNCHANGED <<snapshot, run, board>>

(* FieldControlCommand::Execute validates the payload once more, and       *)
(* ConfigurationSnapshot::Update builds the next configuration, under the  *)
(* writer's lock, from the one in force.                                   *)
LockSnapshot(t) ==
  LET n == NextTarget(t) IN
  /\ Telling(t) /\ n \in AuthorNodes
  /\ IF FitsSchema(call[t].request, n)
     THEN /\ writer[n] = None
          /\ writer' = [writer EXCEPT ![n] = t]
          /\ call' = [call EXCEPT ![t].pc = "updating",
               ![t].next = Assign(snapshot[n], call[t].request.fields)]
     ELSE /\ Answered(t, "failed", "invalid_argument", {})
          /\ UNCHANGED writer
  /\ UNCHANGED <<snapshot, run, board>>

(* ValidateState decides; it, or an allocation, may throw as well.         *)
StoreSnapshot(t) ==
  LET n == NextTarget(t) next == call[t].next IN
  /\ call[t].pc = "updating"
  /\ next \in Accepted[n]
  /\ snapshot' = [snapshot EXCEPT ![n] = next]
  /\ writer' = [writer EXCEPT ![n] = None]
  /\ Answered(t, "handled", "", {n})
  /\ UNCHANGED <<run, board>>

RefuseUpdate(t) ==
  /\ call[t].pc = "updating"
  /\ \/ /\ call[t].next \notin Accepted[NextTarget(t)]
        /\ Answered(t, "failed", "invalid_argument", {})
     \/ Answered(t, "failed", "internal_exception", {})
  /\ writer' = [writer EXCEPT ![NextTarget(t)] = None]
  /\ UNCHANGED <<snapshot, run, board>>

ReturnControl(t) ==
  /\ call[t].pc = "telling" /\ call[t].left = {}
  /\ call' = [call EXCEPT ![t] =
       IF @.failure # "" THEN Finished(@, @.failure, "node")
       ELSE IF @.handled THEN Finished(@, "", "none")
       ELSE Finished(@, "unsupported_control", "unsupported")]
  /\ UNCHANGED <<snapshot, writer, run, board>>

-----------------------------------------------------------------------------
(* Requests *)

At(r) == Plan[run[r].at]
Inputs(r) == PopulateInputs(Ports[At(r)], Declared[At(r)], board[r])

(* The Run function maps this input, item by item. *)
Mapped(r) == Inputs(r)[Declared[At(r)].inputs[1].name]

Fails(r, code) == run' = [run EXCEPT ![r] = [@ EXCEPT !.pc = "failed", !.code = code]]

(* The inputs are read, then the snapshot: once, for the whole batch. *)
StartNode(r) ==
  /\ run[r].pc = "start" /\ run[r].at <= Len(Plan)
  /\ IF InputsReady(Ports[At(r)], Declared[At(r)], board[r])
     THEN run' = [run EXCEPT ![r] =
            [@ EXCEPT !.pc = "mapping", !.items = <<>>,
                      !.held = IF At(r) \in AuthorNodes THEN snapshot[At(r)] ELSE None]]
     ELSE Fails(r, "missing_input")
  /\ UNCHANGED <<snapshot, writer, call, board>>

(* Mutant: each item reads the snapshot anew. *)
MapItemReread(r) ==
  LET input == Mapped(r)[Len(run[r].items) + 1] IN
  /\ run[r].pc = "mapping" /\ Len(run[r].items) < Len(Mapped(r))
  /\ run' = [run EXCEPT ![r].items = Append(@,
       Item(input.req, input.sub,
            IF At(r) \in AuthorNodes THEN snapshot[At(r)] ELSE None))]
  /\ UNCHANGED <<snapshot, writer, call, board>>

(* The next item is computed under the configuration that is held. *)
MapItem(r) ==
  LET input == Mapped(r)[Len(run[r].items) + 1] IN
  /\ run[r].pc = "mapping" /\ Len(run[r].items) < Len(Mapped(r))
  /\ run' = [run EXCEPT ![r].items = Append(@, Item(input.req, input.sub, run[r].held))]
  /\ UNCHANGED <<snapshot, writer, call, board>>

(* What a Run function may have done to the batch that it returns. *)
Shapes(batch) == {batch, SubSeq(batch, 2, Len(batch)), Reverse(batch)}

(* Run returns, with the batch or with a failure, or it throws. *)
FinishNode(r) ==
  LET n == At(r) members == Range(Column(Declared[n].outputs, "member")) IN
  /\ run[r].pc = "mapping" /\ Len(run[r].items) = Len(Mapped(r))
  /\ \E result \in {Success(value) : value \in [members -> Shapes(run[r].items)]}
                     \cup {Failure("callback_failed", None, code) : code \in {"", "cause"}}
                     \cup {Failure("throws", None, "internal_exception")} :
       LET after == FinishRun(Ports[n], Declared[n], Inputs(r), result, board[r]) IN
       /\ board' = [board EXCEPT ![r] = after.board]
       /\ IF after.code = "ok"
          THEN run' = [run EXCEPT ![r].pc = "start", ![r].at = @ + 1]
          ELSE Fails(r, after.code)
  /\ UNCHANGED <<snapshot, writer, call>>

-----------------------------------------------------------------------------
Control(t) ==
  \/ StartControl(t) \/ TellHandWritten(t) \/ LockSnapshot(t)
  \/ StoreSnapshot(t) \/ RefuseUpdate(t) \/ ReturnControl(t)

Process(r) == StartNode(r) \/ MapItem(r) \/ FinishNode(r)

Next == (\E t \in Caller : Control(t)) \/ (\E r \in Request : Process(r))

Spec == Init /\ [][Next]_vars
-----------------------------------------------------------------------------
(* Properties *)

(* No update is lost: a configuration changes only by the fields of one    *)
(* call, applied to the configuration that was in force just before.       *)
NoUpdateIsLost ==
  [][\A n \in AuthorNodes : snapshot'[n] # snapshot[n] =>
       \E t \in Caller :
         /\ n \in call'[t].stored \ call[t].stored
         /\ snapshot'[n] = Assign(snapshot[n], call[t].request.fields)]_vars

(* What Control returns is what happened: a call that is turned down, or   *)
(* that one of the Nodes it addresses cannot take, has changed no Node,    *)
(* also none before that Node; any other has told all it addressed,        *)
(* whichever failed; and one that succeeds has changed every Node with a   *)
(* field command.                                                          *)
OutcomeTellsWhatHappened ==
  \A t \in Caller : call[t].pc = "returned" =>
    LET targets == Targets(call[t].request) stage == call[t].stage IN
    /\ \/ stage \in {"request", "unsupported"}
       \/ \E n \in targets : ~FitsSchema(call[t].request, n)
       => call[t].stored = {}
    /\ stage \in {"none", "node"} => call[t].told = targets
    /\ stage = "none" => call[t].stored = targets \cap AuthorNodes

(* A request sees one configuration for all items of a batch, and a valid  *)
(* one, however many updates are stored while the batch is computed.       *)
OneConfigurationPerBatch ==
  \A r \in Request : \A key \in DOMAIN board[r] \ DOMAIN InputBatch :
    LET batch == board[r][key].batch IN
    \A i, j \in DOMAIN batch : batch[i].data = batch[j].data

(* The blackboard holds only outputs that line up, item by item, with the  *)
(* input they are declared to preserve, and a Node that failed has         *)
(* published nothing.                                                      *)
BoardFollowsInputs ==
  \A r \in Request :
    /\ \A key \in DOMAIN board[r] : \A other \in DOMAIN board[r] :
         Keys(board[r][key].batch) = Keys(board[r][other].batch)
    /\ run[r].pc = "failed" =>
         \A o \in Range(Declared[At(r)].outputs) :
           FindPort(Ports[At(r)], "output", o.name).key \notin DOMAIN board[r]
=============================================================================
