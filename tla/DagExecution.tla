---------------------------- MODULE DagExecution -----------------------------
(***************************************************************************)
(* What executing a pipeline promises for one request after another, with  *)
(* no layers, threads or queues:                                           *)
(*                                                                         *)
(*   - a node runs at most once per request, and only when every node it   *)
(*     depends on has succeeded for this very request;                     *)
(*   - the request ends when no node runs any more; it ends well only if   *)
(*     every node has succeeded, and from then on nothing starts.          *)
(*                                                                         *)
(* PipelineExecutor implements this specification.                         *)
(***************************************************************************)
CONSTANTS
  Node,
  Deps     \* Deps[n]: the nodes whose outputs n reads

VARIABLES
  state,   \* of each node: "pending", "running", "ok" or "failed"
  verdict  \* of the request: "open", "ok" or "failed"

dagVars == <<state, verdict>>

Init ==
  /\ state = [n \in Node |-> "pending"]
  /\ verdict = "open"

Start(n) ==
  /\ verdict = "open"
  /\ state[n] = "pending"
  /\ \A m \in Deps[n] : state[m] = "ok"
  /\ state' = [state EXCEPT ![n] = "running"]
  /\ UNCHANGED verdict

Finish(n) ==
  /\ state[n] = "running"
  /\ \E outcome \in {"ok", "failed"} : state' = [state EXCEPT ![n] = outcome]
  /\ UNCHANGED verdict

Return ==
  /\ verdict = "open"
  /\ \A n \in Node : state[n] # "running"
  /\ \/ /\ \A n \in Node : state[n] = "ok"
        /\ verdict' = "ok"
     \/ verdict' = "failed"
  /\ UNCHANGED state

NextRequest ==
  /\ verdict # "open"
  /\ state' = [n \in Node |-> "pending"]
  /\ verdict' = "open"

Next ==
  \/ Return
  \/ NextRequest
  \/ \E n \in Node : Start(n) \/ Finish(n)

Spec == Init /\ [][Next]_dagVars
=============================================================================
