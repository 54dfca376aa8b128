-------------------------- MODULE MCPipelineControl --------------------------
(***************************************************************************)
(* Three Nodes in a row: a and b are made from a NodeSpec, h has a         *)
(* ControlNode of its own.  Command 1 replaces lo and hi of a, where lo    *)
(* may not exceed hi, and only lo of b, which has two outputs.  Two        *)
(* callers, and one request of two items.                                  *)
(***************************************************************************)
EXTENDS PipelineControl

CONSTANTS a, b, h, t1, t2, r1

MCPlan == <<a, b, h>>
MCField == {"lo", "hi"}
MCSchema == [f \in MCField |-> {1, 2}]
MCConfig == [MCField -> {1, 2}]
MCAccepted == a :> {c \in MCConfig : c.lo <= c.hi} @@ b :> MCConfig
MCInitial == [n \in {a, b} |-> [lo |-> 1, hi |-> 2]]

MCOutput(name) == PreservedOutput(name, "TextBatch", name, "text")
MCSpec(fields, outputs) ==
  [inputs |-> <<Required("text", "TextBatch")>>,
   outputs |-> outputs,
   models |-> <<>>,
   parameters |-> MCField,
   commands |-> <<[id |-> 1, name |-> "limits", fields |-> fields]>>]
MCDeclared ==
  a :> MCSpec(<<"lo", "hi">>, <<MCOutput("out")>>)
  @@ b :> MCSpec(<<"lo">>, <<MCOutput("out"), MCOutput("more")>>)
  @@ h :> MCSpec(<<"lo">>, <<MCOutput("out")>>)

MCBound(key) == [key |-> key, type |-> "TextBatch"]
MCBinding(in, out) == [ports |-> "input" :> ("text" :> MCBound(in)) @@ "output" :> out]
MCPorts ==
  a :> MCBinding("k0", "out" :> MCBound("k1"))
  @@ b :> MCBinding("k1", "out" :> MCBound("k2") @@ "more" :> MCBound("k3"))
  @@ h :> MCBinding("k2", "out" :> MCBound("k4"))

MCBatch == <<Item(0, 0, None), Item(1, 0, None)>>
MCInputBatch == "k0" :> [type |-> "TextBatch", batch |-> MCBatch]

MCCall(via, cmd, form, target, fields) ==
  [via |-> via, cmd |-> cmd, form |-> form, target |-> target, fields |-> fields]
MCCalls == {
  MCCall("rules", 1, "object", None, "lo" :> 2),
  MCCall("json", 1, "object", a, "hi" :> 1),
  MCCall("direct", 1, "object", None, [lo |-> 2, hi |-> 2]),
  MCCall("json", 1, "object", b, "lo" :> 3),
  MCCall("json", 0, "object", None, "lo" :> 2),
  MCCall("direct", 1, "not_json", h, <<>>),
  MCCall("json", 1, "object", Unbound, "lo" :> 2),
  MCCall("prompt", 2, "object", None, "lo" :> 2)}
==============================================================================
