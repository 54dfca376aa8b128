------------------------- MODULE MCPipelineExecutor --------------------------
(***************************************************************************)
(* A source, a layer of three nodes for two workers, and a sink that needs *)
(* two of them: tasks queue behind busy workers, finish in any order and   *)
(* fail in any combination.                                                *)
(***************************************************************************)
EXTENDS PipelineExecutor, TLC

CONSTANTS source, left, middle, right, sink, w1, w2

MCNode == {source, left, middle, right, sink}
MCLayers == <<<<source>>, <<left, middle, right>>, <<sink>>>>
MCDeps ==
  source :> {} @@ left :> {source} @@ middle :> {source} @@ right :> {source}
    @@ sink :> {left, right}
MCWorker == {w1, w2}
=============================================================================
