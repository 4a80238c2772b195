----------------------------- MODULE MCPipeline -----------------------------
(***************************************************************************)
(* Five parts of a pipeline that share no state, each checked on its own   *)
(* instance: what the context of a blueprint resolves to, what its modules *)
(* compile to, how an Assert, a Channel or a Junction routes rows, what    *)
(* the threads of an execution register in the catalog, and the watermark  *)
(* of an incremental Channel.  A behaviour is one of one part; the other   *)
(* four stay in one of their initial states.                               *)
(***************************************************************************)
EXTENDS MCContextMap, MCBlueprintCompile, MCRowRouting, MCSessionViews, MCWatermarks

VARIABLE part

Parts == {"context", "compile", "routing", "views", "watermark"}
pipelineVars == <<part, contextVars, compileVars, routingVars, viewsVars, wmVars>>

SomeRoot == CHOOSE blueprint \in Special : TRUE
SomeRouter == Channel({}, TRUE)
SomeManifest == CHOOSE m \in SmallManifests : TRUE

PipelineInit ==
    /\ part \in Parts
    /\ part # "compile" => root = SomeRoot
    /\ part # "routing" => router = SomeRouter /\ input = {}
    /\ part # "views" => manifest = SomeManifest
    /\ CompileInit /\ RoutingInit /\ ViewsInit /\ WmInit
    /\ IF part = "context" THEN ContextInit ELSE layers = Chain /\ NothingResolved

PipelineNext ==
    \/ /\ part = "context" /\ ContextNext
       /\ UNCHANGED <<part, compileVars, routingVars, viewsVars, wmVars>>
    \/ /\ part = "compile" /\ CompileNext
       /\ UNCHANGED <<part, contextVars, routingVars, viewsVars, wmVars>>
    \/ /\ part = "routing" /\ RoutingNext
       /\ UNCHANGED <<part, contextVars, compileVars, viewsVars, wmVars>>
    \/ /\ part = "views" /\ ViewsNext
       /\ UNCHANGED <<part, contextVars, compileVars, routingVars, wmVars>>
    \/ /\ part = "watermark" /\ WmNext
       /\ UNCHANGED <<part, contextVars, compileVars, routingVars, viewsVars>>

PipelineSpec == PipelineInit /\ [][PipelineNext]_pipelineVars
=============================================================================
