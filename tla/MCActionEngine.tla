--------------------------- MODULE MCActionEngine ---------------------------
(* Instances of ActionEngine small enough for TLC.                         *)
EXTENDS ActionEngineProps, TLC
CONSTANTS h1, h2, t1, t2, c1, c2, c3, web, pod, n1, n2

MCKindOf ==
  [o \in Objects |-> CASE o = web -> "Deployment" [] o = pod -> "Pod"
                       [] OTHER -> "Node"]
MCUIDs == (Contexts \X Objects) \X (1 .. MaxMoves + 1)
MCPlan == Plan

ToolCall(a, o, c, x) ==
  [action |-> a, obj |-> o, ctx |-> c, args |-> x, category |-> "none",
   force |-> FALSE]

\* Every tool; two sizes, with the cluster named and not; sizes and a kind that
\* are refused.
AllCalls ==
  {ToolCall("scale", web, NoContext, 1), ToolCall("scale", web, c1, 2),
   ToolCall("scale", web, c1, -1), ToolCall("scale", web, c1, 3),
   ToolCall("scale", n1, c1, 1),
   ToolCall("restart_deployment", web, c1, 0),
   [ToolCall("restart_deployment", web, c1, 0) EXCEPT !.category = "useless"],
   ToolCall("delete_pod", pod, c1, 1),
   ToolCall("cordon", n1, c1, 1),
   ToolCall("uncordon", n1, c1, 0)}
AllArgs == -1 .. 3
ScaleOnly == {ToolCall("scale", web, c1, 1)}
\* One object name in two clusters, and a cluster the process cannot open.
ClusterCalls == {ToolCall("scale", web, c, 1) : c \in {c1, c2, c3}}
CordonCalls == {ToolCall("cordon", n, c1, 1) : n \in {n1, n2}}

HandlerSymmetry == Permutations(Handlers)
TwoSymmetry == Permutations(Handlers) \cup Permutations(Tokens)
=============================================================================
