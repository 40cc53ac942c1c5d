--------------------------- MODULE MCPlanExecutor ---------------------------
(* Plans of three steps.  A graph says of each pair of steps whether the    *)
(* first depends on the second, and how.  Taken are all the graphs in which *)
(* a step depends on earlier ones, a join declared before what it waits     *)
(* for, and two cycles, one of which is closed by an optional edge.         *)
EXTENDS PlanExecutor, TLC

MCSteps == 1 .. 3

Pairs == {<<s, d>> \in MCSteps \X MCSteps : s # d}
Kinds == {"none", "hard", "optional"}
NoEdges == [e \in Pairs |-> "none"]

Forward == {g \in [Pairs -> Kinds] : \A e \in Pairs : e[2] > e[1] => g[e] = "none"}
Others == {<<1, 3>> :> "hard" @@ <<1, 2>> :> "optional" @@ NoEdges,
           <<1, 2>> :> "hard" @@ <<2, 1>> :> "optional" @@ NoEdges,
           <<1, 2>> :> "hard" @@ <<2, 3>> :> "hard" @@ <<3, 1>> :> "hard" @@ NoEdges}

Upstreams(g, kind) == [s \in MCSteps |-> {d \in MCSteps \ {s} : g[<<s, d>>] = kind}]

\* Room for every retry but one; a step without a corpus and one without a
\* retry; more calls than budget.
Sizes == {[corpora |-> <<1, 1, 2>>, calls |-> <<2, 1, 4>>, budget |-> 7],
          [corpora |-> <<0, 2, 1>>, calls |-> <<1, 3, 2>>, budget |-> 6],
          [corpora |-> <<1, 1, 1>>, calls |-> <<2, 2, 2>>, budget |-> 3]}

MCPlans ==
    {[hard |-> Upstreams(g, "hard"), optional |-> Upstreams(g, "optional"),
      corpora |-> z.corpora, calls |-> z.calls, budget |-> z.budget] :
     g \in Forward \cup Others, z \in Sizes}
=============================================================================
