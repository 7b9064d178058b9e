-------------------------- MODULE PrefillPlanProps --------------------------
(***************************************************************************)
(* The two loops of prefill_plan (include/rdna4/graph.cuh): the table of   *)
(* costs, from one token up, and the plan that is written down with it,    *)
(* and what that plan must be.                                             *)
(***************************************************************************)
EXTENDS PrefillPlan, FiniteSets

VARIABLES
  total,  \* the length of the prompt
  cost,   \* what the best plan for r tokens costs
  next,   \* the r whose cost is worked out next
  left,   \* what is left to plan
  plan

vars == <<total, cost, next, left, plan>>

Init ==
  /\ total \in 1 .. MaxTotal
  /\ cost = Unplanned(total) /\ next = 1
  /\ left = total /\ plan = <<>>

WorkOut ==
  /\ next <= total
  /\ cost' = [cost EXCEPT ![next] = Cheapest(cost, next)]
  /\ next' = next + 1
  /\ UNCHANGED <<total, left, plan>>

PlanChunk ==
  /\ next > total /\ left > 0
  /\ \E n \in {Take(cost, left)} : plan' = Append(plan, n) /\ left' = left - n
  /\ UNCHANGED <<total, cost, next>>

Planned == next > total /\ left = 0 /\ UNCHANGED vars

Spec == Init /\ [][WorkOut \/ PlanChunk \/ Planned]_vars
-----------------------------------------------------------------------------

Total(p) ==
  LET sum[i \in 0 .. Len(p)] == IF i = 0 THEN 0 ELSE sum[i - 1] + p[i]
  IN sum[Len(p)]

\* "so' com tamanhos chunk_ok" (graph.cuh:257): whatever RD_PREFILL_CHUNK is, the
\* plan takes every token once, and forward_batch refuses none of its chunks.
PlanCovers ==
  /\ Total(plan) + left = total
  /\ \A i \in DOMAIN plan : plan[i] = 1 \/ ChunkOk(plan[i])

\* The sums of k sizes from S, without counting on the programme.
Sums(S, k) ==
  LET sums[i \in Nat] ==
        IF i = 0 THEN {0} ELSE {a + b : a \in sums[i - 1], b \in S}
  IN sums[k]

Singles(p) == {i \in DOMAIN p : p[i] = 1}

\* "minimiza (n. de chunks, n. de chunks de 1 token)" (graph.cuh:256-257):
\* no fewer chunks add up to the prompt, and as many need as many of them.
PlanIsBest ==
  left = 0 =>
    LET chunks == Len(plan)
        ones   == Cardinality(Singles(plan))
    IN /\ \A k \in 0 .. chunks - 1 : total \notin Sums(Candidates, k)
       /\ \A j \in 0 .. ones - 1 :
            total - j \notin Sums(Candidates \ {1}, chunks - j)

\* "a cauda continua no FIM" (graph.cuh:1923): chunks come larger first.
LargerFirst == \A i \in 1 .. Len(plan) - 1 : plan[i] >= plan[i + 1]

\* "Tamanho de chunk ACEITO pelo caminho em lote" (graph.cuh:213-215): a chunk
\* that chunk_ok accepts is one that proj_batch can carry out.
ChunksRun == \A i \in DOMAIN plan : plan[i] > 1 => Launchable(plan[i])
=============================================================================
