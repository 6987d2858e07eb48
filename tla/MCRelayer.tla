----------------------------- MODULE MCRelayer -----------------------------
(***************************************************************************)
(* Arguments for the model checker: a batch over both adapters, an empty   *)
(* one, one whose lists do not match and the nil list; amounts that are    *)
(* finer than the token, and one that is no number.                        *)
(***************************************************************************)
EXTENDS Relayer, TLC

Redeem(conditions, negs, amounts) ==
  [op |-> "RedeemBatch", isNil |-> FALSE, conditionIds |-> conditions, negRisks |-> negs, amounts |-> amounts]

MCArguments ==
  <<{Redeem(<<"c1", "c2", "c3">>, <<TRUE, FALSE, TRUE>>, <<5, 6, 7>>),
     Redeem(<<"c1", "c2">>, <<TRUE>>, <<5, 6>>)},
    {Redeem(<<>>, <<>>, <<>>),
     [op |-> "MergeTokens", conditionId |-> "", amount |-> <<2, 0>>, negRisk |-> TRUE]},
    {[Redeem(<<>>, <<>>, <<>>) EXCEPT !.isNil = TRUE],
     [op |-> "SplitTokens", conditionId |-> "c1", amount |-> <<125, 2>>, negRisk |-> FALSE]},
    {[op |-> "Approve", erc20 |-> "usdc", to |-> "adapter", amount |-> <<>>, decimals |-> 1],
     [op |-> "Transfer", erc20 |-> "usdc", to |-> "user", amount |-> <<15, 1>>, decimals |-> 1]}>>

(***************************************************************************)
(* Nothing tells one goroutine from another.                               *)
(***************************************************************************)
Symmetry == Permutations(Callers)
=============================================================================
