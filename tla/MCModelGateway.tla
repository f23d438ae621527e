--------------------------- MODULE MCModelGateway ---------------------------
(* A primary that takes required tools and a fallback that does not, each in *)
(* a quota scope with one slot.                                              *)
EXTENDS ModelGateway

CONSTANTS kimi, deepseek

TwoRoutes == <<kimi, deepseek>>
MCScopeOf == [r \in {kimi, deepseek} |-> IF r = kimi THEN "moonshot" ELSE "deepseek"]
MCLimitOf == [s \in {"moonshot", "deepseek"} |-> 1]
=============================================================================
