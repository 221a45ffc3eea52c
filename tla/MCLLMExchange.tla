--------------------------- MODULE MCLLMExchange ---------------------------
(* A few invocations, every choice of the opt-in processors modelled.         *)
EXTENDS LLMExchange

MCOptIns == Optional
MCTools == {"none", "kwargs", "both"}
=============================================================================
