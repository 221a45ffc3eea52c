----------------------------- MODULE MCLLMPool -----------------------------
(* Two clients, and two tasks, each of which may send a batch of three.     *)
EXTENDS LLMPool

MCWheels == [s \in {"round_robin", "weighted"} |->
                IF s = "round_robin" THEN <<1, 2>> ELSE <<1, 1, 2>>]
=============================================================================
