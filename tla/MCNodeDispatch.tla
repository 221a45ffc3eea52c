--------------------------- MODULE MCNodeDispatch ---------------------------
EXTENDS NodeDispatch

\* "plan" calls "help" and goes on with "work"; "work" is retried, may call
\* "help" and falls back to it; "help" is retried and skipped.
MCNodes == {"plan", "work", "help"}

Plain == [next |-> {None}, routes |-> {None}, calls |-> {}, attempts |-> 0,
          onFailure |-> "halt", fallback |-> None]

MCConfig == [n \in MCNodes |->
    CASE n = "plan" -> [Plain EXCEPT !.next = {"work"}, !.calls = {"help"}]
      [] n = "work" -> [Plain EXCEPT !.routes = {None, "help"}, !.calls = {"help"},
                          !.attempts = 3, !.onFailure = "fallback",
                          !.fallback = "help"]
      [] n = "help" -> [Plain EXCEPT !.attempts = 2, !.onFailure = "skip"]]

MCEntry == [t \in Turns |-> IF t = "t1" THEN "plan" ELSE "work"]
=============================================================================
