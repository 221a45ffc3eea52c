----------------------------- MODULE NodeProofs -----------------------------
(***************************************************************************)
(* A node's execution.  NodeDispatch: for any turns, nodes and             *)
(* configuration, what dispatch keeps apart when turns interleave, when    *)
(* RetryHandler runs a node again, that no turn is ever stuck, and that    *)
(* under a routing without a cycle every step of a turn lowers its stack.  *)
(* UsageMetering: what the license that lets nodes run knows of those that *)
(* ran.                                                                    *)
(***************************************************************************)
EXTENDS NodeDispatch, UsageMetering, FiniteSetTheorems, TLAPS

\* The types, without the bound on attempts.
Typed ==
    /\ instState \in [Nodes -> Turns \cup {None}]
    /\ instCtx \in [Nodes -> Turns \cup {None}]
    /\ name \in [Turns -> Nodes \cup {None}]
    /\ state \in [Turns -> [error : BOOLEAN, next : Nodes \cup {None}]]
    /\ stack \in [Turns -> Seq(Frame)]
    /\ status \in [Turns -> {"new", "running", "done", "raised"}]
    /\ shared \subseteq Turns
    /\ lent \subseteq Turns

\* The node around the i-th dispatch of the stack s of turn t: its name is what
\* the i-th dispatch puts back.
Outer(t, s, i) == IF i = Len(s) THEN Entry[t] ELSE s[i + 1].node
Innermost(t, s) == IF s = <<>> THEN Entry[t] ELSE s[1].node

\* A dispatch f of turn t, when the error key of its state is err.
FrameOK(t, f, err) ==
    /\ f.attempt = 1 \/ f.attempt <= Config[f.node].attempts
    /\ f.ctx \in {t} \cup lent
    /\ instCtx[f.node] \in Turns
    /\ t \notin shared => /\ f.ctx = t
                          /\ f.llm = t
                          /\ instState[f.node] = t
                          /\ instCtx[f.node] = t
    /\ err => f.failed \/ (f.attempt = 1 /\ f.inherited)
    /\ f.pc = "backoff" => err /\ Again(f)

\* The open dispatches: only the innermost moves, each restores the node around
\* it.
StackOK(t, s, err) ==
    \A i \in 1 .. Len(s) :
      /\ FrameOK(t, s[i], err)
      /\ i > 1 => s[i].pc = "call"
      /\ t \notin shared \cup lent => s[i].prev = Outer(t, s, i)

Fresh == \A t \in Turns : status[t] = "new" => stack[t] = <<>>

IInv ==
    /\ Typed
    /\ Fresh
    /\ \A t \in Turns : StackOK(t, stack[t], state[t].error)
    /\ NameIsInnermost

-----------------------------------------------------------------------------
\* Stacks.

LEMMA Push ==
    ASSUME NEW f \in Frame, NEW s \in Seq(Frame)
    PROVE  /\ <<f>> \o s \in Seq(Frame)
           /\ Len(<<f>> \o s) = Len(s) + 1
           /\ (<<f>> \o s)[1] = f
           /\ \A i \in 2 .. Len(s) + 1 : (<<f>> \o s)[i] = s[i - 1]
           /\ <<f>> \o s # <<>>
OBVIOUS

LEMMA Pop ==
    ASSUME NEW s \in Seq(Frame), s # <<>>
    PROVE  /\ Tail(s) \in Seq(Frame)
           /\ Head(s) \in Frame
           /\ Head(s) = s[1]
           /\ Len(s) \in Nat \ {0}
           /\ Len(Tail(s)) = Len(s) - 1
           /\ \A i \in 1 .. Len(s) - 1 : Tail(s)[i] = s[i + 1]
OBVIOUS

\* g is f, perhaps failed.
Follows(g, f) ==
    /\ g.node = f.node
    /\ g.ctx = f.ctx
    /\ g.llm = f.llm
    /\ g.prev = f.prev
    /\ g.attempt = f.attempt
    /\ g.pc = f.pc
    /\ g.inherited = f.inherited
    /\ f.failed => g.failed

LEMMA BlamedStack ==
    ASSUME NEW s \in Seq(Frame), NEW b \in BOOLEAN
    PROVE  /\ Blamed(s, b) \in Seq(Frame)
           /\ Len(Blamed(s, b)) = Len(s)
           /\ \A i \in 1 .. Len(s) :
                /\ Follows(Blamed(s, b)[i], s[i])
                /\ b => Blamed(s, b)[i].failed
<1>0. \A i \in 1 .. Len(s) : s[i] \in Frame
      OBVIOUS
<1>1. CASE b
  <2>1. Blamed(s, b) = [i \in 1 .. Len(s) |-> [s[i] EXCEPT !.failed = TRUE]]
        BY <1>1 DEF Blamed
  <2>2. ASSUME NEW f \in Frame
        PROVE  /\ [f EXCEPT !.failed = TRUE] \in Frame
               /\ Follows([f EXCEPT !.failed = TRUE], f)
               /\ [f EXCEPT !.failed = TRUE].failed
        BY DEF Frame, Follows
  <2>3. \A i \in 1 .. Len(s) : /\ Blamed(s, b)[i] \in Frame
                               /\ Follows(Blamed(s, b)[i], s[i])
                               /\ Blamed(s, b)[i].failed
    <3>1. TAKE i \in 1 .. Len(s)
    <3>2. Blamed(s, b)[i] = [s[i] EXCEPT !.failed = TRUE]
          BY <2>1
    <3> QED
      BY <1>0, <2>2, <3>2
  <2>4. Len(Blamed(s, b)) = Len(s) /\ Blamed(s, b) \in Seq(Frame)
    <3>1. DEFINE g == Blamed(s, b)
    <3>2. g = [i \in 1 .. Len(s) |-> g[i]] /\ DOMAIN g = 1 .. Len(s)
          BY <2>1
    <3>3. g \in [1 .. Len(s) -> Frame]
      <4> HIDE DEF g
      <4> QED
          BY <2>3, <3>2 DEF g
    <3>4. Len(s) \in Nat
          OBVIOUS
    <3> QED
      <4> HIDE DEF g
      <4>1. g \in Seq(Frame)
            BY <3>3, <3>4
      <4>2. Len(g) = Len(s)
            BY <4>1, <3>2, <3>4
      <4> QED
          BY <4>1, <4>2 DEF g
  <2> QED
      BY <2>3, <2>4
<1>2. CASE ~b
  <2>1. Blamed(s, b) = s
        BY <1>2 DEF Blamed
  <2> QED
      BY <1>2, <2>1 DEF Follows
<1> QED
  BY <1>1, <1>2

LEMMA TailOK ==
    ASSUME NEW t \in Turns, NEW s \in Seq(Frame), s # <<>>, NEW err \in BOOLEAN,
           StackOK(t, s, err)
    PROVE  /\ StackOK(t, Tail(s), err)
           /\ \A i \in 1 .. Len(Tail(s)) : Tail(s)[i].pc = "call"
           /\ t \notin shared \cup lent => Innermost(t, Tail(s)) = s[1].prev
<1> DEFINE r == Tail(s)
           m == Len(s)
<1>1. /\ r \in Seq(Frame)
      /\ m \in Nat \ {0}
      /\ Len(r) = m - 1
      /\ \A i \in 1 .. m - 1 : r[i] = s[i + 1]
      BY Pop
<1>2. \A i \in 1 .. m :
        /\ FrameOK(t, s[i], err)
        /\ i > 1 => s[i].pc = "call"
        /\ t \notin shared \cup lent => s[i].prev = Outer(t, s, i)
      BY DEF StackOK
<1>3. \A i \in 1 .. m : Outer(t, s, i) = IF i = m THEN Entry[t] ELSE s[i + 1].node
      BY DEF Outer
<1>4. r = <<>> <=> Len(r) = 0
  <2> HIDE DEF r
  <2> QED
      BY <1>1
<1> HIDE DEF r, m
<1>5. ASSUME NEW i \in 1 .. m - 1
      PROVE  /\ FrameOK(t, r[i], err)
             /\ r[i].pc = "call"
             /\ t \notin shared \cup lent => r[i].prev = Outer(t, r, i)
  <2>1. i + 1 \in 1 .. m /\ i + 1 > 1 /\ r[i] = s[i + 1]
        BY <1>1
  <2>2. Outer(t, r, i) = Outer(t, s, i + 1)
    <3>1. CASE i = m - 1
          BY <3>1, <2>1, <1>1, <1>3 DEF Outer
    <3>2. CASE i # m - 1
      <4>1. i + 1 \in 1 .. m - 1 /\ i + 1 # m /\ i # Len(r)
            BY <3>2, <1>1
      <4>2. r[i + 1] = s[(i + 1) + 1]
            BY <4>1, <1>1
      <4> QED
          BY <4>1, <4>2, <2>1, <1>3 DEF Outer
    <3> QED
        BY <3>1, <3>2
  <2> QED
      BY <2>1, <2>2, <1>2
<1>6. t \notin shared \cup lent => Innermost(t, r) = s[1].prev
  <2>1. Innermost(t, r) = Outer(t, s, 1)
    <3>1. CASE m = 1
          BY <3>1, <1>1, <1>3, <1>4 DEF Innermost
    <3>2. CASE m # 1
      <4>1. 1 \in 1 .. m - 1 /\ r # <<>>
            BY <3>2, <1>1, <1>4
      <4>2. r[1] = s[1 + 1]
            BY <4>1, <1>1
      <4> QED
          BY <3>2, <4>1, <4>2, <1>1, <1>3 DEF Innermost
    <3> QED
        BY <3>1, <3>2
  <2> QED
      BY <2>1, <1>1, <1>2
<1>7. StackOK(t, r, err)
      BY <1>1, <1>5 DEF StackOK
<1> QED
  BY <1>1, <1>5, <1>6, <1>7 DEF r

\* The innermost dispatch moves: g in place of it.
LEMMA Replaced ==
    ASSUME NEW t \in Turns, NEW s \in Seq(Frame), s # <<>>, NEW g \in Frame,
           NEW err \in BOOLEAN, NEW new \in BOOLEAN,
           StackOK(t, s, err),
           FrameOK(t, g, new), g.node = s[1].node, g.prev = s[1].prev,
           \A i \in 2 .. Len(s) : FrameOK(t, s[i], new)
    PROVE  /\ <<g>> \o Tail(s) \in Seq(Frame)
           /\ StackOK(t, <<g>> \o Tail(s), new)
           /\ Innermost(t, <<g>> \o Tail(s)) = Innermost(t, s)
           /\ <<g>> \o Tail(s) # <<>>
           /\ Len(<<g>> \o Tail(s)) = Len(s)
           /\ (<<g>> \o Tail(s))[1] = g
           /\ \A i \in 2 .. Len(s) : (<<g>> \o Tail(s))[i] = s[i]
<1> DEFINE r == <<g>> \o Tail(s)
           m == Len(s)
<1>1. /\ Tail(s) \in Seq(Frame)
      /\ m \in Nat \ {0}
      /\ Len(Tail(s)) = m - 1
      /\ \A i \in 1 .. m - 1 : Tail(s)[i] = s[i + 1]
      BY Pop
<1>2. /\ r \in Seq(Frame)
      /\ Len(r) = Len(Tail(s)) + 1
      /\ r[1] = g
      /\ \A i \in 2 .. Len(Tail(s)) + 1 : r[i] = Tail(s)[i - 1]
      /\ r # <<>>
      BY <1>1, Push
<1>3. \A i \in 1 .. m :
        /\ i > 1 => s[i].pc = "call"
        /\ t \notin shared \cup lent => s[i].prev = Outer(t, s, i)
        /\ Outer(t, s, i) = IF i = m THEN Entry[t] ELSE s[i + 1].node
      BY DEF StackOK, Outer
<1> HIDE DEF r, m
<1>4. Len(r) = m
      BY <1>1, <1>2
<1>5. ASSUME NEW i \in 2 .. m
      PROVE  r[i] = s[i]
  <2>1. i \in 2 .. Len(Tail(s)) + 1 /\ i - 1 \in 1 .. m - 1 /\ (i - 1) + 1 = i
        BY <1>1
  <2> QED
      BY <2>1, <1>1, <1>2
<1>6. ASSUME NEW i \in 1 .. m
      PROVE  /\ FrameOK(t, r[i], new)
             /\ i > 1 => r[i].pc = "call"
             /\ t \notin shared \cup lent => r[i].prev = Outer(t, r, i)
  <2>1. Outer(t, r, i) = Outer(t, s, i)
    <3>1. CASE i = m
          BY <3>1, <1>3, <1>4 DEF Outer
    <3>2. CASE i # m
      <4>1. i + 1 \in 2 .. m
            BY <3>2, <1>1
      <4> QED
          BY <3>2, <4>1, <1>3, <1>4, <1>5 DEF Outer
    <3> QED
        BY <3>1, <3>2
  <2>2. CASE i = 1
        BY <2>1, <2>2, <1>2, <1>3
  <2>3. CASE i # 1
    <3>1. i \in 2 .. m
          BY <2>3, <1>1
    <3> QED
        BY <2>1, <3>1, <1>3, <1>5 DEF m
  <2> QED
      BY <2>2, <2>3
<1>7. StackOK(t, r, new)
      BY <1>4, <1>6 DEF StackOK
<1>8. Innermost(t, r) = Innermost(t, s)
      BY <1>2 DEF Innermost
<1> QED
  BY <1>2, <1>4, <1>5, <1>7, <1>8 DEF r, m

LEMMA BlamedOK ==
    ASSUME NEW t \in Turns, NEW s \in Seq(Frame), NEW err \in BOOLEAN,
           NEW b \in BOOLEAN, StackOK(t, s, err)
    PROVE  /\ StackOK(t, Blamed(s, b), err \/ b)
           /\ Innermost(t, Blamed(s, b)) = Innermost(t, s)
<1> DEFINE r == Blamed(s, b)
<1>1. /\ r \in Seq(Frame)
      /\ Len(r) = Len(s)
      /\ \A i \in 1 .. Len(s) : Follows(r[i], s[i]) /\ (b => r[i].failed)
      BY BlamedStack
<1> HIDE DEF r
<1>2. Len(s) \in Nat
      OBVIOUS
<1>3. ASSUME NEW i \in 1 .. Len(s)
      PROVE  /\ FrameOK(t, r[i], err \/ b)
             /\ i > 1 => r[i].pc = "call"
             /\ t \notin shared \cup lent => r[i].prev = Outer(t, r, i)
  <2>1. /\ FrameOK(t, s[i], err)
        /\ i > 1 => s[i].pc = "call"
        /\ t \notin shared \cup lent => s[i].prev = Outer(t, s, i)
        BY DEF StackOK
  <2>2. Follows(r[i], s[i]) /\ (b => r[i].failed)
        BY <1>1
  <2>3. Outer(t, r, i) = Outer(t, s, i)
    <3>1. i # Len(s) => i + 1 \in 1 .. Len(s)
          BY <1>2
    <3> QED
        BY <1>1, <1>2, <3>1 DEF Outer, Follows
  <2>4. FrameOK(t, r[i], err \/ b)
        BY <2>1, <2>2 DEF FrameOK, Follows, Again
  <2> QED
      BY <2>1, <2>2, <2>3, <2>4 DEF Follows
<1>4. StackOK(t, r, err \/ b)
      BY <1>1, <1>3 DEF StackOK
<1>5. Innermost(t, r) = Innermost(t, s)
  <2>1. r = <<>> <=> s = <<>>
        BY <1>1
  <2>2. s # <<>> => 1 \in 1 .. Len(s)
        OBVIOUS
  <2> QED
      BY <1>1, <2>1, <2>2 DEF Innermost, Follows
<1> QED
  BY <1>4, <1>5 DEF r

\* Where nothing is in a pause the error may be cleared.
LEMMA ClearedOK ==
    ASSUME NEW t \in Turns, NEW s \in Seq(Frame), NEW err \in BOOLEAN,
           NEW new \in BOOLEAN, new => err, StackOK(t, s, err),
           \A i \in 1 .. Len(s) : s[i].pc = "call"
    PROVE  StackOK(t, s, new)
<1>1. ASSUME NEW i \in 1 .. Len(s)
      PROVE  FrameOK(t, s[i], new)
      BY DEF StackOK, FrameOK
<1> QED
  BY <1>1 DEF StackOK

-----------------------------------------------------------------------------
\* The two ways a dispatch step ends.

StateType == [error : BOOLEAN, next : Nodes \cup {None}]

\* Names and open dispatches around the one that begins or ends.
Around(t, below, names, err) ==
    /\ StackOK(t, below, err)
    /\ \A i \in 1 .. Len(below) : below[i].pc = "call"
    /\ \A u \in Turns \ (shared \cup lent) :
         names[u] = IF u = t THEN Innermost(t, below)
                             ELSE Innermost(u, stack[u])

LEMMA Dispatched ==
    ASSUME NEW t \in Turns, NEW n \in Nodes, NEW c \in Turns,
           NEW below \in Seq(Frame), NEW names \in [Turns -> Nodes \cup {None}],
           NEW s \in StateType, IInv,
           t \notin shared => c = t,
           Around(t, below, names, s.error),
           Dispatch(t, n, c, below, names, s)
    PROVE  IInv'
<1> DEFINE f == [node |-> n, ctx |-> c, llm |-> c, prev |-> names[c],
                 attempt |-> 1, pc |-> "execute", called |-> FALSE,
                 failed |-> FALSE, inherited |-> s.error]
<1>1. /\ instCtx'[n] = c
      /\ instState'[n] = t
      /\ \A m \in Nodes : m # n => /\ instState'[m] = instState[m]
                                   /\ instCtx'[m] = instCtx[m]
      BY DEF IInv, Typed, Dispatch, Handed
<1>2. f \in Frame
      BY DEF Frame, StateType
<1>3. /\ stack' = [stack EXCEPT ![t] = <<f>> \o below]
      /\ state' = [state EXCEPT ![t] = s]
      /\ name' = [names EXCEPT ![c] = n]
      /\ shared' = shared \cup {u \in Turns \ {t} : n \in Inside(u)}
      /\ lent' = lent \cup ({c} \ {t})
      BY <1>1 DEF Dispatch
<1> HIDE DEF f
<1>4. /\ <<f>> \o below \in Seq(Frame)
      /\ Len(<<f>> \o below) = Len(below) + 1
      /\ (<<f>> \o below)[1] = f
      /\ \A i \in 2 .. Len(below) + 1 : (<<f>> \o below)[i] = below[i - 1]
      /\ <<f>> \o below # <<>>
      BY <1>2, Push
<1>5. /\ stack'[t] = <<f>> \o below
      /\ state'[t] = s
      /\ \A u \in Turns : u # t => stack'[u] = stack[u] /\ state'[u] = state[u]
      BY <1>3 DEF IInv, Typed
<1>6. Typed'
  <2>1. instState' \in [Nodes -> Turns \cup {None}]
        BY DEF IInv, Typed, Dispatch, Handed
  <2>2. instCtx' \in [Nodes -> Turns \cup {None}]
        BY DEF IInv, Typed, Dispatch, Handed
  <2>3. name' \in [Turns -> Nodes \cup {None}]
        BY <1>3
  <2>4. state' \in [Turns -> StateType]
        BY <1>3 DEF IInv, Typed, StateType
  <2>5. stack' \in [Turns -> Seq(Frame)]
        BY <1>3, <1>4 DEF IInv, Typed
  <2>6. /\ status' \in [Turns -> {"new", "running", "done", "raised"}]
        /\ shared' \subseteq Turns
        /\ lent' \subseteq Turns
        BY DEF IInv, Typed, Dispatch
  <2> QED
      BY <2>1, <2>2, <2>3, <2>4, <2>5, <2>6 DEF Typed, StateType
<1>7. \A i \in 1 .. Len(below) : below[i] \in Frame
      OBVIOUS
<1>8. ASSUME NEW u \in Turns
      PROVE  StackOK(u, stack[u], state[u].error)'
  <2>1. CASE u = t
    <3>1. FrameOK(t, f, s.error)'
      <4>1. /\ f.node = n
            /\ f.ctx = c
            /\ f.llm = c
            /\ f.attempt = 1
            /\ f.pc = "execute"
            BY <1>1 DEF f
      <4>2. f.inherited = s.error
            BY DEF f
      <4>3. s.error => f.inherited
            BY <4>2, Zenon
      <4>4. t \notin shared' => c = t
            BY <1>3
      <4>5. c \in {t} \cup lent'
            BY <1>3
      <4> QED
          BY <4>1, <4>3, <4>4, <4>5, <1>1 DEF FrameOK
    <3>2. ASSUME NEW i \in 1 .. Len(below)
          PROVE  FrameOK(t, below[i], s.error)'
      <4>1. FrameOK(t, below[i], s.error) /\ below[i].pc = "call"
            BY DEF Around, StackOK
      <4>2. below[i].node \in Nodes
            BY <1>7 DEF Frame
      <4> QED
          BY <4>1, <4>2, <1>1, <1>3 DEF FrameOK
    <3>3. t \notin (shared \cup lent)' =>
            \A i \in 1 .. Len(below) + 1 :
              (<<f>> \o below)[i].prev = Outer(t, <<f>> \o below, i)
      <4>1. SUFFICES ASSUME t \notin shared, t \notin lent,
                            NEW i \in 1 .. Len(below) + 1
                     PROVE  (<<f>> \o below)[i].prev = Outer(t, <<f>> \o below, i)
            BY <1>3
      <4>2. Len(below) \in Nat
            OBVIOUS
      <4>3. CASE i = 1
        <5>1. f.prev = Innermost(t, below)
              BY <4>1 DEF f, Around
        <5>2. below = <<>> <=> Len(below) = 0
              OBVIOUS
        <5> QED
            BY <4>2, <4>3, <5>1, <5>2, <1>4 DEF Outer, Innermost
      <4>4. CASE i # 1
        <5>1. i - 1 \in 1 .. Len(below)
              BY <4>2, <4>4
        <5>2. below[i - 1].prev = Outer(t, below, i - 1)
              BY <4>1, <5>1 DEF Around, StackOK
        <5>3. (<<f>> \o below)[i] = below[i - 1]
              BY <4>2, <4>4, <1>4
        <5>4. i # Len(below) + 1 => (<<f>> \o below)[i + 1] = below[i]
              BY <4>2, <4>4, <1>4
        <5> QED
            BY <4>2, <4>4, <5>1, <5>2, <5>3, <5>4, <1>4 DEF Outer
      <4> QED
          BY <4>3, <4>4
    <3>4. ASSUME NEW i \in 1 .. Len(below) + 1
          PROVE  /\ FrameOK(t, (<<f>> \o below)[i], s.error)'
                 /\ i > 1 => (<<f>> \o below)[i].pc = "call"
      <4>1. CASE i = 1
            BY <4>1, <3>1, <1>4
      <4>2. CASE i # 1
        <5>1. i - 1 \in 1 .. Len(below) /\ (<<f>> \o below)[i] = below[i - 1]
              BY <4>2, <1>4
        <5>2. below[i - 1].pc = "call"
              BY <5>1 DEF Around
        <5> QED
            BY <5>1, <5>2, <3>2
      <4> QED
          BY <4>1, <4>2
    <3>5. StackOK(t, <<f>> \o below, s.error)'
          BY <3>3, <3>4, <1>4 DEF StackOK, Outer
    <3> QED
        BY <2>1, <3>5, <1>5 DEF StackOK, FrameOK, Outer
  <2>2. CASE u # t
    <3>1. /\ StackOK(u, stack[u], state[u].error)
          /\ stack'[u] = stack[u]
          /\ state'[u] = state[u]
          BY <2>2, <1>5 DEF IInv
    <3>2. stack[u] \in Seq(Frame)
          BY DEF IInv, Typed
    <3>3. ASSUME NEW i \in 1 .. Len(stack[u])
          PROVE  FrameOK(u, stack[u][i], state[u].error)'
      <4>1. FrameOK(u, stack[u][i], state[u].error)
            BY <3>1 DEF StackOK
      <4>2. stack[u][i] \in Frame /\ stack[u][i].node \in Nodes
        <5>1. stack[u][i] \in Frame
              BY <3>2
        <5> QED
            BY <5>1 DEF Frame
      <4>3. u \notin shared' => stack[u][i].node # n
            BY <1>3, <2>2, <3>2 DEF Inside
      <4>4. shared \subseteq shared' /\ lent \subseteq lent'
            BY <1>3
      <4> QED
          BY <4>1, <4>2, <4>3, <4>4, <3>1, <1>1 DEF FrameOK, Again
    <3>4. u \notin (shared \cup lent)' => u \notin shared \cup lent
          BY <1>3
    <3> QED
        BY <3>1, <3>3, <3>4 DEF StackOK, Outer
  <2> QED
      BY <2>1, <2>2
<1>9. NameIsInnermost'
  <2>1. SUFFICES ASSUME NEW u \in Turns, u \notin shared', u \notin lent'
                 PROVE  name'[u] = IF stack'[u] = <<>> THEN Entry[u]
                                   ELSE Head(stack'[u]).node
        BY DEF NameIsInnermost, Top
  <2>2. u \notin shared \cup lent /\ (u = c => u = t) /\ (u = t => c = t)
        BY <2>1, <1>3
  <2>3. CASE u = t
    <3>1. Head(<<f>> \o below) = f
          BY <1>4
    <3>2. f.node = n /\ name'[t] = n
          BY <1>3, <2>2, <2>3 DEF f
    <3> QED
        BY <2>3, <3>1, <3>2, <1>4, <1>5
  <2>4. CASE u # t
    <3>1. name'[u] = names[u]
          BY <1>3, <2>2, <2>4
    <3>2. names[u] = Innermost(u, stack[u])
          BY <2>2, <2>4 DEF Around
    <3>3. stack[u] \in Seq(Frame) /\ stack'[u] = stack[u]
          BY <2>4, <1>5 DEF IInv, Typed
    <3>4. stack[u] # <<>> => Head(stack[u]) = stack[u][1]
          BY <3>3
    <3> QED
        BY <3>1, <3>2, <3>3, <3>4 DEF Innermost
  <2> QED
      BY <2>3, <2>4
<1>10. Fresh'
      BY <1>5 DEF Dispatch, Fresh, IInv, Typed
<1> QED
  BY <1>6, <1>8, <1>9, <1>10 DEF IInv

LEMMA Left ==
    ASSUME NEW t \in Turns, NEW below \in Seq(Frame),
           NEW names \in [Turns -> Nodes \cup {None}],
           NEW s \in StateType, NEW how \in {"done", "raised"}, IInv,
           Around(t, below, names, s.error),
           Leave(t, below, names, s, how)
    PROVE  IInv'
<1> DEFINE g == [Head(below) EXCEPT !.pc = "execute"]
           back == IF below = <<>> THEN <<>> ELSE <<g>> \o Tail(below)
<1>1. /\ stack' = [stack EXCEPT ![t] = back]
      /\ state' = [state EXCEPT ![t] = s]
      /\ name' = names
      /\ UNCHANGED <<instState, instCtx, shared, lent>>
      BY DEF Leave
<1>2. s.error \in BOOLEAN
      BY DEF StateType
<1>3. /\ back \in Seq(Frame)
      /\ StackOK(t, back, s.error)
      /\ Innermost(t, back) = Innermost(t, below)
  <2>1. CASE below = <<>>
        BY <2>1 DEF StackOK
  <2>2. CASE below # <<>>
    <3>1. Head(below) = below[1] /\ Len(below) \in Nat \ {0} /\ Head(below) \in Frame
          BY <2>2, Pop
    <3>2. g \in Frame
          BY <3>1 DEF Frame
    <3>3. /\ g.node = below[1].node
          /\ g.prev = below[1].prev
          /\ FrameOK(t, below[1], s.error)
          /\ \A i \in 2 .. Len(below) : FrameOK(t, below[i], s.error)
          BY <3>1 DEF Around, StackOK, Frame
    <3>4. FrameOK(t, g, s.error)
      <4>1. /\ g.node = Head(below).node
            /\ g.ctx = Head(below).ctx
            /\ g.llm = Head(below).llm
            /\ g.attempt = Head(below).attempt
            /\ g.failed = Head(below).failed
            /\ g.inherited = Head(below).inherited
            /\ g.pc = "execute"
            BY <3>1 DEF Frame
      <4> HIDE DEF g
      <4> QED
          BY <3>1, <3>3, <4>1 DEF FrameOK
    <3>5. StackOK(t, below, s.error)
          BY DEF Around
    <3> HIDE DEF g
    <3>6. /\ <<g>> \o Tail(below) \in Seq(Frame)
          /\ StackOK(t, <<g>> \o Tail(below), s.error)
          /\ Innermost(t, <<g>> \o Tail(below)) = Innermost(t, below)
          BY <1>2, <2>2, <3>2, <3>3, <3>4, <3>5, Replaced
    <3> QED
        BY <2>2, <3>6
  <2> QED
      BY <2>1, <2>2
<1> HIDE DEF back
<1>4. Typed'
  <2>1. stack' \in [Turns -> Seq(Frame)]
        BY <1>1, <1>3 DEF IInv, Typed
  <2>2. state' \in [Turns -> StateType]
        BY <1>1 DEF IInv, Typed, StateType
  <2>3. status' \in [Turns -> {"new", "running", "done", "raised"}]
        BY DEF Leave, IInv, Typed
  <2> QED
      BY <1>1, <2>1, <2>2, <2>3 DEF IInv, Typed, StateType
<1>5. /\ stack'[t] = back
      /\ state'[t] = s
      /\ \A u \in Turns : u # t => stack'[u] = stack[u] /\ state'[u] = state[u]
      BY <1>1 DEF IInv, Typed
<1>6. ASSUME NEW u \in Turns
      PROVE  StackOK(u, stack[u], state[u].error)'
  <2>1. StackOK(u, stack'[u], state'[u].error)
        BY <1>3, <1>5 DEF IInv
  <2> QED
      BY <2>1, <1>1 DEF StackOK, FrameOK, Outer
<1>7. NameIsInnermost'
  <2>1. SUFFICES ASSUME NEW u \in Turns, u \notin shared, u \notin lent
                 PROVE  name'[u] = IF stack'[u] = <<>> THEN Entry[u]
                                   ELSE Head(stack'[u]).node
        BY <1>1 DEF NameIsInnermost, Top
  <2>2. name'[u] = Innermost(u, stack'[u])
        BY <2>1, <1>1, <1>3, <1>5 DEF Around
  <2>3. stack'[u] \in Seq(Frame)
        BY <1>4 DEF Typed
  <2>4. stack'[u] # <<>> => Head(stack'[u]) = stack'[u][1]
        BY <2>3
  <2> QED
      BY <2>2, <2>4 DEF Innermost
<1>8. Fresh'
      BY <1>5 DEF Leave, Fresh, IInv, Typed
<1> QED
  BY <1>4, <1>6, <1>7, <1>8 DEF IInv

\* The two steps that concern the turn's own dispatches alone.
LEMMA Moved ==
    ASSUME NEW t \in Turns, NEW s \in Seq(Frame), NEW st \in StateType, IInv,
           stack[t] # <<>>,
           StackOK(t, s, st.error), Innermost(t, s) = Innermost(t, stack[t]),
           stack' = [stack EXCEPT ![t] = s], state' = [state EXCEPT ![t] = st],
           UNCHANGED <<instState, instCtx, name, status, shared, lent>>
    PROVE  IInv'
<1>1. Typed'
      BY DEF IInv, Typed, StateType
<1>2. /\ stack'[t] = s
      /\ state'[t] = st
      /\ \A u \in Turns : u # t => stack'[u] = stack[u] /\ state'[u] = state[u]
      BY DEF IInv, Typed
<1>3. ASSUME NEW u \in Turns
      PROVE  StackOK(u, stack[u], state[u].error)'
  <2>1. StackOK(u, stack'[u], state'[u].error)
        BY <1>2 DEF IInv
  <2> QED
      BY <2>1 DEF StackOK, FrameOK, Outer
<1>4. NameIsInnermost'
  <2>1. SUFFICES ASSUME NEW u \in Turns, u \notin shared, u \notin lent
                 PROVE  name'[u] = IF stack'[u] = <<>> THEN Entry[u]
                                   ELSE Head(stack'[u]).node
        BY DEF NameIsInnermost, Top
  <2>2. stack[u] \in Seq(Frame) /\ stack'[u] \in Seq(Frame)
        BY <1>1 DEF IInv, Typed
  <2>3. /\ stack[u] # <<>> => Head(stack[u]) = stack[u][1]
        /\ stack'[u] # <<>> => Head(stack'[u]) = stack'[u][1]
        BY <2>2
  <2>4. name[u] = Innermost(u, stack[u])
        BY <2>1, <2>3 DEF IInv, NameIsInnermost, Innermost, Top
  <2>5. Innermost(u, stack'[u]) = Innermost(u, stack[u])
        BY <1>2
  <2> QED
      BY <2>3, <2>4, <2>5 DEF Innermost
<1>5. Fresh'
      BY <1>2 DEF Fresh, IInv
<1> QED
  BY <1>1, <1>3, <1>4, <1>5 DEF IInv

-----------------------------------------------------------------------------
\* The steps.

LEMMA InitIInv == Init => IInv
<1> SUFFICES ASSUME Init PROVE IInv
    OBVIOUS
<1>1. Typed
      BY DispatchAssumption DEF Init, Typed
<1>2. \A t \in Turns : StackOK(t, stack[t], state[t].error)
      BY DEF Init, StackOK
<1>3. NameIsInnermost
      BY DEF Init, NameIsInnermost
<1>4. Fresh
      BY DEF Init, Fresh
<1> QED
  BY <1>1, <1>2, <1>3, <1>4 DEF IInv

LEMMA CurrentNames ==
    ASSUME IInv
    PROVE  \A u \in Turns \ (shared \cup lent) : name[u] = Innermost(u, stack[u])
<1>1. TAKE u \in Turns \ (shared \cup lent)
<1>2. stack[u] \in Seq(Frame)
      BY DEF IInv, Typed
<1>3. stack[u] # <<>> => Head(stack[u]) = stack[u][1]
      BY <1>2
<1> QED
  BY <1>3 DEF IInv, NameIsInnermost, Innermost, Top

\* What there is to know of the innermost dispatch of a turn.
LEMMA TopOK ==
    ASSUME IInv, NEW t \in Turns, stack[t] # <<>>
    PROVE  /\ stack[t] \in Seq(Frame)
           /\ Top(t) = stack[t][1]
           /\ Top(t) \in Frame
           /\ FrameOK(t, Top(t), state[t].error)
           /\ StackOK(t, stack[t], state[t].error)
           /\ state[t] \in StateType
           /\ Len(stack[t]) \in Nat \ {0}
<1>1. stack[t] \in Seq(Frame) /\ state[t] \in StateType
      BY DEF IInv, Typed, StateType
<1>2. /\ Head(stack[t]) \in Frame
      /\ Head(stack[t]) = stack[t][1]
      /\ Len(stack[t]) \in Nat \ {0}
      BY <1>1, Pop
<1>3. StackOK(t, stack[t], state[t].error)
      BY DEF IInv
<1>4. FrameOK(t, stack[t][1], state[t].error)
  <2>1. 1 \in 1 .. Len(stack[t])
        BY <1>2
  <2> QED
      BY <2>1, <1>3 DEF StackOK
<1> QED
  BY <1>1, <1>2, <1>3, <1>4 DEF Top

LEMMA StartOK ==
    ASSUME IInv, NEW t \in Turns, Start(t)
    PROVE  IInv'
<1>1. state[t] \in StateType /\ name \in [Turns -> Nodes \cup {None}]
      BY DEF IInv, Typed, StateType
<1>2. Around(t, <<>>, name, state[t].error)
  <2>1. StackOK(t, <<>>, state[t].error)
        BY DEF StackOK
  <2>2. stack[t] = <<>>
        BY DEF Start, IInv, Fresh
  <2> QED
      BY <2>1, <2>2, CurrentNames DEF Around
<1>3. <<>> \in Seq(Frame) /\ Entry[t] \in Nodes
      BY DispatchAssumption
<1>4. Dispatch(t, Entry[t], t, <<>>, name, state[t])
      BY DEF Start
<1> QED
  BY <1>1, <1>2, <1>3, <1>4, Dispatched

LEMMA CallOK ==
    ASSUME IInv, NEW t \in Turns, NEW n \in Nodes, Call(t, n)
    PROVE  IInv'
<1> DEFINE caller == [Top(t) EXCEPT !.pc = "call", !.called = TRUE]
           c == instCtx[Top(t).node]
           below == <<caller>> \o Tail(stack[t])
<1>1. /\ stack[t] # <<>>
      /\ Dispatch(t, n, c, below, name, state[t])
      BY DEF Call, Executing
<1>2. /\ stack[t] \in Seq(Frame)
      /\ Top(t) = stack[t][1]
      /\ Top(t) \in Frame
      /\ FrameOK(t, Top(t), state[t].error)
      /\ StackOK(t, stack[t], state[t].error)
      /\ state[t] \in StateType
      /\ Len(stack[t]) \in Nat \ {0}
      BY <1>1, TopOK
<1>3. /\ caller \in Frame
      /\ caller.node = Top(t).node
      /\ caller.prev = Top(t).prev
      /\ caller.pc = "call"
      BY <1>2 DEF Frame
<1>4. FrameOK(t, caller, state[t].error)
  <2>1. /\ caller.node = Top(t).node
        /\ caller.ctx = Top(t).ctx
        /\ caller.llm = Top(t).llm
        /\ caller.attempt = Top(t).attempt
        /\ caller.failed = Top(t).failed
        /\ caller.inherited = Top(t).inherited
        /\ caller.pc = "call"
        BY <1>2 DEF Frame
  <2> HIDE DEF caller
  <2> QED
      BY <1>2, <2>1 DEF FrameOK
<1> HIDE DEF caller
<1>5. /\ below \in Seq(Frame)
      /\ StackOK(t, below, state[t].error)
      /\ Innermost(t, below) = Innermost(t, stack[t])
      /\ Len(below) = Len(stack[t])
      /\ below[1] = caller
      /\ \A i \in 2 .. Len(stack[t]) : below[i] = stack[t][i]
  <2>1. \A i \in 2 .. Len(stack[t]) : FrameOK(t, stack[t][i], state[t].error)
        BY <1>2 DEF StackOK
  <2>2. state[t].error \in BOOLEAN
        BY <1>2 DEF StateType
  <2> QED
      BY <1>1, <1>2, <1>3, <1>4, <2>1, <2>2, Replaced
<1>6. \A i \in 1 .. Len(below) : below[i].pc = "call"
      BY <1>2, <1>3, <1>5 DEF StackOK
<1>7. Around(t, below, name, state[t].error)
      BY <1>5, <1>6, CurrentNames DEF Around
<1>8. c \in Turns /\ (t \notin shared => c = t)
      BY <1>2 DEF FrameOK
<1>9. name \in [Turns -> Nodes \cup {None}]
      BY DEF IInv, Typed
<1> HIDE DEF c, below
<1> QED
  BY <1>1, <1>2, <1>5, <1>7, <1>8, <1>9, Dispatched

\* The stack after an execution that may have failed: the errors are blamed.
LEMMA ExecutedOK ==
    ASSUME IInv, NEW t \in Turns, stack[t] # <<>>, NEW failed \in BOOLEAN,
           NEW route \in Nodes \cup {None}
    PROVE  LET s == Blamed(stack[t], failed)
               e == Executed(t, failed, route)
           IN  /\ e \in StateType
               /\ e.error = (state[t].error \/ failed)
               /\ s \in Seq(Frame)
               /\ s # <<>>
               /\ StackOK(t, s, e.error)
               /\ Innermost(t, s) = Innermost(t, stack[t])
               /\ Follows(s[1], Top(t))
<1> DEFINE s == Blamed(stack[t], failed)
           e == Executed(t, failed, route)
<1>1. /\ stack[t] \in Seq(Frame)
      /\ Top(t) = stack[t][1]
      /\ StackOK(t, stack[t], state[t].error)
      /\ state[t] \in StateType
      /\ Len(stack[t]) \in Nat \ {0}
      BY TopOK
<1>2. /\ s \in Seq(Frame)
      /\ Len(s) = Len(stack[t])
      /\ Follows(s[1], stack[t][1])
      BY <1>1, BlamedStack
<1>3. state[t].error \in BOOLEAN
      BY <1>1 DEF StateType
<1>4. /\ StackOK(t, s, state[t].error \/ failed)
      /\ Innermost(t, s) = Innermost(t, stack[t])
      BY <1>1, <1>3, BlamedOK
<1>5. e \in StateType /\ e.error = (state[t].error \/ failed)
      BY <1>3 DEF Executed, StateType
<1>6. s # <<>>
  <2> HIDE DEF s
  <2> QED
      BY <1>1, <1>2
<1> HIDE DEF s, e
<1> QED
  BY <1>1, <1>2, <1>4, <1>5, <1>6 DEF s, e

LEMMA BackOffOK ==
    ASSUME IInv, NEW t \in Turns, BackOff(t)
    PROVE  IInv'
<1>1. stack[t] # <<>> /\ Again(Top(t)) /\ Top(t) \in Frame
      BY TopOK DEF BackOff, Executing
<1>2. PICK failed \in BOOLEAN, route \in Config[Top(t).node].routes :
        /\ Executed(t, failed, route).error
        /\ state' = [state EXCEPT ![t] = Executed(t, failed, route)]
        /\ stack' = [stack EXCEPT ![t] =
             <<[Head(Blamed(stack[t], failed)) EXCEPT !.pc = "backoff"]>>
               \o Tail(Blamed(stack[t], failed))]
      BY DEF BackOff
<1>3. route \in Nodes \cup {None}
      BY <1>1, <1>2, DispatchAssumption DEF Frame, ConfigType
<1> DEFINE s == Blamed(stack[t], failed)
           e == Executed(t, failed, route)
           g == [Head(s) EXCEPT !.pc = "backoff"]
<1>4. /\ e \in StateType
      /\ s \in Seq(Frame)
      /\ s # <<>>
      /\ StackOK(t, s, e.error)
      /\ Innermost(t, s) = Innermost(t, stack[t])
      /\ Follows(s[1], Top(t))
      BY <1>1, <1>3, ExecutedOK
<1>5. e.error
      BY <1>2, <1>4 DEF StateType
<1> HIDE DEF s, e
<1>6. Head(s) = s[1] /\ Head(s) \in Frame /\ Len(s) \in Nat \ {0}
      BY <1>4, Pop
<1>7. /\ g \in Frame
      /\ g.node = s[1].node
      /\ g.prev = s[1].prev
      /\ g.ctx = s[1].ctx
      /\ g.llm = s[1].llm
      /\ g.attempt = s[1].attempt
      /\ g.failed = s[1].failed
      /\ g.inherited = s[1].inherited
      BY <1>6 DEF Frame
<1> HIDE DEF g
<1>8. \A i \in 1 .. Len(s) : FrameOK(t, s[i], e.error)
      BY <1>4 DEF StackOK
<1>9. FrameOK(t, g, e.error)
  <2>1. FrameOK(t, s[1], e.error)
    <3>1. 1 \in 1 .. Len(s)
          BY <1>6
    <3> QED
        BY <3>1, <1>8
  <2>2. Again(g)
        BY <1>1, <1>4, <1>7 DEF Again, Follows
  <2> QED
      BY <1>5, <1>7, <2>1, <2>2 DEF FrameOK
<1>10. /\ <<g>> \o Tail(s) \in Seq(Frame)
       /\ StackOK(t, <<g>> \o Tail(s), e.error)
       /\ Innermost(t, <<g>> \o Tail(s)) = Innermost(t, s)
  <2>1. \A i \in 2 .. Len(s) : FrameOK(t, s[i], e.error)
        BY <1>8
  <2>2. e.error \in BOOLEAN
        BY <1>4 DEF StateType
  <2> QED
      BY <1>4, <1>7, <1>9, <2>1, <2>2, Replaced
<1>11. /\ stack' = [stack EXCEPT ![t] = <<g>> \o Tail(s)]
       /\ state' = [state EXCEPT ![t] = e]
       BY <1>2 DEF s, e, g
<1>12. UNCHANGED <<instState, instCtx, name, status, shared, lent>>
       BY DEF BackOff
<1> QED
  BY <1>1, <1>4, <1>5, <1>10, <1>11, <1>12, Moved

LEMMA NextAttemptOK ==
    ASSUME NEW f \in Frame
    PROVE  /\ NextAttempt(f) \in Frame
           /\ NextAttempt(f).node = f.node
           /\ NextAttempt(f).prev = f.prev
           /\ NextAttempt(f).ctx = f.ctx
           /\ NextAttempt(f).attempt = f.attempt + 1
<1>1. f.attempt + 1 \in Nat \ {0}
      BY DEF Frame
<1> QED
  BY <1>1 DEF Frame, NextAttempt

LEMMA RetryOK ==
    ASSUME IInv, NEW t \in Turns, Retry(t)
    PROVE  IInv'
<1> DEFINE g == [NextAttempt(Top(t)) EXCEPT
                   !.pc = "execute", !.called = FALSE, !.failed = FALSE,
                   !.llm = instCtx[Top(t).node]]
           e == Cleared(state[t])
<1>1. /\ stack[t] # <<>>
      /\ Top(t).pc = "backoff"
      /\ state' = [state EXCEPT ![t] = e]
      /\ stack' = [stack EXCEPT ![t] = <<g>> \o Tail(stack[t])]
      /\ UNCHANGED <<instState, instCtx, name, status, shared, lent>>
      BY DEF Retry
<1>2. /\ stack[t] \in Seq(Frame)
      /\ Top(t) = stack[t][1]
      /\ Top(t) \in Frame
      /\ FrameOK(t, Top(t), state[t].error)
      /\ StackOK(t, stack[t], state[t].error)
      /\ state[t] \in StateType
      /\ Len(stack[t]) \in Nat \ {0}
      BY <1>1, TopOK
<1>3. e \in StateType /\ ~e.error
      BY <1>2 DEF Cleared, StateType
<1>4. instCtx[Top(t).node] \in Turns
      BY <1>2 DEF FrameOK
<1>5. /\ g \in Frame
      /\ g.node = Top(t).node
      /\ g.prev = Top(t).prev
      /\ g.ctx = Top(t).ctx
      /\ g.llm = instCtx[Top(t).node]
      /\ g.attempt = Top(t).attempt + 1
      /\ g.pc = "execute"
  <2> DEFINE h == NextAttempt(Top(t))
  <2>1. /\ h \in Frame
        /\ h.node = Top(t).node
        /\ h.prev = Top(t).prev
        /\ h.ctx = Top(t).ctx
        /\ h.attempt = Top(t).attempt + 1
        BY <1>2, NextAttemptOK
  <2>2. g = [h EXCEPT !.pc = "execute", !.called = FALSE, !.failed = FALSE,
                      !.llm = instCtx[Top(t).node]]
        OBVIOUS
  <2> HIDE DEF h, g
  <2> QED
      BY <1>4, <2>1, <2>2 DEF Frame
<1> HIDE DEF g, e
<1>6. FrameOK(t, g, e.error)
  <2>1. Top(t).attempt < Config[Top(t).node].attempts
        BY <1>1, <1>2 DEF FrameOK, Again
  <2>2. Config[Top(t).node].attempts \in Nat /\ Top(t).attempt \in Nat
        BY <1>2, DispatchAssumption DEF ConfigType, Frame
  <2>3. Top(t).attempt + 1 <= Config[Top(t).node].attempts
        BY <2>1, <2>2
  <2> QED
      BY <1>2, <1>3, <1>5, <2>3 DEF FrameOK
<1>7. \A i \in 2 .. Len(stack[t]) : FrameOK(t, stack[t][i], e.error)
      BY <1>2, <1>3 DEF StackOK, FrameOK
<1>8. /\ <<g>> \o Tail(stack[t]) \in Seq(Frame)
      /\ StackOK(t, <<g>> \o Tail(stack[t]), e.error)
      /\ Innermost(t, <<g>> \o Tail(stack[t])) = Innermost(t, stack[t])
  <2>1. state[t].error \in BOOLEAN /\ e.error \in BOOLEAN
        BY <1>2, <1>3 DEF StateType
  <2> QED
      BY <1>1, <1>2, <1>5, <1>6, <1>7, <2>1, Replaced
<1> QED
  BY <1>1, <1>3, <1>8, Moved

\* The names around the innermost dispatch, once it is over.
LEMMA RestoredNames ==
    ASSUME IInv, NEW t \in Turns, stack[t] # <<>>
    PROVE  /\ Restored(Top(t)) \in [Turns -> Nodes \cup {None}]
           /\ \A u \in Turns \ (shared \cup lent) :
                Restored(Top(t))[u] =
                  IF u = t THEN Top(t).prev ELSE Innermost(u, stack[u])
<1>1. /\ Top(t) \in Frame
      /\ FrameOK(t, Top(t), state[t].error)
      BY TopOK
<1>2. /\ Top(t).ctx \in Turns
      /\ Top(t).prev \in Nodes \cup {None}
      BY <1>1 DEF Frame
<1>3. name \in [Turns -> Nodes \cup {None}]
      BY DEF IInv, Typed
<1>4. ASSUME NEW u \in Turns \ (shared \cup lent)
      PROVE  Restored(Top(t))[u] =
               IF u = t THEN Top(t).prev ELSE Innermost(u, stack[u])
  <2>1. name[u] = Innermost(u, stack[u])
        BY CurrentNames
  <2>2. (u = t => Top(t).ctx = t) /\ (u # t => Top(t).ctx # u)
        BY <1>1 DEF FrameOK
  <2> QED
      BY <1>2, <1>3, <2>1, <2>2 DEF Restored
<1> QED
  BY <1>2, <1>3, <1>4 DEF Restored

\* What is around a dispatch when it is over, with its error kept or cleared.
LEMMA AroundOK ==
    ASSUME IInv, NEW t \in Turns, stack[t] # <<>>, NEW failed \in BOOLEAN,
           NEW err \in BOOLEAN, err => state[t].error \/ failed
    PROVE  /\ Tail(Blamed(stack[t], failed)) \in Seq(Frame)
           /\ Around(t, Tail(Blamed(stack[t], failed)), Restored(Top(t)), err)
<1> DEFINE s == Blamed(stack[t], failed)
           known == state[t].error \/ failed
<1>1. None \in Nodes \cup {None}
      OBVIOUS
<1>2. /\ s \in Seq(Frame)
      /\ s # <<>>
      /\ StackOK(t, s, known)
      /\ Follows(s[1], Top(t))
      BY <1>1, ExecutedOK
<1>3. known \in BOOLEAN /\ (err => known)
      OBVIOUS
<1> HIDE DEF s, known
<1>4. /\ Tail(s) \in Seq(Frame)
      /\ StackOK(t, Tail(s), known)
      /\ \A i \in 1 .. Len(Tail(s)) : Tail(s)[i].pc = "call"
      /\ t \notin shared \cup lent => Innermost(t, Tail(s)) = s[1].prev
      BY <1>2, <1>3, TailOK, Pop
<1>5. StackOK(t, Tail(s), err)
      BY <1>3, <1>4, ClearedOK
<1>6. \A u \in Turns \ (shared \cup lent) :
        Restored(Top(t))[u] = IF u = t THEN Innermost(t, Tail(s))
                                       ELSE Innermost(u, stack[u])
      BY <1>2, <1>4, RestoredNames DEF Follows
<1> QED
  BY <1>4, <1>5, <1>6 DEF Around, s

LEMMA NextNodeType ==
    ASSUME NEW n \in Nodes, NEW s \in StateType, NEW r \in Config[n].next
    PROVE  /\ NextNode(n, s, r) \in Nodes \cup {None}
           /\ Handled(n, s) \in StateType
           /\ Handled(n, s).error => s.error
<1>1. Config[n] \in ConfigType
      BY DispatchAssumption
<1>2. Config[n].fallback \in Nodes \cup {None} /\ r \in Nodes \cup {None}
      BY <1>1 DEF ConfigType
<1>3. s.next \in Nodes \cup {None}
      BY DEF StateType
<1>4. Cleared(s) \in StateType /\ ~Cleared(s).error
      BY DEF Cleared, StateType
<1>5. Handled(n, s) = s \/ Handled(n, s) = Cleared(s)
      BY DEF Handled
<1>6. NextNode(n, s, r) \in Nodes \cup {None}
      BY <1>2, <1>3 DEF NextNode
<1> QED
  BY <1>4, <1>5, <1>6

LEMMA CompleteOK ==
    ASSUME IInv, NEW t \in Turns, Complete(t)
    PROVE  IInv'
<1> DEFINE f == Top(t)
<1>1. stack[t] # <<>>
      BY DEF Complete, Executing
<1>2. f \in Frame /\ FrameOK(t, f, state[t].error)
      BY <1>1, TopOK
<1>3. /\ f.node \in Nodes
      /\ f.ctx \in Turns
      /\ t \notin shared => f.ctx = t
      BY <1>2 DEF Frame, FrameOK
<1>4. PICK failed \in BOOLEAN, route \in Config[f.node].routes,
           resolved \in Config[f.node].next :
        LET s == Executed(t, failed, route)
            below == Tail(Blamed(stack[t], failed))
            next == NextNode(f.node, s, resolved)
        IN  \/ /\ next # None
               /\ Dispatch(t, next, f.ctx, below, Restored(f), Handled(f.node, s))
            \/ /\ next = None
               /\ Leave(t, below, Restored(f), Handled(f.node, s), "done")
      BY DEF Complete, Resolved
<1>5. route \in Nodes \cup {None}
      BY <1>3, <1>4, DispatchAssumption DEF ConfigType
<1> DEFINE s == Executed(t, failed, route)
           h == Handled(f.node, s)
           below == Tail(Blamed(stack[t], failed))
           next == NextNode(f.node, s, resolved)
<1>6. s \in StateType /\ s.error = (state[t].error \/ failed)
      BY <1>1, <1>5, ExecutedOK
<1>7. /\ next \in Nodes \cup {None}
      /\ h \in StateType
      /\ h.error => s.error
  <2> HIDE DEF s, f
  <2> QED
      BY <1>3, <1>6, NextNodeType
<1>8. /\ below \in Seq(Frame)
      /\ Around(t, below, Restored(f), h.error)
  <2>1. h.error \in BOOLEAN
    <3> HIDE DEF h
    <3> QED
        BY <1>7 DEF StateType
  <2>2. h.error => state[t].error \/ failed
    <3> HIDE DEF h, s
    <3> QED
        BY <1>6, <1>7
  <2> HIDE DEF h
  <2> QED
      BY <1>1, <2>1, <2>2, AroundOK
<1>9. Restored(f) \in [Turns -> Nodes \cup {None}]
      BY <1>1, RestoredNames
<1>10. \/ next # None /\ Dispatch(t, next, f.ctx, below, Restored(f), h)
       \/ Leave(t, below, Restored(f), h, "done")
       BY <1>4
<1> HIDE DEF f, s, h, below, next
<1>11. CASE next # None /\ Dispatch(t, next, f.ctx, below, Restored(f), h)
       BY <1>3, <1>7, <1>8, <1>9, <1>11, Dispatched
<1>12. CASE Leave(t, below, Restored(f), h, "done")
       BY <1>7, <1>8, <1>9, <1>12, Left
<1> QED
  BY <1>10, <1>11, <1>12

LEMMA RaiseOK ==
    ASSUME IInv, NEW t \in Turns, Raise(t)
    PROVE  IInv'
<1> DEFINE below == Tail(Blamed(stack[t], TRUE))
<1>1. /\ stack[t] # <<>>
      /\ Leave(t, below, Restored(Top(t)), state[t], "raised")
      BY DEF Raise
<1>2. state[t] \in StateType
      BY <1>1, TopOK
<1>3. state[t].error \in BOOLEAN
      BY <1>2 DEF StateType
<1>4. /\ below \in Seq(Frame)
      /\ Around(t, below, Restored(Top(t)), state[t].error)
      BY <1>1, <1>3, AroundOK
<1>5. Restored(Top(t)) \in [Turns -> Nodes \cup {None}]
      BY <1>1, RestoredNames
<1> HIDE DEF below
<1> QED
  BY <1>1, <1>2, <1>4, <1>5, Left

LEMMA NextOK == IInv /\ [Next]_vars => IInv'
<1> SUFFICES ASSUME IInv, [Next]_vars PROVE IInv'
    OBVIOUS
<1>1. ASSUME NEW t \in Turns, Start(t) PROVE IInv'
      BY <1>1, StartOK
<1>2. ASSUME NEW t \in Turns, NEW n \in Nodes, Call(t, n) PROVE IInv'
      BY <1>2, CallOK
<1>3. ASSUME NEW t \in Turns, BackOff(t) PROVE IInv'
      BY <1>3, BackOffOK
<1>4. ASSUME NEW t \in Turns, Retry(t) PROVE IInv'
      BY <1>4, RetryOK
<1>5. ASSUME NEW t \in Turns, Complete(t) PROVE IInv'
      BY <1>5, CompleteOK
<1>6. ASSUME NEW t \in Turns, Raise(t) PROVE IInv'
      BY <1>6, RaiseOK
<1>7. CASE UNCHANGED vars
      BY <1>7 DEF vars, IInv, Typed, Fresh, StackOK, FrameOK, Outer, NameIsInnermost, Top
<1> QED
  BY <1>1, <1>2, <1>3, <1>4, <1>5, <1>6, <1>7 DEF Next, Step

LEMMA Inductive == Spec => []IInv
  BY InitIInv, NextOK, PTL DEF Spec

-----------------------------------------------------------------------------

\* The variables keep their types, and no dispatch ever makes more attempts
\* than its node's retry block allows.
THEOREM TypeCorrect == Spec => []TypeOK
<1>1. IInv => TypeOK
  <2>1. SUFFICES ASSUME IInv, NEW t \in Turns, NEW i \in DOMAIN stack[t]
                 PROVE  \/ stack[t][i].attempt = 1
                        \/ stack[t][i].attempt <= Config[stack[t][i].node].attempts
        BY DEF IInv, Typed, TypeOK
  <2>2. i \in 1 .. Len(stack[t])
        BY <2>1 DEF IInv, Typed
  <2> QED
      BY <2>1, <2>2 DEF IInv, StackOK, FrameOK
<1> QED
  BY Inductive, <1>1, PTL

\* However many turns run, call, fail and are retried: a turn that no other
\* turn joined in a node finds its own state and context in every instance.
THEOREM TurnsAreIsolated == Spec => []Isolated
<1>1. IInv => Isolated
  <2>1. SUFFICES ASSUME IInv, NEW t \in Turns \ shared, NEW i \in DOMAIN stack[t]
                 PROVE  /\ instState[stack[t][i].node] = t
                        /\ instCtx[stack[t][i].node] = t
                        /\ stack[t][i].ctx = t
                        /\ stack[t][i].llm = t
        BY DEF Isolated
  <2>2. i \in 1 .. Len(stack[t])
        BY <2>1 DEF IInv, Typed
  <2> QED
      BY <2>1, <2>2 DEF IInv, StackOK, FrameOK
<1> QED
  BY Inductive, <1>1, PTL

\* Through nested calls, retries and exceptions of any depth, the context of
\* such a turn names the node that runs.
THEOREM NamesFollow == Spec => []NameIsInnermost
<1>1. IInv => NameIsInnermost
      BY DEF IInv
<1> QED
  BY Inductive, <1>1, PTL

\* A node is run again only because of a failure in that dispatch, or once
\* because of an error it found.
THEOREM RetriesAreEarned == Spec => []RetryIsEarned
<1>1. IInv => RetryIsEarned
  <2>1. SUFFICES ASSUME IInv, NEW t \in Turns, NEW i \in DOMAIN stack[t],
                        stack[t][i].pc = "backoff"
                 PROVE  \/ stack[t][i].failed
                        \/ stack[t][i].attempt = 1 /\ stack[t][i].inherited
        BY DEF RetryIsEarned
  <2>2. i \in 1 .. Len(stack[t])
        BY <2>1 DEF IInv, Typed
  <2> QED
      BY <2>1, <2>2 DEF IInv, StackOK, FrameOK
<1> QED
  BY Inductive, <1>1, PTL

-----------------------------------------------------------------------------
(* The safety half of TurnsEnd, for any turns and any routing without a    *)
(* cycle: Rank orders the nodes, and all a node leads to is below it.      *)

LeadsTo(n) ==
    (Config[n].next \cup Config[n].routes \cup Config[n].calls
       \cup (IF Config[n].onFailure = "fallback" THEN {Config[n].fallback} ELSE {}))
      \ {None}

NoCycle(Rank) == \A n \in Nodes : \A m \in LeadsTo(n) : Rank[m] < Rank[n]

\* How far a dispatch is in its attempt: before its call, in it, after it, or
\* in the pause.
Moment(f) ==
    CASE f.pc = "execute" -> IF f.called THEN 1 ELSE 3
      [] f.pc = "call" -> 2
      [] OTHER -> 0

Same(g, f) == /\ g.node = f.node /\ g.attempt = f.attempt
              /\ g.pc = f.pc /\ g.called = f.called

\* The dispatch g is what became of f: of a lower node, at a later attempt, or
\* further on in the same one.
Less(Rank, g, f) ==
    \/ Rank[g.node] < Rank[f.node]
    \/ /\ g.node = f.node
       /\ \/ g.attempt > f.attempt
          \/ g.attempt = f.attempt /\ Moment(g) < Moment(f)

\* The stack r is empty, or counted from the outermost dispatch it is s up to
\* one that went down: what is on top of that one is new, or gone.
Lowered(Rank, r, s) ==
    \/ r = <<>>
    \/ \E i \in 1 .. Len(r), k \in 1 .. Len(s) :
         /\ Len(r) - i = Len(s) - k
         /\ Less(Rank, r[i], s[k])
         /\ \A j \in 1 .. Len(r) - i : Same(r[i + j], s[k + j])

\* Every open dispatch is of a lower node than the one around it.
Within(Rank, t, s) ==
    \A i \in 1 .. Len(s) : Rank[s[i].node] + (Len(s) - i) <= Rank[Entry[t]]

\* All dispatches but the innermost are in the call that opened the next.
CallsMade(s) ==
    \A i \in 1 .. Len(s) : /\ s[i].pc = "call" <=> i > 1
                           /\ s[i].pc = "call" => s[i].called

Sound(Rank, t, s) == Within(Rank, t, s) /\ CallsMade(s)

TurnsForward(Rank) ==
    \A t \in Turns :
      \/ stack'[t] = stack[t] /\ status'[t] = status[t]
      \/ status[t] = "new"
      \/ stack[t] # <<>> /\ Lowered(Rank, stack'[t], stack[t])

Alike(u, s) == Len(u) = Len(s) /\ \A i \in 1 .. Len(s) : Same(u[i], s[i])

LEMMA BlamedAlike ==
    ASSUME NEW s \in Seq(Frame), NEW b \in BOOLEAN
    PROVE  Alike(Blamed(s, b), s) /\ Blamed(s, b) \in Seq(Frame)
<1>1. /\ Blamed(s, b) \in Seq(Frame)
      /\ Len(Blamed(s, b)) = Len(s)
      /\ \A i \in 1 .. Len(s) : Follows(Blamed(s, b)[i], s[i])
      BY BlamedStack
<1>2. ASSUME NEW i \in 1 .. Len(s) PROVE Blamed(s, b)[i].called = s[i].called
  <2>1. s[i] \in Frame
        OBVIOUS
  <2>2. [s[i] EXCEPT !.failed = TRUE].called = s[i].called
        BY <2>1 DEF Frame
  <2>3. Blamed(s, b)[i] \in {s[i], [s[i] EXCEPT !.failed = TRUE]}
        BY DEF Blamed
  <2> QED BY <2>2, <2>3
<1> QED BY <1>1, <1>2 DEF Alike, Same, Follows

\* A call: the caller goes down, and the dispatch on top of it is lower.
LEMMA CallLowers ==
    ASSUME NEW Rank \in [Nodes -> Nat], NEW t \in Turns,
           NEW s \in Seq(Frame), s # <<>>, Sound(Rank, t, s), ~s[1].called,
           NEW f \in Frame, f.pc = "execute", Rank[f.node] < Rank[s[1].node],
           NEW g \in Frame, g.pc = "call", g.called, g.node = s[1].node,
           g.attempt = s[1].attempt, s[1].pc = "execute"
    PROVE  /\ Sound(Rank, t, <<f>> \o (<<g>> \o Tail(s)))
           /\ Lowered(Rank, <<f>> \o (<<g>> \o Tail(s)), s)
<1> DEFINE r == <<f>> \o (<<g>> \o Tail(s))
<1>1. /\ Len(s) \in Nat \ {0} /\ Tail(s) \in Seq(Frame)
      /\ Len(Tail(s)) = Len(s) - 1
      /\ \A i \in 1 .. Len(s) - 1 : Tail(s)[i] = s[i + 1]
      BY Pop
<1>2. /\ <<g>> \o Tail(s) \in Seq(Frame)
      /\ Len(<<g>> \o Tail(s)) = Len(s)
      /\ (<<g>> \o Tail(s))[1] = g
      /\ \A i \in 2 .. Len(s) : (<<g>> \o Tail(s))[i] = s[i]
  <2>1. /\ <<g>> \o Tail(s) \in Seq(Frame)
        /\ Len(<<g>> \o Tail(s)) = Len(Tail(s)) + 1
        /\ (<<g>> \o Tail(s))[1] = g
        /\ \A i \in 2 .. Len(Tail(s)) + 1 : (<<g>> \o Tail(s))[i] = Tail(s)[i - 1]
        BY <1>1, Push
  <2> QED BY <1>1, <2>1
<1>3. /\ r \in Seq(Frame) /\ Len(r) = Len(s) + 1
      /\ r[1] = f /\ r[2] = g
      /\ \A i \in 3 .. Len(s) + 1 : r[i] = s[i - 1]
  <2>1. /\ r \in Seq(Frame)
        /\ Len(r) = Len(<<g>> \o Tail(s)) + 1
        /\ r[1] = f
        /\ \A i \in 2 .. Len(<<g>> \o Tail(s)) + 1 : r[i] = (<<g>> \o Tail(s))[i - 1]
        BY <1>2, Push
  <2> QED BY <1>1, <1>2, <2>1
<1> HIDE DEF r
<1>4. Within(Rank, t, r)
  <2>1. ASSUME NEW i \in 1 .. Len(r) PROVE Rank[r[i].node] + (Len(r) - i) <= Rank[Entry[t]]
    <3>1. Entry[t] \in Nodes /\ Rank[Entry[t]] \in Nat /\ Rank[s[1].node] \in Nat
          /\ Rank[f.node] \in Nat
          BY DispatchAssumption DEF Frame
    <3>2. \A k \in 1 .. Len(s) : Rank[s[k].node] + (Len(s) - k) <= Rank[Entry[t]]
          BY DEF Sound, Within
    <3>3. CASE i = 1
          BY <1>1, <1>3, <3>1, <3>2, <3>3
    <3>4. CASE i = 2
          BY <1>1, <1>3, <3>1, <3>2, <3>4
    <3>5. CASE i \in 3 .. Len(s) + 1
      <4>1. i - 1 \in 1 .. Len(s) /\ Len(r) - i = Len(s) - (i - 1)
            BY <1>1, <1>3, <3>5
      <4> QED BY <1>3, <3>2, <3>5, <4>1
    <3> QED BY <1>1, <1>3, <3>3, <3>4, <3>5
  <2> QED BY <2>1 DEF Within
<1>5. CallsMade(r)
  <2>1. ASSUME NEW i \in 1 .. Len(r)
        PROVE  (r[i].pc = "call" <=> i > 1) /\ (r[i].pc = "call" => r[i].called)
    <3>1. CASE i \in {1, 2}
          BY <1>3, <3>1
    <3>2. CASE i \in 3 .. Len(s) + 1
      <4>1. i - 1 \in 1 .. Len(s) /\ i - 1 > 1 /\ i > 1
            BY <1>1, <3>2
      <4> QED BY <1>3, <3>2, <4>1 DEF Sound, CallsMade
    <3> QED BY <1>1, <1>3, <3>1, <3>2
  <2> QED BY <2>1 DEF CallsMade
<1>6. Lowered(Rank, r, s)
  <2>1. Less(Rank, r[2], s[1])
        BY <1>3 DEF Less, Moment
  <2>2. \A j \in 1 .. Len(r) - 2 : Same(r[2 + j], s[1 + j])
        BY <1>1, <1>3 DEF Same
  <2>3. 2 \in 1 .. Len(r) /\ 1 \in 1 .. Len(s) /\ Len(r) - 2 = Len(s) - 1
        BY <1>1, <1>3
  <2> QED BY <2>1, <2>2, <2>3 DEF Lowered
<1> QED BY <1>4, <1>5, <1>6 DEF Sound, r

\* The innermost dispatch goes down, or gives way to one of a lower node.
LEMMA ReplaceLowers ==
    ASSUME NEW Rank \in [Nodes -> Nat], NEW t \in Turns,
           NEW s \in Seq(Frame), s # <<>>, Sound(Rank, t, s),
           NEW u \in Seq(Frame), Alike(u, s),
           NEW f \in Frame, f.pc # "call", Less(Rank, f, s[1])
    PROVE  /\ Sound(Rank, t, <<f>> \o Tail(u))
           /\ Lowered(Rank, <<f>> \o Tail(u), s)
<1> DEFINE r == <<f>> \o Tail(u)
<1>1. Len(s) \in Nat \ {0} /\ Len(u) = Len(s) /\ u # <<>>
      BY DEF Alike
<1>2. /\ r \in Seq(Frame) /\ Len(r) = Len(s) /\ r[1] = f
      /\ \A i \in 2 .. Len(s) : r[i] = u[i]
  <2>1. /\ Tail(u) \in Seq(Frame) /\ Len(Tail(u)) = Len(s) - 1
        /\ \A i \in 1 .. Len(s) - 1 : Tail(u)[i] = u[i + 1]
        BY <1>1, Pop
  <2>2. /\ r \in Seq(Frame) /\ Len(r) = Len(Tail(u)) + 1 /\ r[1] = f
        /\ \A i \in 2 .. Len(Tail(u)) + 1 : r[i] = Tail(u)[i - 1]
        BY <2>1, Push
  <2> QED BY <1>1, <2>1, <2>2
<1>3. \A i \in 2 .. Len(s) : Same(r[i], s[i])
      BY <1>1, <1>2 DEF Alike
<1> HIDE DEF r
<1>4. Rank[f.node] <= Rank[s[1].node] /\ Rank[f.node] \in Nat /\ Rank[s[1].node] \in Nat
  <2>1. s[1] \in Frame
        BY <1>1
  <2> QED BY <2>1 DEF Less, Frame
<1>5. Within(Rank, t, r)
  <2>1. ASSUME NEW i \in 1 .. Len(r) PROVE Rank[r[i].node] + (Len(r) - i) <= Rank[Entry[t]]
    <3>1. Entry[t] \in Nodes /\ Rank[Entry[t]] \in Nat
          BY DispatchAssumption
    <3>2. \A k \in 1 .. Len(s) : Rank[s[k].node] + (Len(s) - k) <= Rank[Entry[t]]
          BY DEF Sound, Within
    <3>3. CASE i = 1
          BY <1>1, <1>2, <1>4, <3>1, <3>2, <3>3
    <3>4. CASE i \in 2 .. Len(s)
          BY <1>1, <1>2, <1>3, <3>2, <3>4 DEF Same
    <3> QED BY <1>1, <1>2, <3>3, <3>4
  <2> QED BY <2>1 DEF Within
<1>6. CallsMade(r)
  <2>1. ASSUME NEW i \in 1 .. Len(r)
        PROVE  (r[i].pc = "call" <=> i > 1) /\ (r[i].pc = "call" => r[i].called)
    <3>1. CASE i = 1
          BY <1>2, <3>1
    <3>2. CASE i \in 2 .. Len(s)
          BY <1>1, <1>3, <3>2 DEF Same, Sound, CallsMade
    <3> QED BY <1>1, <1>2, <3>1, <3>2
  <2> QED BY <2>1 DEF CallsMade
<1>7. Lowered(Rank, r, s)
  <2>1. \A j \in 1 .. Len(r) - 1 : Same(r[1 + j], s[1 + j])
        BY <1>1, <1>2, <1>3
  <2>2. 1 \in 1 .. Len(r) /\ 1 \in 1 .. Len(s) /\ Len(r) - 1 = Len(s) - 1
        BY <1>1, <1>2
  <2> QED BY <1>2, <2>1, <2>2 DEF Lowered
<1> QED BY <1>5, <1>6, <1>7 DEF Sound, r

\* The innermost dispatch ends, and the one around it goes on after its call.
LEMMA ReturnLowers ==
    ASSUME NEW Rank \in [Nodes -> Nat], NEW t \in Turns,
           NEW s \in Seq(Frame), s # <<>>, Sound(Rank, t, s),
           NEW u \in Seq(Frame), Alike(u, s), Tail(u) # <<>>
    PROVE  LET r == <<[Head(Tail(u)) EXCEPT !.pc = "execute"]>> \o Tail(Tail(u))
           IN  Sound(Rank, t, r) /\ Lowered(Rank, r, s) /\ r # <<>>
<1> DEFINE g == [Head(Tail(u)) EXCEPT !.pc = "execute"]
           r == <<g>> \o Tail(Tail(u))
<1>1. Len(s) \in Nat \ {0} /\ Len(u) = Len(s) /\ u # <<>>
      BY DEF Alike
<1>2. /\ Tail(u) \in Seq(Frame) /\ Len(Tail(u)) = Len(s) - 1
      /\ \A i \in 1 .. Len(s) - 1 : Tail(u)[i] = u[i + 1]
      BY <1>1, Pop
<1>3. /\ Tail(Tail(u)) \in Seq(Frame) /\ Len(Tail(Tail(u))) = Len(s) - 2
      /\ Len(s) >= 2
      /\ Head(Tail(u)) = Tail(u)[1] /\ Head(Tail(u)) \in Frame
      /\ \A i \in 1 .. Len(s) - 2 : Tail(Tail(u))[i] = Tail(u)[i + 1]
  <2>1. /\ Tail(Tail(u)) \in Seq(Frame) /\ Len(Tail(Tail(u))) = Len(Tail(u)) - 1
        /\ Head(Tail(u)) = Tail(u)[1] /\ Head(Tail(u)) \in Frame
        /\ Len(Tail(u)) \in Nat \ {0}
        /\ \A i \in 1 .. Len(Tail(u)) - 1 : Tail(Tail(u))[i] = Tail(u)[i + 1]
        BY <1>2, Pop
  <2> QED BY <1>1, <1>2, <2>1
<1>4. Head(Tail(u)) = u[2] /\ u[2] \in Frame
      BY <1>1, <1>2, <1>3
<1>5. g \in Frame /\ g.pc = "execute" /\ g.node = u[2].node
      /\ g.attempt = u[2].attempt /\ g.called = u[2].called
      BY <1>4 DEF Frame
<1> HIDE DEF g
<1>6. /\ r \in Seq(Frame) /\ Len(r) = Len(s) - 1 /\ r[1] = g /\ r # <<>>
      /\ \A i \in 2 .. Len(s) - 1 : r[i] = u[i + 1]
  <2>1. /\ r \in Seq(Frame) /\ Len(r) = Len(Tail(Tail(u))) + 1 /\ r[1] = g
        /\ \A i \in 2 .. Len(Tail(Tail(u))) + 1 : r[i] = Tail(Tail(u))[i - 1]
        /\ r # <<>>
        BY <1>3, <1>5, Push
  <2>2. ASSUME NEW i \in 2 .. Len(s) - 1 PROVE r[i] = u[i + 1]
    <3>1. r[i] = Tail(Tail(u))[i - 1]
          BY <1>1, <1>3, <2>1
    <3>2. Tail(Tail(u))[i - 1] = Tail(u)[i]
          BY <1>1, <1>3
    <3>3. Tail(u)[i] = u[i + 1]
          BY <1>1, <1>2
    <3> QED BY <3>1, <3>2, <3>3
  <2> QED BY <1>1, <1>3, <2>1, <2>2
<1> HIDE DEF r
<1>7. \A i \in 2 .. Len(s) - 1 : Same(r[i], s[i + 1])
      BY <1>1, <1>6 DEF Alike
<1>8. Same(u[2], s[2]) /\ s[2].pc = "call" /\ s[2].called
      BY <1>1, <1>3 DEF Alike, Sound, CallsMade
<1>9. Within(Rank, t, r)
  <2>1. ASSUME NEW i \in 1 .. Len(r) PROVE Rank[r[i].node] + (Len(r) - i) <= Rank[Entry[t]]
    <3>1. \A k \in 1 .. Len(s) : Rank[s[k].node] + (Len(s) - k) <= Rank[Entry[t]]
          BY DEF Sound, Within
    <3>2. r[i].node = s[i + 1].node
      <4>1. CASE i = 1
            BY <1>5, <1>6, <1>8, <4>1 DEF Same
      <4>2. CASE i \in 2 .. Len(s) - 1
            BY <1>7, <4>2 DEF Same
      <4> QED BY <1>1, <1>6, <4>1, <4>2
    <3>3. i + 1 \in 1 .. Len(s) /\ Len(r) - i = Len(s) - (i + 1)
          BY <1>1, <1>6
    <3> QED BY <3>1, <3>2, <3>3
  <2> QED BY <2>1 DEF Within
<1>10. CallsMade(r)
  <2>1. ASSUME NEW i \in 1 .. Len(r)
        PROVE  (r[i].pc = "call" <=> i > 1) /\ (r[i].pc = "call" => r[i].called)
    <3>1. CASE i = 1
          BY <1>5, <1>6, <3>1
    <3>2. CASE i \in 2 .. Len(s) - 1
          BY <1>1, <1>7, <3>2 DEF Same, Sound, CallsMade
    <3> QED BY <1>1, <1>6, <3>1, <3>2
  <2> QED BY <2>1 DEF CallsMade
<1>11. Lowered(Rank, r, s)
  <2>1. Less(Rank, r[1], s[2])
    <3>1. r[1] = g /\ g.pc = "execute" /\ g.called
          BY <1>5, <1>6, <1>8 DEF Same
    <3>2. g.node = s[2].node /\ g.attempt = s[2].attempt
          BY <1>5, <1>8 DEF Same
    <3>3. Moment(g) = 1 /\ Moment(s[2]) = 2
          BY <3>1, <1>8 DEF Moment
    <3> QED BY <3>1, <3>2, <3>3 DEF Less
  <2>2. \A j \in 1 .. Len(r) - 1 : Same(r[1 + j], s[2 + j])
    <3>1. TAKE j \in 1 .. Len(r) - 1
    <3>2. 1 + j \in 2 .. Len(s) - 1 /\ (1 + j) + 1 = 2 + j
          BY <1>1, <1>6
    <3> QED BY <1>7, <3>2
  <2>3. 1 \in 1 .. Len(r) /\ 2 \in 1 .. Len(s) /\ Len(r) - 1 = Len(s) - 2
        BY <1>1, <1>3, <1>6
  <2> QED BY <2>1, <2>2, <2>3 DEF Lowered
<1>12. Sound(Rank, t, r) /\ Lowered(Rank, r, s) /\ r # <<>>
      BY <1>6, <1>9, <1>10, <1>11 DEF Sound
<1> QED BY <1>12 DEF r, g

\* What is known of every turn, when its nodes are ranked.
Ranked(Rank) ==
    \A t \in Turns : /\ Sound(Rank, t, stack[t])
                     /\ status[t] = "running" <=> stack[t] # <<>>

\* What a node resolves to, falls back on or calls is below it.
LEMMA NextBelow ==
    ASSUME NEW Rank \in [Nodes -> Nat], NoCycle(Rank), NEW t \in Turns,
           NEW n \in Nodes, NEW b \in BOOLEAN, NEW route \in Config[n].routes,
           NEW resolved \in Config[n].next, IInv,
           NextNode(n, Executed(t, b, route), resolved) # None
    PROVE  /\ NextNode(n, Executed(t, b, route), resolved) \in Nodes
           /\ Rank[NextNode(n, Executed(t, b, route), resolved)] < Rank[n]
<1> DEFINE m == NextNode(n, Executed(t, b, route), resolved)
<1>1. Executed(t, b, route).next = route
      BY DEF Executed
<1>2. m \in LeadsTo(n)
      BY <1>1 DEF NextNode, LeadsTo, GivenUp
<1>3. LeadsTo(n) \subseteq Nodes
      BY DispatchAssumption DEF LeadsTo, ConfigType
<1> QED BY <1>2, <1>3 DEF NoCycle

\* One turn's step is all there is to see in the stacks of the others.
LEMMA OneTurn ==
    ASSUME NEW Rank, Ranked(Rank), IInv, NEW t \in Turns,
           NEW r \in Seq(Frame), stack' = [stack EXCEPT ![t] = r],
           Sound(Rank, t, r), stack[t] = <<>> \/ Lowered(Rank, r, stack[t]),
           status[t] = "new" <=> stack[t] = <<>>,
           NEW how, status' = [status EXCEPT ![t] = how],
           how = "running" <=> r # <<>>
    PROVE  Ranked(Rank)' /\ TurnsForward(Rank)
<1>1. stack \in [Turns -> Seq(Frame)] /\ DOMAIN status = Turns
      BY DEF IInv, Typed
<1>2. stack'[t] = r /\ status'[t] = how
      BY <1>1
<1>3. \A u \in Turns \ {t} : stack'[u] = stack[u] /\ status'[u] = status[u]
      BY <1>1
<1>4. Ranked(Rank)'
  <2>1. ASSUME NEW u \in Turns
        PROVE  Sound(Rank, u, stack'[u]) /\ (status'[u] = "running" <=> stack'[u] # <<>>)
    <3>1. CASE u = t
          BY <1>2, <3>1
    <3>2. CASE u # t
          BY <1>3, <3>2 DEF Ranked
    <3> QED BY <3>1, <3>2
  <2>2. \A u \in Turns : Sound(Rank, u, stack[u])' <=> Sound(Rank, u, stack'[u])
        BY DEF Sound, Within, CallsMade
  <2> QED BY <2>1, <2>2 DEF Ranked
<1>5. TurnsForward(Rank)
      BY <1>2, <1>3 DEF TurnsForward
<1> QED BY <1>4, <1>5

\* Turn t has opened the dispatch f of node n on top of the stack below.
Opened(t, n, f, below) ==
    /\ f.node = n /\ f.pc = "execute" /\ f.attempt = 1 /\ ~f.called
    /\ stack' = [stack EXCEPT ![t] = <<f>> \o below]
    /\ status' = [status EXCEPT ![t] = "running"]
    /\ <<f>> \o below \in Seq(Frame) /\ <<f>> \o below # <<>>

LEMMA DispatchStack ==
    ASSUME IInv, NEW t \in Turns, NEW n \in Nodes, NEW c \in Turns, NEW below \in Seq(Frame),
           NEW names \in [Turns -> Nodes \cup {None}], NEW s \in StateType,
           Dispatch(t, n, c, below, names, s), IInv'
    PROVE  \E f \in Frame : Opened(t, n, f, below)
<1> DEFINE f == [node |-> n, ctx |-> c, llm |-> instCtx'[n], prev |-> names[c],
                 attempt |-> 1, pc |-> "execute", called |-> FALSE,
                 failed |-> FALSE, inherited |-> s.error]
<1>1. stack' = [stack EXCEPT ![t] = <<f>> \o below]
      BY DEF Dispatch
<1>2. stack'[t] = <<f>> \o below /\ stack'[t] \in Seq(Frame)
      BY <1>1 DEF IInv, Typed
<1>3. f.node = n /\ f.pc = "execute" /\ f.attempt = 1 /\ ~f.called
      OBVIOUS
<1> HIDE DEF f
<1>4. f \in Frame
  <2>1. 1 \in 1 .. Len(<<f>> \o below) /\ (<<f>> \o below)[1] = f
        OBVIOUS
  <2> QED BY <1>2, <2>1
<1>5. <<f>> \o below # <<>>
      BY <1>4, Push
<1>6. status' = [status EXCEPT ![t] = "running"]
      BY DEF Dispatch
<1>7. Opened(t, n, f, below)
      BY <1>1, <1>2, <1>3, <1>5, <1>6 DEF Opened
<1> QED BY <1>4, <1>7

LEMMA StartForward ==
    ASSUME NEW Rank \in [Nodes -> Nat], Ranked(Rank), IInv, IInv',
           NEW t \in Turns, Start(t)
    PROVE  Ranked(Rank)' /\ TurnsForward(Rank)
<1>1. stack[t] = <<>> /\ Entry[t] \in Nodes /\ <<>> \in Seq(Frame) /\ status[t] = "new"
      /\ state[t] \in StateType /\ name \in [Turns -> Nodes \cup {None}]
      BY DispatchAssumption DEF Start, IInv, Fresh, Typed, StateType
<1>a. Dispatch(t, Entry[t], t, <<>>, name, state[t])
      BY DEF Start
<1>b. PICK f \in Frame : Opened(t, Entry[t], f, <<>>)
      BY <1>1, <1>a, DispatchStack
<1>2. /\ f.node = Entry[t] /\ f.pc = "execute"
      /\ stack' = [stack EXCEPT ![t] = <<f>> \o <<>>]
      /\ status' = [status EXCEPT ![t] = "running"]
      /\ <<f>> \o <<>> \in Seq(Frame) /\ <<f>> \o <<>> # <<>>
      BY <1>b DEF Opened
<1>3. Sound(Rank, t, <<f>> \o <<>>)
  <2>1. Len(<<f>> \o <<>>) = 1 /\ (<<f>> \o <<>>)[1] = f
        BY <1>1, Push
  <2>2. Rank[Entry[t]] \in Nat
        BY <1>1
  <2> QED BY <1>2, <2>1, <2>2 DEF Sound, Within, CallsMade
<1> QED BY <1>1, <1>2, <1>3, OneTurn

LEMMA CallForward ==
    ASSUME NEW Rank \in [Nodes -> Nat], NoCycle(Rank), Ranked(Rank), IInv, IInv',
           NEW t \in Turns, NEW n \in Nodes, Call(t, n)
    PROVE  Ranked(Rank)' /\ TurnsForward(Rank)
<1> DEFINE g == [Top(t) EXCEPT !.pc = "call", !.called = TRUE]
           below == <<g>> \o Tail(stack[t])
<1>1. /\ stack[t] # <<>> /\ Top(t).pc = "execute" /\ ~Top(t).called
      /\ n \in Config[Top(t).node].calls
      /\ Dispatch(t, n, instCtx[Top(t).node], below, name, state[t])
      BY DEF Call, Executing
<1>2. /\ stack[t] \in Seq(Frame) /\ Top(t) = stack[t][1] /\ Top(t) \in Frame
      /\ state[t] \in StateType /\ name \in [Turns -> Nodes \cup {None}]
      /\ instCtx[Top(t).node] \in Turns
      BY <1>1, TopOK DEF IInv, Typed, FrameOK
<1>3. /\ g \in Frame /\ g.pc = "call" /\ g.called /\ g.node = Top(t).node
      /\ g.attempt = Top(t).attempt
      BY <1>2 DEF Frame
<1> HIDE DEF g
<1>4. below \in Seq(Frame)
      BY <1>1, <1>2, <1>3, Push, Pop
<1> HIDE DEF below
<1>a. PICK f \in Frame : Opened(t, n, f, below)
      BY <1>1, <1>2, <1>4, DispatchStack
<1>5. /\ f.node = n /\ f.pc = "execute"
      /\ stack' = [stack EXCEPT ![t] = <<f>> \o below]
      /\ status' = [status EXCEPT ![t] = "running"]
      /\ <<f>> \o below \in Seq(Frame) /\ <<f>> \o below # <<>>
      BY <1>a DEF Opened
<1>6. Rank[n] < Rank[Top(t).node]
  <2>1. Top(t).node \in Nodes /\ n # None
        BY <1>2, DispatchAssumption DEF Frame
  <2> QED BY <1>1, <2>1 DEF NoCycle, LeadsTo
<1>7. /\ Sound(Rank, t, <<f>> \o below)
      /\ Lowered(Rank, <<f>> \o below, stack[t])
  <2>1. Sound(Rank, t, stack[t])
        BY DEF Ranked
  <2> QED BY <1>1, <1>2, <1>3, <1>5, <1>6, <2>1, CallLowers DEF below
<1>8. status[t] # "new"
      BY <1>1 DEF IInv, Fresh
<1> QED BY <1>1, <1>5, <1>7, <1>8, OneTurn

LEMMA BackOffForward ==
    ASSUME NEW Rank \in [Nodes -> Nat], Ranked(Rank), IInv,
           NEW t \in Turns, BackOff(t)
    PROVE  Ranked(Rank)' /\ TurnsForward(Rank)
<1>1. /\ stack[t] # <<>> /\ Top(t).pc = "execute"
      /\ stack[t] \in Seq(Frame) /\ Top(t) = stack[t][1] /\ Top(t) \in Frame
      BY TopOK DEF BackOff, Executing
<1>2. PICK failed \in BOOLEAN :
        stack' = [stack EXCEPT ![t] =
          <<[Head(Blamed(stack[t], failed)) EXCEPT !.pc = "backoff"]>>
            \o Tail(Blamed(stack[t], failed))]
      BY DEF BackOff
<1> DEFINE u == Blamed(stack[t], failed)
           f == [Head(u) EXCEPT !.pc = "backoff"]
<1>3. Alike(u, stack[t]) /\ u \in Seq(Frame)
      BY <1>1, BlamedAlike
<1> HIDE DEF u
<1>4. /\ Len(stack[t]) \in Nat \ {0} /\ u # <<>> /\ Head(u) = u[1] /\ Head(u) \in Frame
      /\ Tail(u) \in Seq(Frame)
      BY <1>1, <1>3, Pop DEF Alike
<1>5. Same(u[1], stack[t][1])
      BY <1>3, <1>4 DEF Alike
<1>6. f \in Frame /\ f.pc = "backoff" /\ f.node = u[1].node /\ f.attempt = u[1].attempt
      BY <1>4 DEF Frame
<1> HIDE DEF f
<1>7. Less(Rank, f, stack[t][1])
  <2>1. Moment(f) = 0
        BY <1>6 DEF Moment
  <2>2. Moment(stack[t][1]) \in {1, 3}
        BY <1>1 DEF Moment
  <2> QED BY <1>5, <1>6, <2>1, <2>2 DEF Less, Same
<1>8. Sound(Rank, t, <<f>> \o Tail(u)) /\ Lowered(Rank, <<f>> \o Tail(u), stack[t])
  <2>1. Sound(Rank, t, stack[t]) /\ f.pc # "call"
        BY <1>6 DEF Ranked
  <2> QED BY <1>1, <1>3, <1>6, <1>7, <2>1, ReplaceLowers
<1>9. <<f>> \o Tail(u) \in Seq(Frame) /\ <<f>> \o Tail(u) # <<>>
      BY <1>4, <1>6, Push
<1>10. status' = [status EXCEPT ![t] = "running"] /\ status[t] # "new"
  <2>1. status' = status /\ status[t] = "running" /\ status \in [Turns -> {"new", "running", "done", "raised"}]
        BY <1>1 DEF BackOff, Ranked, IInv, Typed
  <2> QED BY <2>1
<1>11. stack' = [stack EXCEPT ![t] = <<f>> \o Tail(u)]
      BY <1>2 DEF f, u
<1> QED BY <1>1, <1>8, <1>9, <1>10, <1>11, OneTurn

LEMMA RetryForward ==
    ASSUME NEW Rank \in [Nodes -> Nat], Ranked(Rank), IInv,
           NEW t \in Turns, Retry(t)
    PROVE  Ranked(Rank)' /\ TurnsForward(Rank)
<1>1. /\ stack[t] # <<>> /\ Top(t).pc = "backoff"
      /\ stack[t] \in Seq(Frame) /\ Top(t) = stack[t][1] /\ Top(t) \in Frame
      /\ instCtx[Top(t).node] \in Turns
      BY TopOK DEF Retry, FrameOK
<1> DEFINE f == [NextAttempt(Top(t)) EXCEPT
                   !.pc = "execute", !.called = FALSE, !.failed = FALSE,
                   !.llm = instCtx[Top(t).node]]
<1>2. stack' = [stack EXCEPT ![t] = <<f>> \o Tail(stack[t])]
      BY DEF Retry
<1>3. /\ f \in Frame /\ f.pc = "execute" /\ f.node = Top(t).node
      /\ f.attempt > Top(t).attempt
  <2>1. Top(t).attempt \in Nat \ {0} /\ Top(t).attempt + 1 \in Nat \ {0}
        BY <1>1 DEF Frame
  <2>2. /\ NextAttempt(Top(t)) \in Frame
        /\ NextAttempt(Top(t)).node = Top(t).node
        /\ NextAttempt(Top(t)).attempt = Top(t).attempt + 1
        BY <1>1, <2>1, NextAttemptOK DEF Frame, NextAttempt
  <2>3. /\ f \in Frame /\ f.pc = "execute" /\ f.node = NextAttempt(Top(t)).node
        /\ f.attempt = NextAttempt(Top(t)).attempt
        BY <1>1, <2>2 DEF Frame
  <2> HIDE DEF f
  <2> QED BY <2>1, <2>2, <2>3
<1> HIDE DEF f
<1>4. Less(Rank, f, stack[t][1])
      BY <1>1, <1>3 DEF Less
<1>5. Sound(Rank, t, <<f>> \o Tail(stack[t])) /\ Lowered(Rank, <<f>> \o Tail(stack[t]), stack[t])
  <2>1. Sound(Rank, t, stack[t]) /\ f.pc # "call" /\ Alike(stack[t], stack[t])
        BY <1>3 DEF Ranked, Alike, Same
  <2> QED BY <1>1, <1>3, <1>4, <2>1, ReplaceLowers
<1>6. <<f>> \o Tail(stack[t]) \in Seq(Frame) /\ <<f>> \o Tail(stack[t]) # <<>>
      BY <1>1, <1>3, Push, Pop
<1>7. status' = [status EXCEPT ![t] = "running"] /\ status[t] # "new"
  <2>1. status' = status /\ status[t] = "running" /\ status \in [Turns -> {"new", "running", "done", "raised"}]
        BY <1>1 DEF Retry, Ranked, IInv, Typed
  <2> QED BY <2>1
<1> QED BY <1>1, <1>2, <1>5, <1>6, <1>7, OneTurn

LEMMA LeaveForward ==
    ASSUME NEW Rank \in [Nodes -> Nat], Ranked(Rank), IInv, NEW t \in Turns,
           stack[t] # <<>>, NEW u \in Seq(Frame), Alike(u, stack[t]),
           NEW names, NEW s, NEW how \in {"done", "raised"},
           Leave(t, Tail(u), names, s, how)
    PROVE  Ranked(Rank)' /\ TurnsForward(Rank)
<1> DEFINE r == <<[Head(Tail(u)) EXCEPT !.pc = "execute"]>> \o Tail(Tail(u))
<1>1. stack[t] \in Seq(Frame) /\ Sound(Rank, t, stack[t]) /\ status[t] # "new"
      BY DEF Ranked, IInv, Typed
<1>2. CASE Tail(u) = <<>>
  <2>1. /\ stack' = [stack EXCEPT ![t] = <<>>]
        /\ status' = [status EXCEPT ![t] = how]
        BY <1>2 DEF Leave
  <2>2. <<>> \in Seq(Frame) /\ Lowered(Rank, <<>>, stack[t]) /\ Sound(Rank, t, <<>>)
        BY DEF Lowered, Sound, Within, CallsMade
  <2> QED BY <1>1, <2>1, <2>2, OneTurn
<1>3. CASE Tail(u) # <<>>
  <2>1. /\ stack' = [stack EXCEPT ![t] = r]
        /\ status' = [status EXCEPT ![t] = "running"]
        BY <1>3 DEF Leave
  <2>2. Sound(Rank, t, r) /\ Lowered(Rank, r, stack[t]) /\ r # <<>>
        BY <1>1, <1>3, ReturnLowers
  <2>3. r \in Seq(Frame)
    <3>1. Len(stack[t]) \in Nat \ {0} /\ u # <<>> /\ Tail(u) \in Seq(Frame)
          BY <1>1, Pop DEF Alike
    <3>2. Head(Tail(u)) \in Frame /\ Tail(Tail(u)) \in Seq(Frame)
          BY <1>3, <3>1, Pop
    <3>3. [Head(Tail(u)) EXCEPT !.pc = "execute"] \in Frame
          BY <3>2 DEF Frame
    <3> QED BY <3>2, <3>3, Push
  <2> HIDE DEF r
  <2> QED BY <1>1, <2>1, <2>2, <2>3, OneTurn
<1> QED BY <1>2, <1>3

LEMMA RaiseForward ==
    ASSUME NEW Rank \in [Nodes -> Nat], Ranked(Rank), IInv,
           NEW t \in Turns, Raise(t)
    PROVE  Ranked(Rank)' /\ TurnsForward(Rank)
<1> DEFINE u == Blamed(stack[t], TRUE)
<1>1. stack[t] # <<>> /\ stack[t] \in Seq(Frame)
      BY DEF Raise, IInv, Typed
<1>2. Alike(u, stack[t]) /\ u \in Seq(Frame)
      BY <1>1, BlamedAlike
<1>3. Leave(t, Tail(u), Restored(Top(t)), state[t], "raised")
      BY DEF Raise
<1> HIDE DEF u
<1> QED BY <1>1, <1>2, <1>3, LeaveForward

LEMMA CompleteForward ==
    ASSUME NEW Rank \in [Nodes -> Nat], NoCycle(Rank), Ranked(Rank), IInv, IInv',
           NEW t \in Turns, Complete(t)
    PROVE  Ranked(Rank)' /\ TurnsForward(Rank)
<1>1. /\ stack[t] # <<>> /\ Top(t).pc = "execute"
      /\ stack[t] \in Seq(Frame) /\ Top(t) = stack[t][1] /\ Top(t) \in Frame
      /\ Top(t).node \in Nodes /\ Top(t).ctx \in Turns
      /\ Top(t).prev \in Nodes \cup {None}
      /\ name \in [Turns -> Nodes \cup {None}] /\ state[t] \in StateType
      BY TopOK DEF Complete, Executing, IInv, Typed, Frame
<1>2. PICK failed \in BOOLEAN, route \in Config[Top(t).node].routes,
           resolved \in Config[Top(t).node].next :
        LET s == Executed(t, failed, route)
            below == Tail(Blamed(stack[t], failed))
            next == NextNode(Top(t).node, s, resolved)
        IN  \/ /\ next # None
               /\ Dispatch(t, next, Top(t).ctx, below, Restored(Top(t)),
                           Handled(Top(t).node, s))
            \/ /\ next = None
               /\ Leave(t, below, Restored(Top(t)), Handled(Top(t).node, s), "done")
      BY DEF Complete, Resolved
<1> DEFINE u == Blamed(stack[t], failed)
           s == Executed(t, failed, route)
           next == NextNode(Top(t).node, s, resolved)
<1>3. Alike(u, stack[t]) /\ u \in Seq(Frame)
      BY <1>1, BlamedAlike
<1>4. /\ Handled(Top(t).node, s) \in StateType
      /\ Restored(Top(t)) \in [Turns -> Nodes \cup {None}]
  <2>1. route \in Nodes \cup {None}
        BY <1>1, DispatchAssumption DEF ConfigType
  <2>2. s \in StateType
        BY <1>1, <2>1 DEF Executed, StateType
  <2> HIDE DEF s
  <2> QED BY <1>1, <2>2, NextNodeType DEF Restored
<1>5. next # None => next \in Nodes /\ Rank[next] < Rank[Top(t).node]
      BY <1>1, NextBelow
<1> HIDE DEF u, s
<1>6. CASE /\ next # None
           /\ Dispatch(t, next, Top(t).ctx, Tail(u), Restored(Top(t)),
                       Handled(Top(t).node, s))
  <2>1. /\ Len(stack[t]) \in Nat \ {0} /\ u # <<>> /\ Tail(u) \in Seq(Frame)
        BY <1>1, <1>3, Pop DEF Alike
  <2>2. next \in Nodes /\ Rank[next] < Rank[Top(t).node]
        BY <1>5, <1>6
  <2> HIDE DEF next
  <2>3. PICK f \in Frame : Opened(t, next, f, Tail(u))
        BY <1>1, <1>4, <1>6, <2>1, <2>2, DispatchStack
  <2>4. /\ f.node = next /\ f.pc # "call"
        /\ stack' = [stack EXCEPT ![t] = <<f>> \o Tail(u)]
        /\ status' = [status EXCEPT ![t] = "running"]
        /\ <<f>> \o Tail(u) \in Seq(Frame) /\ <<f>> \o Tail(u) # <<>>
        BY <2>3 DEF Opened
  <2>5. Less(Rank, f, stack[t][1])
        BY <1>1, <2>2, <2>4 DEF Less
  <2>6. Sound(Rank, t, stack[t]) /\ status[t] # "new"
        BY <1>1 DEF Ranked
  <2>7. Sound(Rank, t, <<f>> \o Tail(u)) /\ Lowered(Rank, <<f>> \o Tail(u), stack[t])
        BY <1>1, <1>3, <2>4, <2>5, <2>6, ReplaceLowers
  <2> QED BY <1>1, <2>4, <2>6, <2>7, OneTurn
<1>7. CASE Leave(t, Tail(u), Restored(Top(t)), Handled(Top(t).node, s), "done")
      BY <1>1, <1>3, <1>7, LeaveForward
<1> QED BY <1>2, <1>6, <1>7 DEF u, s

LEMMA RankedNext ==
    ASSUME NEW Rank \in [Nodes -> Nat], NoCycle(Rank), Ranked(Rank), IInv, [Next]_vars
    PROVE  Ranked(Rank)' /\ [TurnsForward(Rank)]_vars
<1>0. IInv'
      BY NextOK
<1>1. ASSUME NEW t \in Turns, Start(t) \/ Step(t)
      PROVE  Ranked(Rank)' /\ TurnsForward(Rank)
      BY <1>0, <1>1, StartForward, CallForward, BackOffForward, RetryForward,
         CompleteForward, RaiseForward DEF Step
<1>2. CASE UNCHANGED vars
      BY <1>2 DEF vars, Ranked, Sound, Within, CallsMade
<1> QED BY <1>1, <1>2 DEF Next

\* Where no routing block, route(), call or fallback leads back to a node, the
\* open dispatches of a turn are of ever lower nodes, so they are no more than
\* the nodes on a path from the entry node; and each step of a turn lowers its
\* stack or ends it: a dispatch goes on in its attempt, to the next attempt of
\* those configured or to a lower node, or returns (NodeController.dispatch,
\* execute_with_retry).
THEOREM TurnsGoDown ==
    ASSUME NEW CONSTANT Rank \in [Nodes -> Nat], NoCycle(Rank)
    PROVE  Spec => /\ [](\A t \in Turns : Within(Rank, t, stack[t]))
                   /\ [][TurnsForward(Rank)]_vars
<1>1. Init => Ranked(Rank)
  <2> SUFFICES ASSUME Init, NEW t \in Turns
               PROVE  Sound(Rank, t, stack[t]) /\ (status[t] = "running" <=> stack[t] # <<>>)
      BY DEF Ranked
  <2>1. stack[t] = <<>> /\ status[t] = "new"
        BY DEF Init
  <2>2. Sound(Rank, t, <<>>)
        BY DEF Sound, Within, CallsMade
  <2> QED BY <2>1, <2>2
<1>2. IInv /\ Ranked(Rank) /\ [Next]_vars => Ranked(Rank)' /\ [TurnsForward(Rank)]_vars
      BY RankedNext
<1>3. Ranked(Rank) => \A t \in Turns : Within(Rank, t, stack[t])
      BY DEF Ranked, Sound
<1> QED BY <1>1, <1>2, <1>3, InitIInv, NextOK, PTL DEF Spec


\* What a turn that runs can do: its innermost dispatch executes or pauses, and
\* so it returns, raises or tries again.
CanGoOn(t) ==
    status[t] = "running" => stack[t] # <<>> /\ Top(t).pc \in {"execute", "backoff"}

\* A turn that runs has a dispatch open, and the innermost one executes or
\* pauses.
Awake ==
    \A t \in Turns : /\ status[t] = "running" <=> stack[t] # <<>>
                     /\ stack[t] # <<>> => stack[t][1].pc \in {"execute", "backoff"}

LEMMA AwakeNext == IInv /\ IInv' /\ Awake /\ [Next]_vars => Awake'
<1> SUFFICES ASSUME IInv, IInv', Awake, [Next]_vars PROVE Awake'
    OBVIOUS
<1>0. /\ stack \in [Turns -> Seq(Frame)] /\ DOMAIN status = Turns
      /\ status \in [Turns -> {"new", "running", "done", "raised"}]
      /\ \A u \in Turns : stack'[u] \in Seq(Frame)
      BY DEF IInv, Typed
<1>1. ASSUME NEW t \in Turns, NEW f \in Frame, f.pc \in {"execute", "backoff"},
             NEW below \in Seq(Frame), <<f>> \o below \in Seq(Frame),
             stack' = [stack EXCEPT ![t] = <<f>> \o below],
             status' = [status EXCEPT ![t] = "running"]
      PROVE  Awake'
  <2>1. (<<f>> \o below)[1] = f /\ <<f>> \o below # <<>>
        OBVIOUS
  <2> QED BY <1>0, <1>1, <2>1 DEF Awake
<1>2. ASSUME NEW t \in Turns, NEW n \in Nodes, NEW c, NEW below \in Seq(Frame),
             NEW names, NEW s, Dispatch(t, n, c, below, names, s)
      PROVE  Awake'
  <2> DEFINE f == [node |-> n, ctx |-> c, llm |-> instCtx'[n], prev |-> names[c],
                   attempt |-> 1, pc |-> "execute", called |-> FALSE,
                   failed |-> FALSE, inherited |-> s.error]
  <2>1. /\ stack' = [stack EXCEPT ![t] = <<f>> \o below]
        /\ status' = [status EXCEPT ![t] = "running"]
        BY <1>2 DEF Dispatch
  <2>2. <<f>> \o below \in Seq(Frame) /\ f.pc = "execute"
        BY <1>0, <2>1
  <2> HIDE DEF f
  <2>3. f \in Frame
    <3>1. 1 \in 1 .. Len(<<f>> \o below) /\ (<<f>> \o below)[1] = f
          OBVIOUS
    <3> QED BY <2>2, <3>1
  <2> QED BY <1>1, <2>1, <2>2, <2>3
<1>3. ASSUME NEW t \in Turns, NEW below \in Seq(Frame), NEW names, NEW s,
             NEW how \in {"done", "raised"}, Leave(t, below, names, s, how)
      PROVE  Awake'
  <2>1. CASE below = <<>>
    <3>1. stack' = [stack EXCEPT ![t] = <<>>] /\ status' = [status EXCEPT ![t] = how]
          BY <1>3, <2>1 DEF Leave
    <3> QED BY <1>0, <3>1 DEF Awake
  <2>2. CASE below # <<>>
    <3> DEFINE f == [Head(below) EXCEPT !.pc = "execute"]
    <3>1. Head(below) \in Frame /\ Tail(below) \in Seq(Frame)
          BY <2>2, Pop
    <3>2. f \in Frame /\ f.pc = "execute"
          BY <3>1 DEF Frame
    <3>3. /\ stack' = [stack EXCEPT ![t] = <<f>> \o Tail(below)]
          /\ status' = [status EXCEPT ![t] = "running"]
          BY <1>3, <2>2 DEF Leave
    <3> HIDE DEF f
    <3> QED BY <1>1, <3>1, <3>2, <3>3, Push
  <2> QED BY <2>1, <2>2
<1>4. ASSUME NEW t \in Turns, Start(t) PROVE Awake'
  <2>1. Entry[t] \in Nodes /\ <<>> \in Seq(Frame)
        BY DispatchAssumption
  <2> QED BY <1>2, <1>4, <2>1 DEF Start
<1>5. ASSUME NEW t \in Turns, NEW n \in Nodes, Call(t, n) PROVE Awake'
  <2> DEFINE g == [Top(t) EXCEPT !.pc = "call", !.called = TRUE]
  <2>1. stack[t] # <<>> /\ Top(t) \in Frame /\ Tail(stack[t]) \in Seq(Frame)
        BY <1>0, <1>5, TopOK, Pop DEF Call, Executing
  <2>2. g \in Frame
        BY <2>1 DEF Frame
  <2>3. Dispatch(t, n, instCtx[Top(t).node], <<g>> \o Tail(stack[t]), name, state[t])
        BY <1>5 DEF Call
  <2> HIDE DEF g
  <2> QED BY <1>2, <2>1, <2>2, <2>3, Push
<1>6. ASSUME NEW t \in Turns, BackOff(t) PROVE Awake'
  <2>1. PICK failed \in BOOLEAN :
          stack' = [stack EXCEPT ![t] =
            <<[Head(Blamed(stack[t], failed)) EXCEPT !.pc = "backoff"]>>
              \o Tail(Blamed(stack[t], failed))]
        BY <1>6 DEF BackOff
  <2> DEFINE u == Blamed(stack[t], failed)
             f == [Head(u) EXCEPT !.pc = "backoff"]
  <2>2. stack[t] # <<>> /\ stack[t] \in Seq(Frame)
        BY <1>0, <1>6 DEF BackOff, Executing
  <2>3. u \in Seq(Frame) /\ Len(u) = Len(stack[t])
        BY <2>2, BlamedStack
  <2> HIDE DEF u
  <2>4. u # <<>>
        BY <2>2, <2>3
  <2>5. Head(u) \in Frame /\ Tail(u) \in Seq(Frame)
        BY <2>3, <2>4, Pop
  <2>6. f \in Frame /\ f.pc = "backoff"
        BY <2>5 DEF Frame
  <2>7. stack' = [stack EXCEPT ![t] = <<f>> \o Tail(u)]
        BY <2>1 DEF u
  <2>8. status' = [status EXCEPT ![t] = "running"]
    <3>1. status' = status /\ status[t] = "running"
          BY <1>6, <2>2 DEF BackOff, Awake
    <3> QED BY <1>0, <3>1
  <2> HIDE DEF f
  <2> QED BY <1>1, <2>5, <2>6, <2>7, <2>8, Push
<1>7. ASSUME NEW t \in Turns, Retry(t) PROVE Awake'
  <2> DEFINE f == [NextAttempt(Top(t)) EXCEPT
                     !.pc = "execute", !.called = FALSE, !.failed = FALSE,
                     !.llm = instCtx[Top(t).node]]
  <2>1. stack[t] # <<>> /\ Top(t) \in Frame /\ Tail(stack[t]) \in Seq(Frame)
        BY <1>0, <1>7, TopOK, Pop DEF Retry
  <2>2. stack' = [stack EXCEPT ![t] = <<f>> \o Tail(stack[t])]
        BY <1>7 DEF Retry
  <2>3. f \in Frame /\ f.pc = "execute"
    <3>1. NextAttempt(Top(t)) \in Frame /\ instCtx[Top(t).node] \in Turns
          BY <2>1, NextAttemptOK, TopOK DEF FrameOK
    <3> QED BY <3>1 DEF Frame
  <2>4. status' = [status EXCEPT ![t] = "running"]
    <3>1. status' = status /\ status[t] = "running"
          BY <1>7, <2>1 DEF Retry, Awake
    <3> QED BY <1>0, <3>1
  <2>5. <<f>> \o Tail(stack[t]) \in Seq(Frame)
        BY <1>0, <2>2
  <2> HIDE DEF f
  <2> QED BY <1>1, <2>1, <2>2, <2>3, <2>4, <2>5
<1>8. ASSUME NEW t \in Turns, Complete(t) PROVE Awake'
  <2>1. stack[t] # <<>> /\ stack[t] \in Seq(Frame) /\ Top(t).node \in Nodes
        /\ state[t] \in StateType
        BY <1>8, TopOK DEF Complete, Executing, Frame
  <2>2. PICK failed \in BOOLEAN, route \in Config[Top(t).node].routes,
             resolved \in Config[Top(t).node].next :
          LET s == Executed(t, failed, route)
              below == Tail(Blamed(stack[t], failed))
              next == NextNode(Top(t).node, s, resolved)
          IN  \/ /\ next # None
                 /\ Dispatch(t, next, Top(t).ctx, below, Restored(Top(t)),
                             Handled(Top(t).node, s))
              \/ /\ next = None
                 /\ Leave(t, below, Restored(Top(t)), Handled(Top(t).node, s), "done")
        BY <1>8 DEF Complete, Resolved
  <2> DEFINE u == Blamed(stack[t], failed)
             s == Executed(t, failed, route)
             next == NextNode(Top(t).node, s, resolved)
  <2>3. Tail(u) \in Seq(Frame)
    <3>1. u \in Seq(Frame) /\ Len(u) = Len(stack[t])
          BY <2>1, BlamedStack
    <3> HIDE DEF u
    <3> QED BY <2>1, <3>1, Pop
  <2>4. next \in Nodes \cup {None}
    <3>1. route \in Nodes \cup {None}
          BY <2>1, DispatchAssumption DEF ConfigType
    <3>2. s \in StateType
          BY <2>1, <3>1 DEF Executed, StateType
    <3> HIDE DEF s
    <3> QED BY <2>1, <3>2, NextNodeType
  <2> HIDE DEF u, s, next
  <2> QED BY <1>2, <1>3, <2>2, <2>3, <2>4 DEF u, s, next
<1>9. ASSUME NEW t \in Turns, Raise(t) PROVE Awake'
  <2> DEFINE u == Blamed(stack[t], TRUE)
  <2>1. stack[t] # <<>> /\ stack[t] \in Seq(Frame)
        BY <1>0, <1>9 DEF Raise
  <2>2. Tail(u) \in Seq(Frame)
    <3>1. u \in Seq(Frame) /\ Len(u) = Len(stack[t])
          BY <2>1, BlamedStack
    <3> HIDE DEF u
    <3> QED BY <2>1, <3>1, Pop
  <2>3. Leave(t, Tail(u), Restored(Top(t)), state[t], "raised")
        BY <1>9 DEF Raise
  <2> HIDE DEF u
  <2> QED BY <1>3, <2>2, <2>3
<1>10. CASE UNCHANGED vars
      BY <1>10 DEF vars, Awake
<1> QED BY <1>4, <1>5, <1>6, <1>7, <1>8, <1>9, <1>10 DEF Next, Step

\* Whatever the routing: a turn that runs can always go on.  Its innermost
\* dispatch executes, or is in the pause before a retry; it never waits for a
\* call that has already come back or for another turn.
THEOREM TurnsNotStuck == Spec => [](\A t \in Turns : CanGoOn(t))
<1>1. Init => Awake
      BY DEF Init, Awake
<1>2. IInv /\ Awake => \A t \in Turns : CanGoOn(t)
  <2> SUFFICES ASSUME IInv, Awake, NEW t \in Turns, status[t] = "running"
               PROVE  stack[t] # <<>> /\ Top(t).pc \in {"execute", "backoff"}
      BY DEF CanGoOn
  <2>1. stack[t] # <<>>
        BY DEF Awake
  <2>2. Top(t) = stack[t][1]
        BY <2>1, TopOK
  <2> QED BY <2>1, <2>2 DEF Awake
<1> QED BY <1>1, <1>2, InitIInv, NextOK, AwakeNext, PTL DEF Spec

-----------------------------------------------------------------------------
(* UsageMetering: what a license's quota and the event backend's breaker   *)
(* hold on to, for any number of requests, months, faults and watchers.    *)

Phases == {"idle", "asking", "answered", "permitted", "denied", "working", "done", "failed"}
Places == {"none", "notified", "skipped", "tracking", "adding", "reading", "counted", "lost", "forgotten"}

MeterTypes ==
    /\ tracker \in {"memory", "storage"}
    /\ now \in 1 .. MaxTime
    /\ req \in [Requests -> [pc : Phases, window : Nat, seen : Nat]]
    /\ note \in [Requests -> [pc : Places, window : Nat]]
    /\ count \in [Months -> Nat]
    /\ health \in [failures : Nat, open : Nat]
    /\ watcher \in [pc : {"idle", "notifying", "failing"}, seen : Nat]
    /\ errors \in Nat
    /\ knew \in [Requests -> SUBSET Requests]
    /\ late \in [Requests -> SUBSET Requests]
    /\ \A r \in Requests :
          /\ req[r].pc \in {"asking", "answered", "permitted", "working", "done"} => req[r].window \in Months
          /\ note[r].pc \in {"adding", "reading", "counted"} => note[r].window \in Months

\* The errors a writer of the failures has read have all been counted, and
\* while the watcher emits the backend is open to it.
ErrorsHeld ==
    /\ health.failures <= errors
    /\ watcher.pc = "failing" => watcher.seen <= errors
    /\ watcher.pc # "idle" => health.open = 0
    /\ OutageIsEarned

\* A counter never has less than the requests that were counted in it, and
\* neither had what a request has read.
CountsHeld ==
    /\ \A m \in Months :
          IsFiniteSet(CountedIn(m)) /\ Cardinality(CountedIn(m)) <= count[m]
    /\ \A r \in Requests : req[r].pc = "answered" =>
          IsFiniteSet(knew[r]) /\ Cardinality(knew[r]) <= req[r].seen
    /\ \A r \in Requests : note[r].pc # "none" => req[r].pc = "done"

\* However some of those let in fail later: among any more than the quota and
\* one there is one that was let in late.
LateHeld ==
    \A m \in Months : \A S \in SUBSET Used(m) :
        (\A r \in S : late[r] = {}) => IsFiniteSet(S) /\ Cardinality(S) <= Limit + 1

MeterInv == MeterTypes /\ ErrorsHeld /\ CountsHeld /\ LateHeld
\* The months of the clock.
LEMMA MonthsNat ==
    /\ \A m \in Months : m \in Nat
    /\ MeterTypes => Month \in Months
<1>1. ASSUME NEW t \in 1 .. MaxTime PROVE t \div MonthLength \in Nat
  BY MeteringAssumption
<1> QED BY <1>1 DEF Months, Month, MonthOf, MeterTypes

\* Where the backend is healthy again it starts from nothing.
LEMMA EmitsKeep ==
    ASSUME MeterTypes, ErrorsHeld, NEW k \in Nat, Emits(k), UNCHANGED watcher
    PROVE  /\ health' \in [failures : Nat, open : Nat] /\ errors' \in Nat
           /\ ErrorsHeld'
<1> USE MeteringAssumption
<1>1. /\ health \in [failures : Nat, open : Nat] /\ errors \in Nat /\ watcher.seen \in Nat
      /\ watcher \in [pc : {"idle", "notifying", "failing"}, seen : Nat]
  BY DEF MeterTypes
<1>2. CASE Healthy
  <2>1. CASE health.open = 0
    <3>1. /\ health'.failures = IF health.failures > k THEN health.failures - k ELSE 0
          /\ health'.open = 0 /\ errors' = errors /\ health' \in [failures : Nat, open : Nat]
      BY <1>1, <1>2, <2>1 DEF Emits, Decays, Checks
    <3> QED BY <1>1, <3>1 DEF ErrorsHeld, OutageIsEarned
  <2>2. CASE health.open # 0
    <3>1. health' = [failures |-> 0, open |-> 0] /\ errors' = 0
      BY <1>1, <1>2, <2>2 DEF Emits, Decays, Checks
    <3> QED BY <1>1, <2>2, <3>1 DEF ErrorsHeld, OutageIsEarned
  <2> QED BY <2>1, <2>2
<1>3. CASE ~Healthy
  BY <1>1, <1>3 DEF Emits, breaker, ErrorsHeld, OutageIsEarned
<1> QED BY <1>2, <1>3

LEMMA DecidesEmits ==
    ASSUME NEW r, NEW m, NEW usage, NEW counted, Decides(r, m, usage, counted)
    PROVE  \E k \in Nat : Emits(k)
<1>1. Warned(usage) + 1 \in Nat /\ Warned(usage) + 2 \in Nat
  BY DEF Warned
<1> QED BY <1>1 DEF Decides

LEMMA ErrorsNext ==
    ASSUME MeterTypes, ErrorsHeld, MeterNext
    PROVE  /\ health' \in [failures : Nat, open : Nat] /\ errors' \in Nat
           /\ watcher' \in [pc : {"idle", "notifying", "failing"}, seen : Nat]
           /\ ErrorsHeld'
<1> USE MeteringAssumption DEF clock, breaker, thread, history
<1>1. /\ health \in [failures : Nat, open : Nat] /\ errors \in Nat /\ now \in Nat
      /\ watcher \in [pc : {"idle", "notifying", "failing"}, seen : Nat]
  BY DEF MeterTypes
<1>2. CASE UNCHANGED <<breaker, thread>>
  BY <1>1, <1>2 DEF ErrorsHeld, OutageIsEarned
<1>3. ASSUME NEW k \in Nat, Emits(k), UNCHANGED watcher
      PROVE  /\ health' \in [failures : Nat, open : Nat] /\ errors' \in Nat
             /\ watcher' \in [pc : {"idle", "notifying", "failing"}, seen : Nat]
             /\ ErrorsHeld'
  BY <1>1, <1>3, EmitsKeep
<1>4. ASSUME NEW r \in Requests, Validate(r) \/ ReadsUsage(r) \/ CheckFails(r) \/ Decide(r)
                                 \/ Begin(r) \/ NodeDone(r) \/ WorkFails(r)
      PROVE  UNCHANGED <<breaker, thread>> \/ ((\E k \in Nat : Emits(k)) /\ UNCHANGED watcher)
  <2>1. 1 \in Nat
    OBVIOUS
  <2>2. CASE Validate(r)
    BY <2>2, DecidesEmits DEF Validate
  <2>3. CASE Decide(r)
    BY <2>3, DecidesEmits DEF Decide
  <2> QED BY <1>4, <2>1, <2>2, <2>3 DEF ReadsUsage, CheckFails, Begin, NodeDone, WorkFails
<1>5. CASE \E r \in Requests : Trips(r)
  <2>1. health.open # 0 /\ watcher.pc = "idle" /\ watcher' = [watcher EXCEPT !.pc = "notifying"]
        /\ health' = [failures |-> 0, open |-> 0] /\ errors' = 0
    BY <1>5 DEF Trips, Checks
  <2> QED BY <1>1, <2>1 DEF ErrorsHeld, OutageIsEarned
<1>6. CASE \E r \in Requests : OnEvent(r) \/ Track(r) \/ Add(r) \/ AddFails(r) \/ Reread(r)
  BY <1>2, <1>6 DEF OnEvent, Track, Add, AddFails, Reread
<1>7. CASE WatcherEmits
  <2>1. CASE Healthy /\ health.open = 0
    BY <1>1, <1>7, <2>1 DEF WatcherEmits, Checks, ErrorsHeld, OutageIsEarned
  <2>2. CASE Healthy /\ health.open # 0
    <3>1. health' = [failures |-> 0, open |-> 0] /\ errors' = 0 /\ watcher' = [watcher EXCEPT !.pc = "notifying"]
      BY <1>7, <2>2 DEF WatcherEmits, Checks
    <3> QED BY <1>1, <3>1 DEF ErrorsHeld, OutageIsEarned
  <2>3. CASE ~Healthy
    BY <1>1, <1>7, <2>3 DEF WatcherEmits, ErrorsHeld, OutageIsEarned
  <2> QED BY <2>1, <2>2, <2>3
<1>8. CASE WatcherDelivers
  <2>1. /\ health'.failures = IF health.failures > 1 THEN health.failures - 1 ELSE 0
        /\ health'.open = health.open /\ health' \in [failures : Nat, open : Nat]
        /\ watcher' = [watcher EXCEPT !.pc = "idle"] /\ errors' = errors
    BY <1>1, <1>8 DEF WatcherDelivers, Decays
  <2> QED BY <1>1, <2>1 DEF ErrorsHeld, OutageIsEarned
<1>9. CASE WatcherFails
  BY <1>1, <1>9 DEF WatcherFails, ErrorsHeld, OutageIsEarned
<1>10. CASE WatcherRecords
  <2>1. /\ watcher.seen <= errors /\ health.open = 0 /\ errors' = errors + 1
        /\ watcher' = [pc |-> "idle", seen |-> 0]
        /\ health' = [failures |-> watcher.seen + 1,
                      open |-> IF watcher.seen + 1 >= FailureThreshold THEN now + ResetTimeout ELSE health.open]
    BY <1>10 DEF WatcherRecords, ErrorsHeld
  <2> QED BY <1>1, <2>1 DEF ErrorsHeld, OutageIsEarned
<1>11. CASE Reset \/ Tick
  BY <1>2, <1>11 DEF Reset, Tick
<1>12. CASE Crash
  BY <1>1, <1>12 DEF Crash, ErrorsHeld, OutageIsEarned
<1> QED
  BY <1>2, <1>3, <1>4, <1>5, <1>6, <1>7, <1>8, <1>9, <1>10, <1>11, <1>12 DEF MeterNext

-----------------------------------------------------------------------------
(* The types, request by request and note by note.                         *)

ReqTypes ==
    /\ req \in [Requests -> [pc : Phases, window : Nat, seen : Nat]]
    /\ knew \in [Requests -> SUBSET Requests]
    /\ late \in [Requests -> SUBSET Requests]
    /\ \A r \in Requests :
          req[r].pc \in {"asking", "answered", "permitted", "working", "done"} => req[r].window \in Months

NoteTypes ==
    /\ tracker \in {"memory", "storage"}
    /\ now \in 1 .. MaxTime
    /\ note \in [Requests -> [pc : Places, window : Nat]]
    /\ count \in [Months -> Nat]
    /\ \A r \in Requests :
          note[r].pc \in {"adding", "reading", "counted"} => note[r].window \in Months

LEMMA DecidesTypes ==
    ASSUME MeterTypes, NEW r \in Requests, NEW m \in Months, NEW usage \in Nat, NEW counted,
           Decides(r, m, usage, counted), UNCHANGED knew
    PROVE  ReqTypes'
<1>1. ReqTypes /\ m \in Nat
  BY MonthsNat DEF MeterTypes, ReqTypes
<1>2. CASE Allows(usage)
  <2>1. /\ req' = [req EXCEPT ![r] = [pc |-> "permitted", window |-> m, seen |-> usage]]
        /\ late' = [late EXCEPT ![r] = Used(m) \ counted]
    BY <1>2 DEF Decides
  <2>2. Used(m) \ counted \in SUBSET Requests
    BY DEF Used
  <2> QED BY <1>1, <2>1, <2>2 DEF ReqTypes, Phases
<1>3. CASE ~Allows(usage)
  BY <1>1, <1>3 DEF Decides, ReqTypes, Phases
<1> QED BY <1>2, <1>3

LEMMA ReqNext ==
    ASSUME MeterTypes, MeterNext
    PROVE  ReqTypes'
<1> USE DEF clock, breaker, thread, history
<1>1. ReqTypes /\ Month \in Months /\ Month \in Nat /\ count \in [Months -> Nat]
  BY MonthsNat DEF MeterTypes, ReqTypes
<1>2. CASE UNCHANGED <<req, knew, late>>
  BY <1>1, <1>2 DEF ReqTypes
<1>3. ASSUME NEW r \in Requests, NEW p \in {"denied", "working", "done", "failed"},
             req' = [req EXCEPT ![r].pc = p], UNCHANGED <<knew, late>>,
             p \in {"working", "done"} => req[r].pc \in {"permitted", "working"}
      PROVE  ReqTypes'
  BY <1>1, <1>3 DEF ReqTypes, Phases
<1>4. ASSUME NEW r \in Requests, Validate(r)
      PROVE  ReqTypes'
  <2>1. CASE tracker = "memory"
    <3>1. count[Month] \in Nat
      BY <1>1
    <3> QED BY <1>1, <1>4, <2>1, <3>1, DecidesTypes DEF Validate
  <2>2. CASE tracker # "memory"
    BY <1>1, <1>4, <2>2 DEF Validate, ReqTypes, Phases
  <2> QED BY <2>1, <2>2
<1>5. ASSUME NEW r \in Requests, ReadsUsage(r)
      PROVE  ReqTypes'
  <2>1. req[r].window \in Months /\ count[req[r].window] \in Nat
    BY <1>1, <1>5 DEF ReadsUsage, ReqTypes
  <2>2. CountedIn(req[r].window) \in SUBSET Requests
    BY DEF CountedIn
  <2>3. knew' \in [Requests -> SUBSET Requests] /\ late' = late
    BY <1>1, <1>5, <2>2 DEF ReadsUsage, ReqTypes
  <2>4. /\ req' = [req EXCEPT ![r].pc = "answered", ![r].seen = count[req[r].window]]
        /\ req[r].window \in Months
    BY <1>5, <2>1 DEF ReadsUsage
  <2>5. req' \in [Requests -> [pc : Phases, window : Nat, seen : Nat]]
    <3> DEFINE v == [req[r] EXCEPT !.pc = "answered", !.seen = count[req[r].window]]
    <3>1. req \in [Requests -> [pc : Phases, window : Nat, seen : Nat]]
      BY <1>1 DEF ReqTypes
    <3>2. v \in [pc : Phases, window : Nat, seen : Nat]
      BY <2>1, <3>1 DEF Phases
    <3>3. req' = [req EXCEPT ![r] = v]
      BY <2>4
    <3> HIDE DEF v
    <3> QED BY <3>1, <3>2, <3>3
  <2>6. \A q \in Requests : req'[q].window = req[q].window /\ (q # r => req'[q].pc = req[q].pc)
    BY <1>1, <2>4 DEF ReqTypes
  <2> QED BY <1>1, <2>3, <2>4, <2>5, <2>6 DEF ReqTypes
<1>6. ASSUME NEW r \in Requests, Decide(r)
      PROVE  ReqTypes'
  <2>1. req[r].window \in Months /\ req[r].seen \in Nat
    BY <1>1, <1>6 DEF Decide, ReqTypes
  <2> QED BY <1>6, <2>1, DecidesTypes DEF Decide
<1>7. ASSUME NEW r \in Requests, CheckFails(r) \/ Begin(r) \/ NodeDone(r) \/ WorkFails(r) \/ Trips(r)
      PROVE  ReqTypes'
  BY <1>3, <1>7 DEF CheckFails, Begin, NodeDone, WorkFails, Trips
<1>8. CASE \E r \in Requests : OnEvent(r) \/ Track(r) \/ Add(r) \/ AddFails(r) \/ Reread(r)
  BY <1>2, <1>8 DEF OnEvent, Track, Add, AddFails, Reread
<1>9. CASE WatcherEmits \/ WatcherDelivers \/ WatcherFails \/ WatcherRecords \/ Reset \/ Tick
  BY <1>2, <1>9 DEF WatcherEmits, WatcherDelivers, WatcherFails, WatcherRecords, Reset, Tick
<1>10. CASE Crash
  <2>1. req \in [Requests -> [pc : Phases, window : Nat, seen : Nat]]
        BY <1>1 DEF ReqTypes
  <2>2. UNCHANGED <<knew, late>>
        BY <1>10 DEF Crash
  <2>3. req' = [r \in Requests |->
                  IF req[r].pc \in {"idle", "done", "denied"} THEN req[r]
                  ELSE [req[r] EXCEPT !.pc = "failed"]]
        BY <1>10 DEF Crash
  <2> QED BY <1>1, <2>1, <2>2, <2>3 DEF ReqTypes, Phases
<1> QED BY <1>4, <1>5, <1>6, <1>7, <1>8, <1>9, <1>10 DEF MeterNext

LEMMA NoteNext ==
    ASSUME MeterTypes, MeterNext
    PROVE  NoteTypes'
<1> USE DEF clock, breaker, thread, history
<1>1. NoteTypes /\ Month \in Months /\ \A m \in Months : m \in Nat
  BY MonthsNat DEF MeterTypes, NoteTypes
<1>2. CASE UNCHANGED <<tracker, now, note, count>>
  BY <1>1, <1>2 DEF NoteTypes
<1>3. ASSUME NEW r \in Requests, NEW p \in {"notified", "skipped", "tracking", "reading", "counted", "lost"},
             note' = [note EXCEPT ![r].pc = p], UNCHANGED <<tracker, now, count>>,
             p \in {"reading", "counted"} => note[r].pc \in {"adding", "reading"}
      PROVE  NoteTypes'
  BY <1>1, <1>3 DEF NoteTypes, Places
<1>4. ASSUME NEW r \in Requests, Validate(r) \/ ReadsUsage(r) \/ CheckFails(r) \/ Decide(r)
                                 \/ Begin(r) \/ WorkFails(r) \/ Trips(r)
      PROVE  NoteTypes'
  BY <1>2, <1>4 DEF Validate, ReadsUsage, CheckFails, Decide, Begin, WorkFails, Trips, Fault
<1>5. ASSUME NEW r \in Requests, NodeDone(r) \/ OnEvent(r) \/ AddFails(r) \/ Reread(r)
      PROVE  NoteTypes'
  BY <1>3, <1>5 DEF NodeDone, OnEvent, AddFails, Reread, Fault
<1>6. ASSUME NEW r \in Requests, Track(r)
      PROVE  NoteTypes'
  BY <1>1, <1>6 DEF Track, NoteTypes, Places
<1>7. ASSUME NEW r \in Requests, Add(r)
      PROVE  NoteTypes'
  BY <1>1, <1>7 DEF Add, Added, NoteTypes, Places
<1>8. CASE WatcherEmits \/ WatcherDelivers \/ WatcherFails \/ WatcherRecords
  BY <1>2, <1>8 DEF WatcherEmits, WatcherDelivers, WatcherFails, WatcherRecords
<1>9. \A windows : Emptied(windows) \in [Months -> Nat]
  BY <1>1 DEF Emptied, NoteTypes
<1>10. \A windows : \A q \in Requests :
          /\ Forgotten(windows, note[q]) \in [pc : Places, window : Nat]
          /\ Forgotten(windows, note[q]).pc \in {"adding", "reading", "counted"}
                => Forgotten(windows, note[q]).window \in Months
  BY <1>1 DEF Forgotten, NoteTypes, Places
<1>11. CASE Reset
  BY <1>1, <1>9, <1>10, <1>11 DEF Reset, Fault, NoteTypes
<1>12. CASE Crash
  <2>1. PICK windows :
          /\ count' = Emptied(windows)
          /\ note' = [q \in Requests |->
                IF note[q].pc \in {"notified", "tracking", "adding"}
                THEN [note[q] EXCEPT !.pc = "lost"]
                ELSE Forgotten(windows, note[q])]
    BY <1>12 DEF Crash
  <2>2. \A q \in Requests : /\ [note[q] EXCEPT !.pc = "lost"] \in [pc : Places, window : Nat]
                            /\ [note[q] EXCEPT !.pc = "lost"].pc = "lost"
    BY <1>1 DEF NoteTypes, Places
  <2>3. UNCHANGED <<tracker, now>>
    BY <1>12 DEF Crash, Fault
  <2>4. note' \in [Requests -> [pc : Places, window : Nat]]
    BY <1>10, <2>1, <2>2
  <2>5. \A q \in Requests : note'[q].pc \in {"adding", "reading", "counted"} => note'[q].window \in Months
    BY <1>10, <2>1, <2>2
  <2> QED BY <1>1, <1>9, <2>1, <2>3, <2>4, <2>5 DEF NoteTypes
<1>13. CASE Tick
  BY <1>1, <1>13, MeteringAssumption DEF Tick, NoteTypes
<1> QED
  BY <1>4, <1>5, <1>6, <1>7, <1>8, <1>11, <1>12, <1>13 DEF MeterNext

LEMMA MeterTypesNext ==
    ASSUME MeterTypes, ErrorsHeld, MeterNext
    PROVE  MeterTypes'
<1>1. ReqTypes' /\ NoteTypes'
  BY ReqNext, NoteNext
<1>2. /\ health' \in [failures : Nat, open : Nat] /\ errors' \in Nat
      /\ watcher' \in [pc : {"idle", "notifying", "failing"}, seen : Nat]
  BY ErrorsNext
<1> QED BY <1>1, <1>2 DEF MeterTypes, ReqTypes, NoteTypes

-----------------------------------------------------------------------------
(* What is counted, and who is let in.                                     *)

\* What is in the counter after one of the listener's steps, or a reset.
LEMMA CountersNext ==
    ASSUME MeterTypes, CountsHeld, MeterNext
    PROVE  \A m \in Months : IsFiniteSet(CountedIn(m)') /\ Cardinality(CountedIn(m)') <= count'[m]
<1> USE DEF clock, breaker, thread, history
<1>1. /\ note \in [Requests -> [pc : Places, window : Nat]] /\ count \in [Months -> Nat]
      /\ Month \in Months
      /\ \A m \in Months : /\ IsFiniteSet(CountedIn(m)) /\ Cardinality(CountedIn(m)) <= count[m]
                           /\ Cardinality(CountedIn(m)) \in Nat /\ count[m] \in Nat
  BY FS_CardinalityType, MonthsNat DEF MeterTypes, CountsHeld
<1>2. ASSUME NEW m \in Months
      PROVE  /\ CountedIn(m) = {q \in Requests : note[q].pc \in {"reading", "counted"} /\ note[q].window = m}
             /\ CountedIn(m)' = {q \in Requests : note'[q] \in {[pc |-> p, window |-> m] : p \in {"reading", "counted"}}}
  BY <1>1 DEF CountedIn, Counted
<1>3. ASSUME NEW m \in Months, CountedIn(m)' = CountedIn(m), count'[m] = count[m]
      PROVE  IsFiniteSet(CountedIn(m)') /\ Cardinality(CountedIn(m)') <= count'[m]
  BY <1>1, <1>3
<1>4. ASSUME NEW m \in Months, NEW r, CountedIn(m)' = CountedIn(m) \cup {r}, count'[m] = count[m] + 1
      PROVE  IsFiniteSet(CountedIn(m)') /\ Cardinality(CountedIn(m)') <= count'[m]
  <2>1. /\ IsFiniteSet(CountedIn(m) \cup {r})
        /\ Cardinality(CountedIn(m) \cup {r}) \in {Cardinality(CountedIn(m)), Cardinality(CountedIn(m)) + 1}
    BY <1>1, FS_AddElement
  <2> QED BY <1>1, <1>4, <2>1
<1>5. ASSUME UNCHANGED count, \A m \in Months : CountedIn(m)' = CountedIn(m)
      PROVE  \A m \in Months : IsFiniteSet(CountedIn(m)') /\ Cardinality(CountedIn(m)') <= count'[m]
  BY <1>3, <1>5
<1>6. CASE UNCHANGED <<note, count>>
  BY <1>5, <1>6 DEF CountedIn
<1>7. ASSUME NEW r \in Requests, UNCHANGED count,
             NEW n \in [pc : Places, window : Nat], note' = [note EXCEPT ![r] = n],
             \/ n.pc \notin {"reading", "counted"} /\ note[r].pc \notin {"reading", "counted"}
             \/ n.pc = "counted" /\ note[r].pc = "reading" /\ n.window = note[r].window
      PROVE  \A m \in Months : CountedIn(m)' = CountedIn(m)
  <2> SUFFICES ASSUME NEW m \in Months PROVE CountedIn(m)' = CountedIn(m)
    OBVIOUS
  <2>1. \A q \in Requests : Counted(note'[q], m) <=> Counted(note[q], m)
    BY <1>1, <1>7 DEF Counted
  <2> QED BY <2>1 DEF CountedIn
<1>8. ASSUME NEW r \in Requests, NEW w \in Months,
             NEW n \in [pc : Places, window : Nat], note' = [note EXCEPT ![r] = n],
             n.pc \in {"reading", "counted"}, n.window = w, note[r].pc \notin {"reading", "counted"},
             count' = [count EXCEPT ![w] = @ + 1]
      PROVE  \A m \in Months : IsFiniteSet(CountedIn(m)') /\ Cardinality(CountedIn(m)') <= count'[m]
  <2> SUFFICES ASSUME NEW m \in Months
               PROVE  IsFiniteSet(CountedIn(m)') /\ Cardinality(CountedIn(m)') <= count'[m]
    OBVIOUS
  <2>1. \A q \in Requests : q # r => (Counted(note'[q], m) <=> Counted(note[q], m))
    BY <1>1, <1>8
  <2>2. Counted(note'[r], m) <=> m = w
    BY <1>1, <1>8 DEF Counted
  <2>3. ~Counted(note[r], m)
    BY <1>1, <1>8 DEF Counted
  <2>4. CASE m = w
    <3>1. CountedIn(m)' = CountedIn(m) \cup {r}
      BY <2>1, <2>2, <2>4 DEF CountedIn
    <3>2. count'[m] = count[m] + 1
      BY <1>1, <1>8, <2>4
    <3> QED BY <1>4, <3>1, <3>2
  <2>5. CASE m # w
    <3>1. CountedIn(m)' = CountedIn(m)
      BY <2>1, <2>2, <2>3, <2>5 DEF CountedIn
    <3>2. count'[m] = count[m]
      BY <1>1, <1>8, <2>5
    <3> QED BY <1>3, <3>1, <3>2
  <2> QED BY <2>4, <2>5
<1>9. ASSUME NEW windows, count' = Emptied(windows),
             \A q \in Requests : \/ note'[q] = Forgotten(windows, note[q])
                                 \/ note[q].pc \notin {"reading", "counted"} /\ note'[q].pc = "lost"
      PROVE  \A m \in Months : IsFiniteSet(CountedIn(m)') /\ Cardinality(CountedIn(m)') <= count'[m]
  <2> SUFFICES ASSUME NEW m \in Months
               PROVE  IsFiniteSet(CountedIn(m)') /\ Cardinality(CountedIn(m)') <= count'[m]
    OBVIOUS
  <2>1. count'[m] = IF m \in windows THEN 0 ELSE count[m]
    BY <1>9 DEF Emptied
  <2>2. \A q \in Requests : Counted(note'[q], m) => m \notin windows /\ Counted(note[q], m)
    <3> SUFFICES ASSUME NEW q \in Requests, Counted(note'[q], m)
                 PROVE  m \notin windows /\ Counted(note[q], m)
      OBVIOUS
    <3>1. note'[q].pc \in {"reading", "counted"}
      BY DEF Counted
    <3>2. note'[q] = note[q] /\ ~\E w \in windows : Counted(note[q], w)
      <4>1. note'[q] = Forgotten(windows, note[q])
        BY <1>9, <3>1
      <4>2. [note[q] EXCEPT !.pc = "forgotten"].pc = "forgotten"
        BY <1>1
      <4> QED BY <3>1, <4>1, <4>2 DEF Forgotten
    <3> QED BY <3>2
  <2>3. CountedIn(m)' \subseteq CountedIn(m)
    BY <2>2 DEF CountedIn
  <2>4. IsFiniteSet(CountedIn(m)') /\ Cardinality(CountedIn(m)') <= Cardinality(CountedIn(m))
        /\ Cardinality(CountedIn(m)') \in Nat
    BY <1>1, <2>3, FS_Subset, FS_CardinalityType
  <2>5. CASE m \in windows
    <3>1. CountedIn(m)' = {}
      BY <2>2, <2>5 DEF CountedIn
    <3> QED BY <2>1, <2>5, <3>1, FS_EmptySet
  <2>6. CASE m \notin windows
    BY <1>1, <2>1, <2>4, <2>6
  <2> QED BY <2>5, <2>6
<1>10. ASSUME NEW r \in Requests, Track(r)
       PROVE  \A m \in Months : IsFiniteSet(CountedIn(m)') /\ Cardinality(CountedIn(m)') <= count'[m]
  <2>1. Month \in Nat
    BY <1>1, MonthsNat
  <2>2. CASE tracker = "memory"
    <3> DEFINE n == [pc |-> "counted", window |-> Month]
    <3>1. n \in [pc : Places, window : Nat] /\ n.pc = "counted" /\ n.window = Month
      BY <2>1 DEF Places
    <3>2. note' = [note EXCEPT ![r] = n] /\ count' = [count EXCEPT ![Month] = @ + 1] /\ note[r].pc = "tracking"
      BY <1>10, <2>2 DEF Track
    <3> HIDE DEF n
    <3> QED BY <1>1, <1>8, <3>1, <3>2
  <2>3. CASE tracker # "memory"
    <3> DEFINE n == [pc |-> "adding", window |-> Month]
    <3>1. n \in [pc : Places, window : Nat] /\ n.pc = "adding"
      BY <2>1 DEF Places
    <3>2. note' = [note EXCEPT ![r] = n] /\ count' = count /\ note[r].pc = "tracking"
      BY <1>10, <2>3 DEF Track
    <3> HIDE DEF n
    <3>3. \A m \in Months : CountedIn(m)' = CountedIn(m)
      BY <1>7, <3>1, <3>2
    <3> QED BY <1>5, <3>2, <3>3
  <2> QED BY <2>2, <2>3
<1>11. ASSUME NEW r \in Requests, Add(r)
       PROVE  \A m \in Months : IsFiniteSet(CountedIn(m)') /\ Cardinality(CountedIn(m)') <= count'[m]
  <2> DEFINE n == [note[r] EXCEPT !.pc = "reading"]
  <2>1. /\ note[r].window \in Months /\ note[r].pc = "adding" /\ note' = [note EXCEPT ![r] = n]
        /\ count' = [count EXCEPT ![note[r].window] = @ + 1]
    BY <1>11 DEF Add, Added, MeterTypes
  <2>2. n \in [pc : Places, window : Nat] /\ n.pc = "reading" /\ n.window = note[r].window
    BY <1>1 DEF Places
  <2> HIDE DEF n
  <2> QED BY <1>8, <2>1, <2>2
<1>12. ASSUME NEW r \in Requests, NEW p \in {"notified", "skipped", "tracking", "counted", "lost"},
              note' = [note EXCEPT ![r].pc = p], UNCHANGED count,
              IF p = "counted" THEN note[r].pc = "reading" ELSE note[r].pc \notin {"reading", "counted"}
       PROVE  \A m \in Months : CountedIn(m)' = CountedIn(m)
  <2> DEFINE n == [note[r] EXCEPT !.pc = p]
  <2>1. n \in [pc : Places, window : Nat] /\ n.pc = p /\ n.window = note[r].window
    BY <1>1 DEF Places
  <2>2. note' = [note EXCEPT ![r] = n]
    BY <1>12
  <2> HIDE DEF n
  <2> QED BY <1>7, <1>12, <2>1, <2>2
<1>13. ASSUME NEW r \in Requests, NodeDone(r) \/ OnEvent(r) \/ AddFails(r) \/ Reread(r)
       PROVE  \A m \in Months : IsFiniteSet(CountedIn(m)') /\ Cardinality(CountedIn(m)') <= count'[m]
  <2>1. UNCHANGED count /\ \A m \in Months : CountedIn(m)' = CountedIn(m)
    <3>1. NodeDone(r) => note[r].pc = "none"
      BY DEF NodeDone, CountsHeld
    <3> QED BY <1>12, <1>13, <3>1 DEF NodeDone, OnEvent, AddFails, Reread
  <2> QED BY <1>5, <2>1
<1>14. CASE Reset
  <2>1. \A q \in Requests : note'[q] = Forgotten({Month}, note[q])
    BY <1>14 DEF Reset
  <2> QED BY <1>9, <1>14, <2>1 DEF Reset
<1>15. CASE Crash
  <2>1. PICK windows :
          /\ count' = Emptied(windows)
          /\ note' = [q \in Requests |->
                IF note[q].pc \in {"notified", "tracking", "adding"}
                THEN [note[q] EXCEPT !.pc = "lost"]
                ELSE Forgotten(windows, note[q])]
    BY <1>15 DEF Crash
  <2>2. \A q \in Requests : \/ note'[q] = Forgotten(windows, note[q])
                            \/ note[q].pc \notin {"reading", "counted"} /\ note'[q].pc = "lost"
    BY <1>1, <2>1
  <2> QED BY <1>9, <2>1, <2>2
<1>16. CASE \/ WatcherEmits \/ WatcherDelivers \/ WatcherFails \/ WatcherRecords \/ Tick
            \/ \E r \in Requests : Validate(r) \/ ReadsUsage(r) \/ CheckFails(r) \/ Decide(r)
                                   \/ Begin(r) \/ WorkFails(r) \/ Trips(r)
  BY <1>6, <1>16 DEF WatcherEmits, WatcherDelivers, WatcherFails, WatcherRecords, Tick,
     Validate, ReadsUsage, CheckFails, Decide, Begin, WorkFails, Trips
<1> QED
  BY <1>10, <1>11, <1>13, <1>14, <1>15, <1>16 DEF MeterNext

\* What a request has read was in the counter when it read it.
LEMMA CountsNext ==
    ASSUME MeterTypes, CountsHeld, MeterNext
    PROVE  CountsHeld'
<1> USE DEF clock, breaker, thread, history
<1>1. /\ req \in [Requests -> [pc : Phases, window : Nat, seen : Nat]]
      /\ knew \in [Requests -> SUBSET Requests]
      /\ note \in [Requests -> [pc : Places, window : Nat]]
  BY DEF MeterTypes
<1> DEFINE Read(r) == req[r].pc = "answered" => IsFiniteSet(knew[r]) /\ Cardinality(knew[r]) <= req[r].seen
           Sent(r) == note[r].pc # "none" => req[r].pc = "done"
<1> SUFFICES \A i \in Requests : Read(i)' /\ Sent(i)'
  BY CountersNext DEF CountsHeld
<1>2. \A r \in Requests : Read(r) /\ Sent(r)
  BY DEF CountsHeld
<1>3. ASSUME NEW r \in Requests, NEW q, req' = [req EXCEPT ![r] = q], q.pc \notin {"answered"}, knew' = knew,
             note' = note, req[r].pc # "done"
      PROVE  \A i \in Requests : Read(i)' /\ Sent(i)'
  BY <1>1, <1>2, <1>3
<1>4. ASSUME NEW r \in Requests, NEW m, NEW usage, NEW counted, Decides(r, m, usage, counted),
             knew' = knew, note' = note, req[r].pc # "done"
      PROVE  \A i \in Requests : Read(i)' /\ Sent(i)'
  <2>1. /\ req' = [req EXCEPT ![r] = req'[r]] /\ req'[r].pc \in {"permitted", "denied"}
    BY <1>1, <1>4 DEF Decides
  <2> QED BY <1>3, <1>4, <2>1
<1>5. CASE UNCHANGED <<req, knew>> /\ \A r \in Requests : note'[r].pc # "none" => note[r].pc # "none"
  BY <1>2, <1>5
<1>6. ASSUME NEW r \in Requests, Validate(r)
      PROVE  \A i \in Requests : Read(i)' /\ Sent(i)'
  BY <1>1, <1>3, <1>4, <1>6 DEF Validate
<1>7. ASSUME NEW r \in Requests, ReadsUsage(r)
      PROVE  \A i \in Requests : Read(i)' /\ Sent(i)'
  <2> DEFINE m == req[r].window
  <2>1. m \in Months
    BY <1>7 DEF ReadsUsage, MeterTypes
  <2>2. IsFiniteSet(CountedIn(m)) /\ Cardinality(CountedIn(m)) <= count[m]
    BY <2>1 DEF CountsHeld
  <2>3. knew'[r] = CountedIn(m) /\ req'[r].seen = count[m] /\ note[r].pc = "none" /\ note' = note
    BY <1>1, <1>2, <1>7 DEF ReadsUsage
  <2>4. \A i \in Requests : i # r => req'[i] = req[i] /\ knew'[i] = knew[i]
    BY <1>1, <1>7 DEF ReadsUsage
  <2> QED BY <1>2, <2>2, <2>3, <2>4
<1>8. ASSUME NEW r \in Requests, Decide(r)
      PROVE  \A i \in Requests : Read(i)' /\ Sent(i)'
  BY <1>4, <1>8 DEF Decide
<1>9. ASSUME NEW r \in Requests, CheckFails(r) \/ Begin(r) \/ WorkFails(r) \/ Trips(r)
      PROVE  \A i \in Requests : Read(i)' /\ Sent(i)'
  <2>1. PICK p \in {"denied", "working", "failed"} :
           req' = [req EXCEPT ![r].pc = p] /\ UNCHANGED <<knew, note>> /\ req[r].pc # "done"
    BY <1>9 DEF CheckFails, Begin, WorkFails, Trips
  <2> QED BY <1>1, <1>2, <2>1
<1>10. ASSUME NEW r \in Requests, NodeDone(r)
       PROVE  \A i \in Requests : Read(i)' /\ Sent(i)'
  <2>1. req' = [req EXCEPT ![r].pc = "done"] /\ knew' = knew /\ \A i \in Requests : i # r => note'[i] = note[i]
    BY <1>1, <1>10 DEF NodeDone
  <2> QED BY <1>1, <1>2, <2>1
<1>11. ASSUME NEW r \in Requests, OnEvent(r) \/ Track(r) \/ Add(r) \/ AddFails(r) \/ Reread(r)
       PROVE  \A i \in Requests : Read(i)' /\ Sent(i)'
  <2>1. UNCHANGED <<req, knew>> /\ note[r].pc # "none" /\ \A i \in Requests : i # r => note'[i] = note[i]
    BY <1>1, <1>11 DEF OnEvent, Track, Add, AddFails, Reread
  <2> QED BY <1>5, <2>1
<1>12. CASE WatcherEmits \/ WatcherDelivers \/ WatcherFails \/ WatcherRecords \/ Tick
  BY <1>5, <1>12 DEF WatcherEmits, WatcherDelivers, WatcherFails, WatcherRecords, Tick
<1>13. \A windows : \A q \in Requests : Forgotten(windows, note[q]).pc # "none" => note[q].pc # "none"
  BY DEF Forgotten, Counted
<1>14. CASE Reset
  BY <1>5, <1>13, <1>14 DEF Reset
<1>15. CASE Crash
  <2>1. \A r \in Requests : note'[r].pc # "none" => note[r].pc # "none"
    BY <1>13, <1>15 DEF Crash
  <2>2. /\ knew' = knew
        /\ \A r \in Requests : req'[r] = req[r] \/ (req'[r].pc = "failed" /\ req[r].pc # "done")
    BY <1>1, <1>15 DEF Crash
  <2> QED BY <1>2, <2>1, <2>2
<1> QED
  BY <1>6, <1>7, <1>8, <1>9, <1>10, <1>11, <1>12, <1>14, <1>15 DEF MeterNext

\* One more is let in: either it is late, or all who are in were in the counter
\* it read, which allowed it.
LEMMA LetIn ==
    ASSUME MeterTypes, LateHeld, NEW r \in Requests, NEW m \in Months, NEW usage \in Nat, NEW counted,
           IsFiniteSet(counted), Cardinality(counted) <= usage,
           req[r].pc \notin {"permitted", "working", "done"}, Decides(r, m, usage, counted)
    PROVE  LateHeld'
<1>1. /\ req \in [Requests -> [pc : Phases, window : Nat, seen : Nat]]
      /\ late \in [Requests -> SUBSET Requests] /\ Limit \in Nat
  BY MeteringAssumption DEF MeterTypes
<1>2. CASE ~Allows(usage)
  <2>1. req' = [req EXCEPT ![r].pc = "denied"] /\ late' = late
    BY <1>2 DEF Decides
  <2>2. \A k \in Months : Used(k)' \subseteq Used(k)
    BY <1>1, <2>1 DEF Used
  <2> QED BY <2>1, <2>2 DEF LateHeld
<1>3. CASE Allows(usage)
  <2>1. /\ req' = [req EXCEPT ![r] = [pc |-> "permitted", window |-> m, seen |-> usage]]
        /\ late' = [late EXCEPT ![r] = Used(m) \ counted]
    BY <1>3 DEF Decides
  <2>2. /\ Used(m)' \subseteq Used(m) \cup {r}
        /\ \A k \in Months : k # m => Used(k)' = Used(k)
        /\ \A k \in Months : r \notin Used(k)
        /\ \A q \in Requests : q # r => late'[q] = late[q]
        /\ late'[r] = Used(m) \ counted
    BY <1>1, <2>1 DEF Used
  <2> SUFFICES ASSUME NEW k \in Months, NEW S \in SUBSET Used(k)', \A q \in S : late'[q] = {}
               PROVE  IsFiniteSet(S) /\ Cardinality(S) <= Limit + 1
    BY DEF LateHeld
  <2>3. Used(k)' \subseteq Requests
    BY DEF Used
  <2>4. CASE r \notin S
    <3>1. S \subseteq Used(k) /\ \A q \in S : late[q] = {}
      BY <2>2, <2>3, <2>4
    <3> QED BY <3>1 DEF LateHeld
  <2>5. CASE r \in S
    <3>1. k = m /\ Used(m) \subseteq counted
      BY <2>2, <2>5
    <3> DEFINE R == S \ {r}
    <3>2. R \subseteq counted /\ S = R \cup {r}
      BY <2>2, <2>5, <3>1
    <3>3. IsFiniteSet(R) /\ Cardinality(R) <= Cardinality(counted) /\ Cardinality(R) \in Nat /\ Cardinality(counted) \in Nat
      BY <3>2, FS_Subset, FS_CardinalityType
    <3>4. Cardinality(R) <= Limit
      BY <1>1, <1>3, <3>3 DEF Allows
    <3> HIDE DEF R
    <3>5. IsFiniteSet(R \cup {r}) /\ Cardinality(R \cup {r}) \in {Cardinality(R), Cardinality(R) + 1}
      BY <3>3, FS_AddElement
    <3> QED BY <1>1, <3>2, <3>3, <3>4, <3>5
  <2> QED BY <2>4, <2>5
<1> QED BY <1>2, <1>3

LEMMA LateNext ==
    ASSUME MeterTypes, CountsHeld, LateHeld, MeterNext
    PROVE  LateHeld'
<1> USE DEF clock, breaker, thread, history
<1>1. /\ req \in [Requests -> [pc : Phases, window : Nat, seen : Nat]]
      /\ late \in [Requests -> SUBSET Requests] /\ count \in [Months -> Nat] /\ Month \in Months
  BY MonthsNat DEF MeterTypes
<1>2. ASSUME late' = late, \A q \in Requests :
                \/ req'[q].pc \notin {"permitted", "working", "done"}
                \/ req[q].pc \in {"permitted", "working", "done"} /\ req'[q].window = req[q].window
      PROVE  LateHeld'
  <2>1. \A k \in Months : Used(k)' \subseteq Used(k)
    BY <1>2 DEF Used
  <2> QED BY <1>2, <2>1 DEF LateHeld
<1>3. ASSUME NEW r \in Requests, Validate(r)
      PROVE  LateHeld'
  <2>1. CASE tracker = "memory"
    <3>1. count[Month] \in Nat /\ IsFiniteSet(CountedIn(Month)) /\ Cardinality(CountedIn(Month)) <= count[Month]
      BY <1>1 DEF CountsHeld
    <3> QED BY <1>1, <1>3, <2>1, <3>1, LetIn DEF Validate
  <2>2. CASE tracker # "memory"
    BY <1>1, <1>2, <1>3, <2>2 DEF Validate
  <2> QED BY <2>1, <2>2
<1>4. ASSUME NEW r \in Requests, Decide(r)
      PROVE  LateHeld'
  <2>1. /\ req[r].pc = "answered" /\ req[r].window \in Months /\ req[r].seen \in Nat
        /\ IsFiniteSet(knew[r]) /\ Cardinality(knew[r]) <= req[r].seen
    BY <1>1, <1>4 DEF Decide, MeterTypes, CountsHeld
  <2> QED BY <1>4, <2>1, LetIn DEF Decide
<1>5. ASSUME NEW r \in Requests, ReadsUsage(r) \/ CheckFails(r) \/ Begin(r) \/ NodeDone(r) \/ WorkFails(r) \/ Trips(r)
      PROVE  LateHeld'
  <2>1. /\ late' = late /\ \A q \in Requests : q # r => req'[q] = req[q]
        /\ \/ req'[r].pc \notin {"permitted", "working", "done"}
           \/ req[r].pc \in {"permitted", "working", "done"} /\ req'[r].window = req[r].window
    BY <1>1, <1>5 DEF ReadsUsage, CheckFails, Begin, NodeDone, WorkFails, Trips
  <2> QED BY <1>2, <2>1
<1>6. ASSUME NEW r \in Requests, OnEvent(r) \/ Track(r) \/ Add(r) \/ AddFails(r) \/ Reread(r)
      PROVE  LateHeld'
  BY <1>2, <1>6 DEF OnEvent, Track, Add, AddFails, Reread
<1>7. CASE WatcherEmits \/ WatcherDelivers \/ WatcherFails \/ WatcherRecords \/ Reset \/ Tick
  BY <1>2, <1>7 DEF WatcherEmits, WatcherDelivers, WatcherFails, WatcherRecords, Reset, Tick
<1>8. CASE Crash
  <2>1. late' = late /\ \A q \in Requests : req'[q] = req[q] \/ req'[q].pc = "failed"
    BY <1>1, <1>8 DEF Crash
  <2> QED BY <1>2, <2>1
<1> QED BY <1>3, <1>4, <1>5, <1>6, <1>7, <1>8 DEF MeterNext

LEMMA MeterInvInit == MeterInit => MeterInv
<1> SUFFICES ASSUME MeterInit PROVE MeterInv
  OBVIOUS
<1> USE MeteringAssumption DEF MeterInit
<1>1. \A m \in Months : CountedIn(m) = {} /\ Used(m) = {}
  BY DEF CountedIn, Counted, Used
<1>2. MeterTypes
  BY DEF MeterTypes, Phases, Places
<1>3. ErrorsHeld
  BY DEF ErrorsHeld, OutageIsEarned
<1>4. CountsHeld
  BY <1>1, FS_EmptySet DEF CountsHeld
<1>5. LateHeld
  <2>1. IsFiniteSet({}) /\ Cardinality({}) = 0 /\ 0 <= Limit + 1
    BY FS_EmptySet
  <2>2. \A m \in Months : \A S \in SUBSET Used(m) : S = {}
    BY <1>1
  <2> QED BY <2>1, <2>2 DEF LateHeld
<1> QED BY <1>2, <1>3, <1>4, <1>5 DEF MeterInv

LEMMA MeterInvNext == MeterInv /\ [MeterNext]_meterVars => MeterInv'
<1> SUFFICES ASSUME MeterInv, [MeterNext]_meterVars PROVE MeterInv'
  OBVIOUS
<1>1. CASE UNCHANGED meterVars
  BY <1>1 DEF MeterInv, meterVars, clock, breaker, thread, history, MeterTypes, ErrorsHeld, OutageIsEarned,
     CountsHeld, CountedIn, LateHeld, Used
<1>2. CASE MeterNext
  BY <1>2, MeterTypesNext, ErrorsNext, CountsNext, LateNext DEF MeterInv
<1> QED BY <1>1, <1>2

LEMMA MeterInvariance == MeterSpec => []MeterInv
BY MeterInvInit, MeterInvNext, PTL DEF MeterSpec

\* More than the quota and one are let into a month only if somebody was let
\* in past work that was not in the counter, for any quota, any number of
\* requests, in memory or in a table, through crashes, resets and months.
THEOREM OverrunExplained == MeterSpec => []OverrunNeedsUncounted
<1>1. ASSUME MeterInv PROVE OverrunNeedsUncounted
  <2> SUFFICES ASSUME NEW m \in Months, Cardinality(Used(m)) > Limit + 1, \A r \in Used(m) : late[r] = {}
               PROVE  FALSE
    BY DEF OverrunNeedsUncounted
  <2>1. Used(m) \in SUBSET Used(m)
    OBVIOUS
  <2>2. IsFiniteSet(Used(m)) /\ Cardinality(Used(m)) <= Limit + 1
    BY <1>1, <2>1 DEF MeterInv, LateHeld
  <2> QED BY <2>2, FS_CardinalityType, MeteringAssumption
<1> QED BY <1>1, MeterInvariance, PTL

\* The breaker closes the event backend only after a full threshold of errors
\* since it was last reset, whatever updates the threads lose.
THEOREM OutageEarned == MeterSpec => []OutageIsEarned
<1>1. MeterInv => OutageIsEarned
  BY DEF MeterInv, ErrorsHeld
<1> QED BY <1>1, MeterInvariance, PTL
=============================================================================
