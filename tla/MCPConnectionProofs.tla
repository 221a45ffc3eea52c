------------------------ MODULE MCPConnectionProofs ------------------------
(***************************************************************************)
(* For any callers, connections, attempts and faults: the adapter's        *)
(* session is never that of a connection that has ended, a connection is   *)
(* left behind only by callers that connected at the same time, a call     *)
(* that nobody disturbs is answered, no caller is stuck while there is a   *)
(* name for a connection, and every step takes its caller or its           *)
(* connection further.                                                     *)
(***************************************************************************)
EXTENDS MCPConnection, TLAPS

Live == {"created", "opening", "open", "lost"}
Dying == {"cancelled", "dropped"}

\* A caller sleeps only before an attempt it has left; one that cleans up
\* waits for a task that was cancelled.
Waits ==
    \A c \in Callers :
        /\ at[c].pc = "backoff" => at[c].attempt < Attempts
        /\ at[c].pc = "cleaning" => at[c].on \in Conns /\ conn[at[c].on] \in Dying \cup {"none"}

\* Nobody connects beside another.
Alone == \A c, d \in Callers : Connecting(c) /\ Connecting(d) => c = d

\* Then the fields name the one connection there is, a connection that is
\* being made or cancelled has its caller, and a caller that connects knows
\* what the fields name.
Linked ==
    /\ \A k \in Conns : conn[k] \in Live => task = k
    /\ task # None /\ conn[task] \in {"open", "lost"} => session = task
    /\ \A k \in Conns : conn[k] \in Dying => \E c \in Callers : at[c].pc = "cleaning" /\ at[c].on = k
    /\ \A k \in Conns : conn[k] \in {"created", "opening"} => \E c \in Callers : at[c].pc = "polling"
    /\ \A c \in Callers : at[c].pc = "backoff" => task = None
    /\ \A c \in Callers : at[c].pc = "cleaning" => task \in {None, at[c].on}

IInv ==
    /\ TypeOK /\ Waits /\ SessionLives
    /\ ~astray => Alone /\ Linked

-----------------------------------------------------------------------------
(* What a caller's step does to the fields: one of five things.            *)

\* Nothing: it sends, hears, is over or is cancelled.
Quiet(c, x) ==
    /\ at[c].pc \in {"idle", "calling", "backoff"} \/ (at[c].pc = "polling" /\ session # None)
    /\ UNCHANGED adapter
    /\ x.pc \in {"idle", "calling"}

\* It cancels the connection the field names, and waits for its end.
Cancels(c, x) ==
    /\ at[c].pc # "cleaning" /\ Pending(task)
    /\ conn' = [conn EXCEPT ![task] = Cancelled(@)]
    /\ x.pc = "cleaning" /\ x.on = task
    /\ UNCHANGED <<session, task>>

\* There was nothing to wait for, or no longer is.
Idles(c) == IF at[c].pc = "cleaning" THEN conn[at[c].on] = "none" ELSE ~Pending(task)

\* It clears the fields, and is over or sleeps.
Clears(c, x) ==
    /\ Idles(c)
    /\ session' = None /\ task' = None /\ UNCHANGED conn
    /\ x.pc \in {"idle", "backoff"}

\* It creates a connection and looks for its session, having cleared the
\* fields or found no session in them.
Tries(c, x) ==
    /\ Idles(c) \/ (session = None /\ at[c].pc \in {"idle", "backoff"})
    /\ Creates
    /\ session' = None
    /\ x.pc = "polling"

\* After a sleep it creates one although another's session is there.
Doubles(c, x) ==
    /\ at[c].pc = "backoff" /\ session # None
    /\ Creates /\ UNCHANGED session
    /\ x.pc \in {"idle", "calling"}

Moves(c, x) == Quiet(c, x) \/ Cancels(c, x) \/ Clears(c, x) \/ Tries(c, x) \/ Doubles(c, x)

\* It goes off while it looks for a session, or creates a connection beside
\* the session there is.
Wanders(c, x) ==
    \/ at[c].pc = "polling" /\ UNCHANGED adapter /\ x.pc = "idle"
    \/ at[c].pc = "idle" /\ Creates /\ UNCHANGED session /\ x.pc = "idle"

\* What holds of where the caller is afterwards.
Placed(c, x) ==
    /\ x \in Doing
    /\ at' = [at EXCEPT ![c] = x]
    /\ x.pc = "backoff" => x.attempt < Attempts
    /\ x.pc = "calling" => x.on # None

LEMMA ProceedMoves ==
    ASSUME TypeOK, NEW c \in Callers, NEW me \in Doing, Proceed(c, me), Idles(c)
    PROVE  \E x : Placed(c, x) /\ Moves(c, x)
<1>1. CASE Ends(c, IF me.op = "close" THEN "ok" ELSE "failed") /\ task' = None /\ UNCHANGED conn
  <2>1. Placed(c, Rest) /\ Clears(c, Rest)
    BY <1>1, ConnectionAssumption DEF Ends, Goes, Placed, Rest, Doing, Clears, Proceed
  <2> QED BY <2>1 DEF Moves
<1>2. CASE /\ me.attempt \in 1 .. Attempts - 1
           /\ Goes(c, [me EXCEPT !.pc = "backoff", !.on = None]) /\ task' = None /\ UNCHANGED conn
  <2> DEFINE x == [me EXCEPT !.pc = "backoff", !.on = None]
  <2>1. x \in Doing /\ x.pc = "backoff" /\ x.attempt = me.attempt
    BY DEF Doing
  <2>2. me.attempt < Attempts
    BY <1>2, ConnectionAssumption
  <2>3. Placed(c, x) /\ Clears(c, x)
    BY <1>2, <2>1, <2>2 DEF Goes, Placed, Clears, Proceed
  <2> QED BY <2>3 DEF Moves
<1>3. CASE me.attempt = 0 /\ Attempt(c, me)
  <2> DEFINE x == [me EXCEPT !.pc = "polling", !.attempt = @ + 1, !.on = None]
  <2>1. x \in Doing /\ x.pc = "polling"
    <3>1. me.attempt + 1 \in 0 .. Attempts
      BY <1>3, ConnectionAssumption
    <3> QED BY <3>1 DEF Doing
  <2>2. Placed(c, x) /\ Tries(c, x)
    BY <1>3, <2>1 DEF Attempt, Goes, Placed, Tries, Proceed
  <2> QED BY <2>2 DEF Moves
<1> QED BY <1>1, <1>2, <1>3 DEF Proceed

LEMMA CleanupMoves ==
    ASSUME TypeOK, NEW c \in Callers, NEW me \in Doing, Cleanup(c, me), at[c].pc # "cleaning"
    PROVE  \E x : Placed(c, x) /\ Moves(c, x)
<1>1. CASE Pending(task)
  <2> DEFINE x == [me EXCEPT !.pc = "cleaning", !.on = task]
  <2>1. x \in Doing /\ x.pc = "cleaning" /\ x.on = task
    BY DEF Doing, TypeOK
  <2>2. Placed(c, x) /\ Cancels(c, x)
    BY <1>1, <2>1 DEF Cleanup, Goes, Placed, Cancels
  <2> QED BY <2>2 DEF Moves
<1>2. CASE ~Pending(task)
  BY <1>2, ProceedMoves DEF Cleanup, Idles
<1> QED BY <1>1, <1>2

LEMMA SendsMoves ==
    ASSUME TypeOK, NEW c \in Callers, NEW me \in Doing, Sends(c, me), session # None
    PROVE  \E x : Placed(c, x) /\ x.pc = "calling"
<1> DEFINE x == [me EXCEPT !.pc = "calling", !.attempt = 0, !.on = session, !.sent = FALSE]
<1>1. x \in Doing /\ x.pc = "calling" /\ x.on = session
  <2>1. 0 \in 0 .. Attempts /\ session \in Conns \cup {None}
    BY ConnectionAssumption DEF TypeOK
  <2> QED BY <2>1 DEF Doing
<1> QED BY <1>1 DEF Sends, Goes, Placed

LEMMA ConnectedMoves ==
    ASSUME TypeOK, NEW c \in Callers, Connected(c, at[c]), session # None
    PROVE  \E x : Placed(c, x) /\ x.pc \in {"idle", "calling"}
<1>1. at[c] \in Doing
  BY DEF TypeOK
<1>2. CASE Sends(c, at[c])
  BY <1>1, <1>2, SendsMoves
<1>3. CASE Ends(c, IF at[c].stage = "http" THEN "failed" ELSE "ok")
  <2>1. Placed(c, Rest) /\ Rest.pc = "idle"
    BY <1>3, ConnectionAssumption DEF Ends, Goes, Placed, Rest, Doing
  <2> QED BY <2>1
<1> QED BY <1>2, <1>3 DEF Connected

\* Every step of a caller is one of these, but for what the server does.
LEMMA CallerMoves ==
    ASSUME IInv, NEW c \in Callers,
           \/ Begin(c) \/ Cleaned(c) \/ Poll(c) \/ PollTimeout(c) \/ NextAttempt(c)
           \/ Serve(c) \/ Answer(c) \/ Breaks(c)
           \/ (at[c].pc \in {"backoff", "calling"} /\ Cancel(c))
    PROVE  \E x : Placed(c, x) /\ Moves(c, x)
<1> USE DEF adapter
<1>0. TypeOK /\ Waits /\ SessionLives /\ at[c] \in Doing
  BY DEF IInv, TypeOK
<1>10. CASE at[c].pc \in {"backoff", "calling"} /\ Cancel(c)
  <2>1. Placed(c, Rest) /\ Quiet(c, Rest)
    BY <1>10, ConnectionAssumption DEF Cancel, Ends, Goes, Placed, Rest, Doing, Quiet
  <2> QED BY <2>1 DEF Moves
<1>1. CASE Begin(c)
  <2>1. PICK op \in {"connect", "call", "list", "close"} :
          LET me == [Rest EXCEPT !.op = op]
              drops == session # None /\ idle
          IN  \/ /\ op # "close" /\ session = None
                 /\ Attempt(c, me)
                 /\ UNCHANGED <<session, idle, result>>
              \/ /\ op = "close" \/ (op \in {"call", "list"} /\ drops)
                 /\ Cleanup(c, me)
                 /\ UNCHANGED idle
              \/ /\ op \in {"call", "list"} /\ session # None /\ ~drops
                 /\ Sends(c, me)
                 /\ UNCHANGED adapter
    BY <1>1 DEF Begin
  <2> DEFINE me == [Rest EXCEPT !.op = op]
  <2>2. at[c].pc = "idle"
    BY <1>1 DEF Begin, Comes
  <2>6. me \in Doing /\ me.attempt = 0
    <3>1. 0 \in 0 .. Attempts
      BY ConnectionAssumption
    <3> QED BY <3>1 DEF Rest, Doing
  <2>3. CASE session = None /\ Attempt(c, me) /\ UNCHANGED session
    <3> DEFINE x == [me EXCEPT !.pc = "polling", !.attempt = @ + 1, !.on = None]
    <3>1. x \in Doing /\ x.pc = "polling"
      <4>1. 0 + 1 \in 0 .. Attempts
        BY ConnectionAssumption
      <4> HIDE DEF me
      <4> QED BY <2>6, <4>1 DEF Doing
    <3> HIDE DEF me
    <3>2. Placed(c, x) /\ Tries(c, x)
      BY <2>2, <2>3, <3>1 DEF Attempt, Goes, Placed, Tries
    <3> QED BY <3>2 DEF Moves
  <2>4. CASE Cleanup(c, me)
    BY <1>0, <2>2, <2>4, <2>6, CleanupMoves
  <2>5. CASE session # None /\ Sends(c, me) /\ UNCHANGED adapter
    BY <1>0, <2>2, <2>5, <2>6, SendsMoves DEF Moves, Quiet
  <2> QED BY <2>1, <2>3, <2>4, <2>5
<1>2. CASE Cleaned(c)
  BY <1>0, <1>2, ProceedMoves DEF Cleaned, Idles
<1>3. CASE Poll(c)
  BY <1>0, <1>3, ConnectedMoves DEF Poll, Moves, Quiet
<1>4. CASE PollTimeout(c)
  BY <1>0, <1>4, CleanupMoves DEF PollTimeout
<1>5. CASE NextAttempt(c)
  <2>1. CASE session = None /\ Attempt(c, at[c]) /\ UNCHANGED session
    <3> DEFINE x == [at[c] EXCEPT !.pc = "polling", !.attempt = @ + 1, !.on = None]
    <3>1. at[c].attempt + 1 \in 0 .. Attempts
      BY <1>0, <1>5, ConnectionAssumption DEF NextAttempt, Waits, Doing
    <3>2. x \in Doing /\ x.pc = "polling"
      BY <1>0, <3>1 DEF Doing
    <3>3. Placed(c, x) /\ Tries(c, x)
      BY <1>5, <2>1, <3>2 DEF NextAttempt, Attempt, Goes, Placed, Tries
    <3> QED BY <3>3 DEF Moves
  <2>2. CASE session # None /\ Creates /\ Connected(c, at[c]) /\ UNCHANGED session
    BY <1>0, <1>5, <2>2, ConnectedMoves DEF NextAttempt, Moves, Doubles
  <2> QED BY <1>5, <2>1, <2>2 DEF NextAttempt
<1>6. CASE Serve(c)
  <2> DEFINE x == [at[c] EXCEPT !.sent = TRUE]
  <2>1. x \in Doing /\ x.pc = "calling" /\ x.on = at[c].on
    BY <1>0, <1>6 DEF Serve, Doing
  <2>2. Placed(c, x) /\ Quiet(c, x)
    BY <1>0, <1>6, <2>1 DEF Serve, Goes, Placed, Quiet, SessionLives
  <2> QED BY <2>2 DEF Moves
<1>7. ASSUME NEW r, Ends(c, r), at[c].pc = "calling", UNCHANGED adapter PROVE \E x : Placed(c, x) /\ Moves(c, x)
  <2>1. Placed(c, Rest) /\ Quiet(c, Rest)
    BY <1>7, ConnectionAssumption DEF Ends, Goes, Placed, Rest, Doing, Quiet
  <2> QED BY <2>1 DEF Moves
<1>8. CASE Answer(c)
  BY <1>7, <1>8 DEF Answer
<1>9. CASE Breaks(c)
  <2>1. PICK how \in {"closed", "timeout", "http", "other"} :
          LET me == [at[c] EXCEPT
                       !.stage = IF at[c].op = "list" /\ how # "closed" THEN "ends"
                                 ELSE IF how = "http" THEN "http" ELSE "again"]
          IN  Cleanup(c, me) \/ (Ends(c, "failed") /\ UNCHANGED adapter)
    BY <1>9 DEF Breaks
  <2>4. at[c].pc = "calling"
    BY <1>9 DEF Breaks
  <2> DEFINE me == [at[c] EXCEPT
                       !.stage = IF at[c].op = "list" /\ how # "closed" THEN "ends"
                                 ELSE IF how = "http" THEN "http" ELSE "again"]
  <2>2. me \in Doing
    BY <1>0 DEF Doing
  <2>3. CASE Cleanup(c, me)
    BY <1>0, <2>2, <2>3, <2>4, CleanupMoves
  <2> QED BY <1>7, <2>1, <2>3, <2>4
<1> QED BY <1>1, <1>2, <1>3, <1>4, <1>5, <1>6, <1>8, <1>9, <1>10

LEMMA StrayMoves ==
    ASSUME IInv, NEW c \in Callers, ConnectAgain(c) \/ (at[c].pc = "polling" /\ Cancel(c))
    PROVE  \E x : Placed(c, x) /\ Wanders(c, x)
<1>1. at \in [Callers -> Doing] /\ at[c] \in Doing
  BY DEF IInv, TypeOK
<1>2. CASE ConnectAgain(c)
  <2>1. Placed(c, at[c]) /\ Wanders(c, at[c])
    BY <1>1, <1>2 DEF ConnectAgain, Comes, Placed, Wanders
  <2> QED BY <2>1
<1>3. CASE at[c].pc = "polling" /\ Cancel(c)
  <2>1. Placed(c, Rest) /\ Wanders(c, Rest)
    BY <1>3, ConnectionAssumption DEF Cancel, Ends, Goes, Placed, Rest, Doing, Wanders
  <2> QED BY <2>1
<1> QED BY <1>2, <1>3

\* Such a step keeps the types, the sessions and the waiting.
LEMMA MoveSafe ==
    ASSUME IInv, NEW c \in Callers, NEW x, Placed(c, x), Moves(c, x) \/ Wanders(c, x)
    PROVE  /\ at' \in [Callers -> Doing] /\ conn' \in [Conns -> States]
           /\ session' \in Conns \cup {None} /\ task' \in Conns \cup {None}
           /\ Waits' /\ SessionLives'
<1> USE DEF adapter
<1>0. TypeOK /\ Waits /\ SessionLives /\ at \in [Callers -> Doing]
  BY DEF IInv, TypeOK
<1>1. at' \in [Callers -> Doing] /\ at'[c] = x /\ \A d \in Callers : d # c => at'[d] = at[d]
  BY <1>0 DEF Placed
<1>2. \A d \in Callers : at'[d].pc = "calling" => at'[d].on # None
  BY <1>0, <1>1 DEF Placed, SessionLives
<1>3. CASE Quiet(c, x)
  BY <1>0, <1>1, <1>2, <1>3 DEF Quiet, TypeOK, Waits, SessionLives
<1>4. CASE Cancels(c, x)
  <2>1. task \in Conns
    BY <1>0, <1>4 DEF Cancels, Pending, TypeOK
  <2>2. conn'[task] \in Dying /\ \A k \in Conns : k # task => conn'[k] = conn[k]
    BY <1>0, <1>4, <2>1 DEF Cancels, Cancelled, TypeOK, Dying
  <2>3. conn[task] \in {"open", "lost", "cancelled"} => conn'[task] = "cancelled"
    BY <1>0, <1>4, <2>1 DEF Cancels, Cancelled, TypeOK
  <2>4. conn' \in [Conns -> States]
    BY <1>0, <1>4, <2>1 DEF Cancels, Cancelled, TypeOK, States
  <2>5. UNCHANGED <<session, task>> /\ x.pc = "cleaning" /\ x.on = task
    BY <1>4 DEF Cancels
  <2>6. SessionLives'
    BY <1>0, <1>2, <2>2, <2>3, <2>5 DEF SessionLives, TypeOK
  <2>7. Waits'
    BY <1>0, <1>1, <2>1, <2>2, <2>5 DEF Waits, Dying
  <2> QED BY <1>0, <1>1, <2>4, <2>5, <2>6, <2>7 DEF TypeOK
<1>5. CASE Clears(c, x)
  BY <1>0, <1>1, <1>2, <1>5 DEF Clears, Placed, TypeOK, Waits, SessionLives
<1>6. ASSUME Creates, x.pc \in {"idle", "calling", "polling"}, session' \in {None, session}
      PROVE  /\ conn' \in [Conns -> States] /\ session' \in Conns \cup {None}
             /\ task' \in Conns \cup {None} /\ Waits' /\ SessionLives'
  <2>1. PICK k \in Free : task' = k /\ conn' = [conn EXCEPT ![k] = "created"]
    BY <1>6 DEF Creates
  <2>2. k \in Conns /\ conn[k] = "none" /\ \A d \in Callers : at[d].on # k
    BY DEF Free
  <2>3. conn' \in [Conns -> States] /\ \A j \in Conns : j # k => conn'[j] = conn[j]
    BY <1>0, <2>1, <2>2 DEF TypeOK, States
  <2>4. SessionLives'
    BY <1>0, <1>2, <1>6, <2>2, <2>3 DEF SessionLives, TypeOK
  <2>5. Waits'
    BY <1>0, <1>1, <1>6, <2>2, <2>3 DEF Waits
  <2> QED BY <1>0, <1>6, <2>1, <2>2, <2>3, <2>4, <2>5 DEF TypeOK
<1>7. CASE Tries(c, x) \/ Doubles(c, x) \/ (Creates /\ UNCHANGED session /\ x.pc = "idle")
  <2>1. Creates /\ x.pc \in {"idle", "calling", "polling"} /\ session' \in {None, session}
    BY <1>7 DEF Tries, Doubles
  <2> QED BY <1>1, <1>6, <2>1
<1>8. CASE UNCHANGED adapter /\ x.pc = "idle"
  BY <1>0, <1>1, <1>2, <1>8 DEF TypeOK, Waits, SessionLives
<1> QED BY <1>3, <1>4, <1>5, <1>1, <1>7, <1>8 DEF Moves, Wanders

\* Nothing is live where a caller clears the fields or finds nothing in them.
LEMMA NothingLive ==
    ASSUME IInv, Linked, NEW c \in Callers, Idles(c), NEW k \in Conns
    PROVE  conn[k] \notin Live
<1> SUFFICES ASSUME conn[k] \in Live PROVE FALSE
  OBVIOUS
<1>1. task = k /\ k # None /\ conn[k] # "none"
  BY ConnectionAssumption DEF Linked, Live
<1>2. at[c].pc = "cleaning" => at[c].on = k
  BY <1>1 DEF Linked
<1> QED BY <1>1, <1>2 DEF Idles, Pending

\* While callers connect one at a time, such a step leaves the fields and the
\* connection together.
LEMMA MoveLinked ==
    ASSUME IInv, Alone, Linked, NEW c \in Callers, NEW x, Placed(c, x), Moves(c, x), Alone'
    PROVE  Linked'
<1> USE DEF adapter
<1>0. TypeOK /\ Waits /\ SessionLives /\ at \in [Callers -> Doing]
  BY DEF IInv, TypeOK
<1>1. at' \in [Callers -> Doing] /\ at'[c] = x /\ \A d \in Callers : d # c => at'[d] = at[d]
  BY <1>0 DEF Placed
<1>2. x.pc \in {"cleaning", "polling"} =>
        \A d \in Callers : d # c => at'[d].pc \notin {"cleaning", "polling", "backoff"}
  BY <1>1 DEF Alone, Connecting
<1>3. \A d \in Callers : Connecting(c) /\ Connecting(d) => d = c
  BY DEF Alone
<1>4. CASE Quiet(c, x)
  <2>1. at[c].pc = "polling" => \A k \in Conns : conn[k] \notin {"created", "opening"}
    <3> SUFFICES ASSUME at[c].pc = "polling", NEW k \in Conns, conn[k] \in {"created", "opening"}
                 PROVE FALSE
      OBVIOUS
    <3>1. session \in Conns /\ conn[session] \in {"open", "lost", "cancelled"}
      BY <1>0, <1>4 DEF Quiet, TypeOK, SessionLives
    <3>2. conn[session] # "cancelled"
      BY <1>3, <3>1 DEF Linked, Dying, Connecting
    <3> QED BY <3>1, <3>2 DEF Linked, Live
  <2>2. at[c].pc # "cleaning" /\ at'[c].pc \in {"idle", "calling"}
    BY <1>1, <1>4 DEF Quiet
  <2> QED BY <1>1, <1>4, <2>1, <2>2 DEF Quiet, Linked
<1>5. CASE Cancels(c, x)
  <2>1. task \in Conns /\ at[c].pc # "cleaning" /\ UNCHANGED <<session, task>>
    BY <1>0, <1>5 DEF Cancels, Pending, TypeOK
  <2>2. conn'[task] \in Dying /\ \A k \in Conns : k # task => conn'[k] = conn[k]
    BY <1>0, <1>5, <2>1 DEF Cancels, Cancelled, TypeOK, Dying
  <2>3. at'[c].pc = "cleaning" /\ at'[c].on = task
    BY <1>1, <1>5 DEF Cancels
  <2>4. \A k \in Conns : k # task => conn[k] \notin Live \cup Dying
    BY <1>1, <1>2, <2>1, <2>3 DEF Linked
  <2> QED BY <1>1, <1>2, <2>1, <2>2, <2>3, <2>4 DEF Linked, Live, Dying
<1>6. CASE Clears(c, x)
  <2>1. \A k \in Conns : conn[k] \notin Live
    BY <1>6, NothingLive DEF Clears
  <2>2. at[c].pc = "cleaning" => conn[at[c].on] = "none"
    BY <1>6 DEF Clears, Idles
  <2>3. \A k \in Conns : conn[k] \in Dying => \E e \in Callers : at'[e].pc = "cleaning" /\ at'[e].on = k
    BY <1>1, <2>2 DEF Linked, Dying
  <2> QED BY <1>6, <2>1, <2>3 DEF Clears, Linked, Live
<1>7. CASE Tries(c, x)
  <2>1. \A k \in Conns : conn[k] \notin Live
    <3>1. CASE Idles(c)
      BY <3>1, NothingLive
    <3>2. CASE session = None /\ at[c].pc \in {"idle", "backoff"}
      <4> SUFFICES ASSUME NEW k \in Conns, conn[k] \in Live PROVE FALSE
        OBVIOUS
      <4>1. task = k /\ k # None
        BY ConnectionAssumption DEF Linked
      <4>2. conn[k] \in {"created", "opening"}
        BY <3>2, <4>1 DEF Linked, Live
      <4>3. PICK d \in Callers : at[d].pc = "polling"
        BY <4>2 DEF Linked
      <4> QED BY <1>1, <1>2, <1>7, <3>2, <4>3 DEF Tries
    <3> QED BY <1>7, <3>1, <3>2 DEF Tries
  <2>2. PICK k \in Conns : conn[k] = "none" /\ task' = k /\ conn' = [conn EXCEPT ![k] = "created"]
    BY <1>7 DEF Tries, Creates, Free
  <2>3. conn'[k] = "created" /\ \A j \in Conns : j # k => conn'[j] = conn[j]
    BY <1>0, <2>2 DEF TypeOK
  <2>4. at[c].pc = "cleaning" => conn[at[c].on] = "none"
    BY <1>7 DEF Tries, Idles
  <2>5. at'[c].pc = "polling"
    BY <1>1, <1>7 DEF Tries
  <2>6. \A j \in Conns : conn'[j] \in Dying => \E e \in Callers : at'[e].pc = "cleaning" /\ at'[e].on = j
    BY <1>1, <2>3, <2>4 DEF Linked, Dying
  <2> QED BY <1>1, <1>2, <1>7, <2>1, <2>2, <2>3, <2>5, <2>6 DEF Tries, Linked, Live
<1>8. CASE Doubles(c, x)
  <2>1. session \in Conns /\ conn[session] \in {"open", "lost", "cancelled"} /\ at[c].pc = "backoff"
    BY <1>0, <1>8 DEF Doubles, TypeOK, SessionLives
  <2>2. conn[session] # "cancelled"
    BY <1>3, <2>1 DEF Linked, Dying, Connecting
  <2> QED BY <2>1, <2>2, ConnectionAssumption DEF Linked, Live
<1> QED BY <1>4, <1>5, <1>6, <1>7, <1>8 DEF Moves

-----------------------------------------------------------------------------
(* What a connection's step does: it changes its own state and _session.   *)

Turns(k) ==
    \/ conn[k] = "created" /\ conn'[k] = "opening" /\ UNCHANGED session
    \/ conn[k] = "opening" /\ conn'[k] = "open" /\ session' = k
    \/ conn[k] = "opening" /\ conn'[k] = "none" /\ session' = None
    \/ conn[k] = "cancelled" /\ conn'[k] = "none" /\ session' = None
    \/ conn[k] = "dropped" /\ conn'[k] = "none" /\ UNCHANGED session
    \/ conn[k] = "open" /\ conn'[k] = "lost" /\ UNCHANGED session

LEMMA ConnTurns ==
    ASSUME TypeOK, NEW k \in Conns,
           Start(k) \/ Open(k) \/ OpenFails(k) \/ Closes(k) \/ LosesLink(k)
    PROVE  /\ Turns(k) /\ UNCHANGED <<task, at>>
           /\ conn' \in [Conns -> States] /\ session' \in Conns \cup {None}
           /\ \A j \in Conns : j # k => conn'[j] = conn[j]
<1>1. conn \in [Conns -> States] /\ session \in Conns \cup {None}
  BY DEF TypeOK
<1>2. CASE Start(k)
  BY <1>1, <1>2 DEF Start, Turns, States
<1>3. CASE Open(k)
  BY <1>1, <1>3 DEF Open, Turns, States
<1>4. CASE OpenFails(k)
  BY <1>1, <1>4 DEF OpenFails, Turns, States
<1>5. CASE Closes(k)
  BY <1>1, <1>5 DEF Closes, Turns, States
<1>6. CASE LosesLink(k)
  BY <1>1, <1>6 DEF LosesLink, Turns, States
<1> QED BY <1>2, <1>3, <1>4, <1>5, <1>6

LEMMA TurnSafe ==
    ASSUME IInv, NEW k \in Conns, Turns(k), UNCHANGED <<task, at>>,
           \A j \in Conns : j # k => conn'[j] = conn[j]
    PROVE  Waits' /\ SessionLives' /\ (Linked => Linked')
<1>1. TypeOK /\ Waits /\ SessionLives
  BY DEF IInv
<1>2. Waits'
  <2>1. conn[k] \in Dying \cup {"none"} => conn'[k] \in Dying \cup {"none"}
    BY DEF Turns, Dying
  <2> QED BY <1>1, <2>1 DEF Waits
<1>3. SessionLives'
  <2>1. session' \in {session, k, None}
    BY DEF Turns
  <2>2. session' = k /\ k # None => conn'[k] \in {"open", "lost", "cancelled"}
    BY <1>1 DEF Turns, SessionLives
  <2>3. session \in Conns \cup {None}
    BY <1>1 DEF TypeOK
  <2> QED BY <1>1, <2>1, <2>2, <2>3 DEF SessionLives
<1>4. ASSUME Linked PROVE Linked'
  <2>1. conn'[k] \in Live => conn[k] \in Live
    BY DEF Turns, Live
  <2>2. \A j \in Conns : conn'[j] \in Live => task' = j
    BY <1>4, <2>1 DEF Linked
  <2>3. task' # None /\ conn'[task'] \in {"open", "lost"} => session' = task'
    <3> SUFFICES ASSUME task # None, conn'[task] \in {"open", "lost"} PROVE session' = task
      OBVIOUS
    <3>1. task \in Conns
      BY <1>1 DEF TypeOK
    <3>2. CASE task = k
      BY <1>4, <3>1, <3>2 DEF Turns, Linked
    <3>3. CASE task # k
      <4>1. conn[task] \in {"open", "lost"} /\ session = task
        BY <1>4, <3>1, <3>3 DEF Linked
      <4>2. conn[k] \notin Live
        BY <1>4, <3>3 DEF Linked
      <4>3. conn[k] \notin Dying
        BY <1>4, <3>3 DEF Linked
      <4> QED BY <4>1, <4>2, <4>3 DEF Turns, Live, Dying
    <3> QED BY <3>2, <3>3
  <2>4. \A j \in Conns : conn'[j] \in Dying => \E c \in Callers : at'[c].pc = "cleaning" /\ at'[c].on = j
    <3>1. conn'[k] \notin Dying
      BY DEF Turns, Dying
    <3> QED BY <1>4, <3>1 DEF Linked
  <2>5. \A j \in Conns : conn'[j] \in {"created", "opening"} => \E c \in Callers : at'[c].pc = "polling"
    <3>1. conn'[k] \in {"created", "opening"} => conn[k] \in {"created", "opening"}
      BY DEF Turns
    <3> QED BY <1>4, <3>1 DEF Linked
  <2>6. /\ \A c \in Callers : at'[c].pc = "backoff" => task' = None
        /\ \A c \in Callers : at'[c].pc = "cleaning" => task' \in {None, at'[c].on}
    BY <1>4 DEF Linked
  <2> QED BY <2>2, <2>3, <2>4, <2>5, <2>6 DEF Linked
<1> QED BY <1>2, <1>3, <1>4

-----------------------------------------------------------------------------
(* The counters and histories keep their types.                            *)

Counted ==
    /\ idle \in BOOLEAN /\ astray \in BOOLEAN /\ late \in BOOLEAN
    /\ solo \in Callers \cup {None}
    /\ runs \in Nat
    /\ result \in {"none", "ok", "failed"}
    /\ ops \in 0 .. MaxOps + MaxAlone /\ faults \in 0 .. MaxFaults

Reckoned ==
    /\ solo \in Callers \cup {None} /\ runs \in Nat /\ late \in BOOLEAN
    /\ faults \in 0 .. MaxFaults

LEMMA FaultCounts ==
    ASSUME Counted, Fine \/ Fault \/ (\E c : Late(c))
    PROVE  Reckoned'
<1>1. CASE Fine
  BY <1>1 DEF Counted, Reckoned, Fine, lone
<1>2. CASE Fault
  <2>1. faults' \in 0 .. MaxFaults
    BY <1>2, ConnectionAssumption DEF Counted, Fault, Fails
  <2>2. solo' = None /\ runs' = 0
    BY <1>2 DEF Fault
  <2>3. late' \in BOOLEAN
    BY <1>2 DEF Fault
  <2> QED BY <2>1, <2>2, <2>3 DEF Reckoned
<1>3. CASE \E c : Late(c)
  <2>1. late' \in BOOLEAN
    BY <1>3 DEF Counted, Late
  <2> QED BY <1>3, <2>1, ConnectionAssumption DEF Counted, Reckoned, Late, Fails
<1> QED BY <1>1, <1>2, <1>3

LEMMA CleanupCounts ==
    ASSUME Counted, NEW c \in Callers, NEW me, Cleanup(c, me) \/ Proceed(c, me)
    PROVE  result' \in {"none", "ok", "failed"}
<1>1. CASE Proceed(c, me)
  BY <1>1 DEF Counted, Proceed, Ends, Attempt
<1>2. CASE UNCHANGED result
  BY <1>2 DEF Counted
<1> QED BY <1>1, <1>2 DEF Cleanup

LEMMA ConnectedCounts ==
    ASSUME Counted, NEW c \in Callers, NEW me, Connected(c, me) \/ Sends(c, me)
    PROVE  result' \in {"none", "ok", "failed"} /\ idle' \in BOOLEAN
<1>1. CASE Sends(c, me)
  BY <1>1 DEF Counted, Sends
<1>2. CASE Ends(c, IF me.stage = "http" THEN "failed" ELSE "ok") /\ UNCHANGED idle
  BY <1>2 DEF Counted, Ends
<1> QED BY <1>1, <1>2 DEF Connected

LEMMA ComesCounts ==
    ASSUME Counted, NEW c \in Callers, Comes(c)
    PROVE  ops' \in 0 .. MaxOps + MaxAlone /\ runs' \in Nat /\ late' \in BOOLEAN
<1>1. late' \in BOOLEAN
  BY DEF Comes
<1>2. ops \in Nat /\ ops' = ops + 1 /\ (ops < MaxOps \/ ops < MaxOps + MaxAlone) /\ runs' = 0
  BY ConnectionAssumption DEF Counted, Comes
<1> QED BY <1>1, <1>2, ConnectionAssumption

\* But for the history of the connections.
Kept ==
    /\ idle \in BOOLEAN /\ result \in {"none", "ok", "failed"}
    /\ Reckoned /\ ops \in 0 .. MaxOps + MaxAlone

LEMMA StepCounts ==
    ASSUME Counted, Next
    PROVE  Counted'
<1>1. astray' \in BOOLEAN
  BY DEF Next, Notes
<1> SUFFICES Kept'
  BY <1>1 DEF Counted, Kept, Reckoned
<1>2. ASSUME NEW c \in Callers, Begin(c) PROVE Kept'
  <2>1. solo' \in {c, None} /\ faults' = faults /\ Comes(c)
    BY <1>2 DEF Begin
  <2>2. PICK me : \/ Attempt(c, me) /\ UNCHANGED <<idle, result>>
                  \/ Cleanup(c, me) /\ UNCHANGED idle
                  \/ Sends(c, me)
    BY <1>2 DEF Begin
  <2>3. result' \in {"none", "ok", "failed"} /\ idle' \in BOOLEAN
    BY <2>2, CleanupCounts, ConnectedCounts DEF Counted
  <2> QED BY <2>1, <2>3, ComesCounts DEF Counted, Kept, Reckoned
<1>3. CASE /\ Fine \/ Fault \/ (\E c : Late(c))
           /\ UNCHANGED ops /\ idle' \in BOOLEAN /\ result' \in {"none", "ok", "failed"}
  BY <1>3, FaultCounts DEF Counted, Kept
<1>4. ASSUME NEW c \in Callers, Cleaned(c) \/ PollTimeout(c)
      PROVE  (Fine \/ Fault) /\ UNCHANGED ops /\ idle' \in BOOLEAN /\ result' \in {"none", "ok", "failed"}
  BY <1>4, CleanupCounts DEF Cleaned, PollTimeout, Counted
<1>5. ASSUME NEW c \in Callers, Poll(c)
      PROVE  Fine /\ UNCHANGED ops /\ idle' \in BOOLEAN /\ result' \in {"none", "ok", "failed"}
  BY <1>5, ConnectedCounts DEF Poll
<1>6. ASSUME NEW c \in Callers, NextAttempt(c)
      PROVE  Fine /\ UNCHANGED ops /\ idle' \in BOOLEAN /\ result' \in {"none", "ok", "failed"}
  BY <1>6, ConnectedCounts DEF NextAttempt, Counted
<1>7. ASSUME NEW c \in Callers, Answer(c)
      PROVE  Fine /\ UNCHANGED ops /\ idle' \in BOOLEAN /\ result' \in {"none", "ok", "failed"}
  BY <1>7 DEF Answer, Ends, Counted
<1>8. ASSUME NEW c \in Callers, Breaks(c)
      PROVE  /\ Fine \/ Fault \/ Late(c)
             /\ UNCHANGED ops /\ idle' \in BOOLEAN /\ result' \in {"none", "ok", "failed"}
  <2>1. (Fine \/ Fault \/ Late(c)) /\ UNCHANGED <<idle, ops>>
    BY <1>8 DEF Breaks
  <2>2. (\E me : Cleanup(c, me)) \/ Ends(c, "failed")
    BY <1>8 DEF Breaks
  <2>3. result' \in {"none", "ok", "failed"}
    BY <2>2, CleanupCounts DEF Ends
  <2> QED BY <2>1, <2>3 DEF Counted
<1>9. ASSUME NEW c \in Callers, Serve(c) PROVE Kept'
  BY <1>9 DEF Serve, Counted, Kept, Reckoned
<1>10. ASSUME NEW k \in Conns, Start(k) \/ Open(k) \/ OpenFails(k) \/ Closes(k) \/ LosesLink(k)
       PROVE  (Fine \/ Fault) /\ UNCHANGED ops /\ idle' \in BOOLEAN /\ result' \in {"none", "ok", "failed"}
  BY <1>10 DEF Start, Open, OpenFails, Closes, LosesLink, Counted
<1>11. ASSUME TimePasses
       PROVE  Fine /\ UNCHANGED ops /\ idle' \in BOOLEAN /\ result' \in {"none", "ok", "failed"}
  BY <1>11 DEF TimePasses, Counted
<1>12. ASSUME NEW c \in Callers, Cancel(c)
       PROVE  Fault /\ UNCHANGED ops /\ idle' \in BOOLEAN /\ result' \in {"none", "ok", "failed"}
  BY <1>12 DEF Cancel, Ends, Counted
<1>13. ASSUME NEW c \in Callers, ConnectAgain(c) PROVE Kept'
  BY <1>13, ComesCounts DEF ConnectAgain, Counted, Kept, Reckoned
<1>14. CASE Progress
  <2> USE <1>14 DEF Progress
  <2> QED BY <1>3, <1>4, <1>5, <1>6, <1>7, <1>8, <1>9, <1>10
<1>15. CASE Outside
  BY <1>2, <1>3, <1>10, <1>11, <1>12, <1>15 DEF Outside
<1>16. CASE Strays
  BY <1>3, <1>12, <1>13, <1>16 DEF Strays
<1> QED BY <1>14, <1>15, <1>16 DEF Next

-----------------------------------------------------------------------------
(* A call nobody disturbs.                                                 *)

\* Whoever cancels a connection waits for its end, gone astray or not.
DyingWaited ==
    \A k \in Conns : conn[k] \in Dying =>
        \E c \in Callers : at[c].pc = "cleaning" /\ at[c].on = k

\* How often the server may have run it before this try.
Before == 0 .. (IF late THEN 1 ELSE 0)

\* How far such a call is: a late answer was that of the first try.  Cleaning
\* up, this try has not run.  Looking for a session, it has found an open one,
\* or its own connection is on the way.  Calling, it does so on an open one, or
\* for the first time and without having been heard on one lost before.
SoloGoes(c) ==
    /\ at[c].pc # "backoff"
    /\ at[c].pc # "idle" =>
          /\ at[c].op = "call" /\ at[c].stage \in {"first", "again"}
          /\ at[c].stage = "first" => ~late
    /\ at[c].pc = "cleaning" => at[c].attempt = 0 /\ runs \in Before
    /\ at[c].pc = "polling" =>
          /\ runs \in Before
          /\ IF session = None
             THEN task # None /\ conn[task] \in {"created", "opening"}
             ELSE conn[session] = "open"
    /\ at[c].pc = "calling" =>
          /\ at[c].attempt = 0
          /\ at[c].on \in Conns
          /\ IF at[c].sent THEN runs - 1 \in Before ELSE runs \in Before
          /\ \/ conn[at[c].on] = "open"
             \/ at[c].stage = "first" /\ ~at[c].sent /\ conn[at[c].on] = "lost"
    /\ at[c].pc = "idle" => result = "ok" /\ runs - 1 \in Before

SoloInv ==
    /\ DyingWaited
    /\ \A c \in Callers : c = solo /\ solo # None =>
          /\ \A d \in Callers : d # c => at[d].pc = "idle"
          /\ SoloGoes(c)

LEMMA SoloProceeds ==
    ASSUME TypeOK, NEW c \in Callers, NEW me \in Doing, Proceed(c, me),
           me.op = "call", me.stage \in {"first", "again"}, me.attempt = 0,
           runs' \in Before', me.stage = "first" => ~late'
    PROVE  SoloGoes(c)' /\ at'[c].op = "call"
<1>1. Attempt(c, me) /\ session' = None
  BY ConnectionAssumption DEF Proceed
<1>2. PICK k \in Conns : conn[k] = "none" /\ task' = k /\ conn' = [conn EXCEPT ![k] = "created"]
  BY <1>1 DEF Attempt, Creates, Free
<1>3. conn'[k] = "created" /\ k # None
  BY <1>2, ConnectionAssumption DEF TypeOK
<1>4. at'[c].pc = "polling" /\ at'[c].op = "call" /\ at'[c].stage = me.stage
  BY <1>1 DEF Attempt, Goes, TypeOK, Doing
<1> QED BY <1>1, <1>2, <1>3, <1>4 DEF SoloGoes

LEMMA SoloCleans ==
    ASSUME TypeOK, NEW c \in Callers, NEW me \in Doing, Cleanup(c, me),
           me.op = "call", me.stage \in {"first", "again"}, me.attempt = 0,
           runs' \in Before', me.stage = "first" => ~late'
    PROVE  SoloGoes(c)' /\ at'[c].op = "call"
<1>1. CASE Goes(c, [me EXCEPT !.pc = "cleaning", !.on = task])
  <2>1. /\ at'[c].pc = "cleaning" /\ at'[c].op = "call" /\ at'[c].stage = me.stage
        /\ at'[c].attempt = 0
    BY <1>1 DEF Goes, TypeOK, Doing
  <2> QED BY <2>1 DEF SoloGoes
<1>2. CASE Proceed(c, me)
  BY <1>2, SoloProceeds
<1> QED BY <1>1, <1>2 DEF Cleanup

LEMMA SoloSends ==
    ASSUME TypeOK, NEW c \in Callers, NEW me \in Doing, Sends(c, me), session # None,
           UNCHANGED conn, me.op = "call", me.stage \in {"first", "again"},
           runs' \in Before', me.stage = "first" => ~late',
           conn[session] = "open" \/ (me.stage = "first" /\ conn[session] = "lost")
    PROVE  SoloGoes(c)' /\ at'[c].op = "call"
<1>1. /\ at'[c].pc = "calling" /\ at'[c].op = "call" /\ at'[c].stage = me.stage
      /\ at'[c].attempt = 0 /\ at'[c].on = session /\ at'[c].sent = FALSE
  BY DEF Sends, Goes, TypeOK, Doing
<1>2. session \in Conns
  BY DEF TypeOK
<1> QED BY <1>1, <1>2 DEF SoloGoes

\* The call begins.
LEMMA SoloBegins ==
    ASSUME IInv, SoloInv, NEW c \in Callers, Begin(c), at'[c].op = "call",
           \A d \in Callers : at[d].pc = "idle"
    PROVE  SoloGoes(c)'
<1>1. /\ TypeOK /\ SessionLives /\ at[c].pc = "idle" /\ at[c] \in Doing
      /\ ~late' /\ runs' \in Before'
  BY DEF IInv, TypeOK, Begin, Comes, Before
<1>2. \A k \in Conns : conn[k] \notin Dying
  BY DEF SoloInv, DyingWaited
<1>3. PICK op \in {"connect", "call", "list", "close"} :
          LET me == [Rest EXCEPT !.op = op]
              drops == session # None /\ idle
          IN  \/ /\ op # "close" /\ session = None
                 /\ Attempt(c, me)
                 /\ UNCHANGED <<session, idle, result>>
              \/ /\ op = "close" \/ (op \in {"call", "list"} /\ drops)
                 /\ Cleanup(c, me)
                 /\ UNCHANGED idle
              \/ /\ op \in {"call", "list"} /\ session # None /\ ~drops
                 /\ Sends(c, me)
                 /\ UNCHANGED adapter
  BY DEF Begin
<1> DEFINE me == [Rest EXCEPT !.op = op]
<1>4. /\ me \in Doing /\ me.op = op /\ me.stage = "first" /\ me.attempt = 0
  <2>1. 0 \in 0 .. Attempts
    BY ConnectionAssumption
  <2> QED BY <2>1 DEF Rest, Doing
<1>5. op = "call"
  <2>1. CASE Attempt(c, me) \/ Sends(c, me)
    <3> HIDE DEF me
    <3>2. at \in [Callers -> Doing]
      BY <1>1 DEF TypeOK
    <3>1. at'[c].op = me.op
      <4>1. CASE Attempt(c, me)
        BY <1>4, <3>2, <4>1 DEF Attempt, Goes, Doing
      <4>2. CASE Sends(c, me)
        BY <1>4, <3>2, <4>2 DEF Sends, Goes, Doing
      <4> QED BY <2>1, <4>1, <4>2
    <3> QED BY <1>4, <3>1
  <2>2. CASE Cleanup(c, me)
    <3>1. CASE Goes(c, [me EXCEPT !.pc = "cleaning", !.on = task])
      BY <1>1, <1>4, <3>1 DEF Goes, TypeOK, Doing
    <3>2. CASE Proceed(c, me)
      <4>1. CASE \E r : Ends(c, r)
        BY <1>1, <4>1, ConnectionAssumption DEF Ends, Goes, Rest, TypeOK
      <4>2. CASE Goes(c, [me EXCEPT !.pc = "backoff", !.on = None])
        BY <1>1, <1>4, <4>2 DEF Goes, TypeOK, Doing
      <4>3. CASE Attempt(c, me)
        BY <1>1, <1>4, <4>3 DEF Attempt, Goes, TypeOK, Doing
      <4> HIDE DEF me
      <4> QED BY <3>2, <4>1, <4>2, <4>3 DEF Proceed
    <3> QED BY <2>2, <3>1, <3>2 DEF Cleanup
  <2> QED BY <1>3, <2>1, <2>2
<1>6. CASE session = None /\ Attempt(c, me) /\ UNCHANGED <<session, idle, result>>
  <2> HIDE DEF me
  <2>1. Proceed(c, me)
    <3>1. me.op # "close" /\ me.stage # "ends" /\ me.attempt = 0
      BY <1>4, <1>5
    <3> QED BY <1>6, <3>1 DEF Proceed, Attempt
  <2> QED BY <1>1, <1>4, <1>5, <2>1, SoloProceeds
<1>7. CASE Cleanup(c, me)
  <2> HIDE DEF me
  <2> QED BY <1>1, <1>4, <1>5, <1>7, SoloCleans
<1>8. CASE session # None /\ Sends(c, me) /\ UNCHANGED adapter
  <2> HIDE DEF me
  <2>1. conn[session] \in {"open", "lost"}
    BY <1>1, <1>2, <1>8 DEF SessionLives, Dying, TypeOK
  <2> QED BY <1>1, <1>4, <1>5, <1>8, <2>1, SoloSends DEF adapter
<1> QED BY <1>3, <1>5, <1>6, <1>7, <1>8

\* It goes on, or something goes wrong and it does not count any more.
LEMMA SoloContinues ==
    ASSUME IInv, SoloInv, NEW c \in Callers, solo = c, solo # None, solo' = c,
           \/ Cleaned(c) \/ Poll(c) \/ PollTimeout(c) \/ NextAttempt(c)
           \/ Serve(c) \/ Answer(c) \/ Breaks(c)
    PROVE  SoloGoes(c)'
<1> USE DEF adapter
<1>1. TypeOK /\ SoloGoes(c) /\ at[c] \in Doing /\ runs \in Nat
  BY DEF IInv, TypeOK, SoloInv
<1>2. ~Fault
  BY DEF Fault
<1>3. CASE Cleaned(c)
  <2>1. /\ at[c].op = "call" /\ at[c].stage \in {"first", "again"} /\ at[c].attempt = 0
        /\ runs' \in Before' /\ (at[c].stage = "first" => ~late') /\ Proceed(c, at[c])
    BY <1>1, <1>2, <1>3 DEF Cleaned, SoloGoes, Fine, lone, Before
  <2> QED BY <1>1, <2>1, SoloProceeds
<1>4. CASE Poll(c)
  <2>1. /\ at[c].op = "call" /\ at[c].stage \in {"first", "again"} /\ session # None
        /\ conn[session] = "open" /\ runs' \in Before' /\ (at[c].stage = "first" => ~late')
        /\ UNCHANGED conn /\ Connected(c, at[c])
    BY <1>1, <1>4 DEF Poll, SoloGoes, Fine, lone, Before
  <2>2. Sends(c, at[c])
    BY <2>1 DEF Connected
  <2> QED BY <1>1, <2>1, <2>2, SoloSends
<1>5. CASE PollTimeout(c)
  <2>1. session = None /\ (task = None \/ conn[task] \notin {"created", "opening"})
    BY <1>2, <1>5 DEF PollTimeout
  <2> QED BY <1>1, <1>5, <2>1 DEF PollTimeout, SoloGoes
<1>6. CASE NextAttempt(c)
  BY <1>1, <1>6 DEF NextAttempt, SoloGoes
<1>7. CASE Serve(c)
  <2>1. at'[c] = [at[c] EXCEPT !.sent = TRUE]
    BY <1>7 DEF Serve, Goes, IInv, TypeOK
  <2>2. /\ at[c].pc = "calling" /\ ~at[c].sent /\ conn[at[c].on] = "open"
        /\ runs' = runs + 1 /\ runs' - 1 = runs /\ UNCHANGED <<conn, late>>
    BY <1>1, <1>7 DEF Serve
  <2>3. /\ at'[c].pc = "calling" /\ at'[c].op = at[c].op /\ at'[c].stage = at[c].stage
        /\ at'[c].attempt = at[c].attempt /\ at'[c].on = at[c].on /\ at'[c].sent = TRUE
    BY <1>1, <2>1, <2>2 DEF Doing
  <2>4. Before' = Before
    BY <2>2 DEF Before
  <2> QED BY <1>1, <2>2, <2>3, <2>4 DEF SoloGoes
<1>8. CASE Answer(c)
  <2>1. at'[c] = Rest /\ result' = "ok" /\ runs' = runs /\ at[c].sent /\ at[c].pc = "calling"
    BY <1>8 DEF Answer, Ends, Goes, IInv, TypeOK, Fine, lone
  <2>2. Before' = Before
    BY <1>8 DEF Answer, Fine, lone, Before
  <2> QED BY <1>1, <2>1, <2>2 DEF SoloGoes, Rest
<1>9. CASE Breaks(c)
  <2>1. PICK how \in {"closed", "timeout", "http", "other"} :
          LET lost == at[c].on = None \/ conn[at[c].on] # "open"
              first == at[c].stage = "first" /\ how # "other"
              me == [at[c] EXCEPT
                       !.stage = IF at[c].op = "list" /\ how # "closed" THEN "ends"
                                 ELSE IF how = "http" THEN "http" ELSE "again"]
          IN  /\ how = "closed" => lost
              /\ IF lost /\ how \in {"closed", "timeout"} THEN Fine
                 ELSE IF first /\ how = "timeout" THEN Late(c) ELSE Fault
              /\ IF first THEN Cleanup(c, me) ELSE Ends(c, "failed") /\ UNCHANGED adapter
    BY <1>9 DEF Breaks
  <2>2. /\ at[c].pc = "calling" /\ at[c].op = "call" /\ at[c].on # None /\ at[c].attempt = 0
    BY <1>1, <1>9, ConnectionAssumption DEF Breaks, SoloGoes
  <2>3. how \in {"closed", "timeout"} /\ at[c].stage = "first" /\ ~late
    BY <1>1, <1>2, <2>1, <2>2 DEF SoloGoes
  <2>4. runs' \in 0 .. (IF late' THEN 1 ELSE 0)
    <3>1. CASE conn[at[c].on] # "open"
      <4>1. Fine /\ ~at[c].sent
        BY <1>1, <2>1, <2>2, <2>3, <3>1 DEF SoloGoes
      <4> QED BY <1>1, <2>2, <2>3, <4>1 DEF SoloGoes, Fine, lone, Before
    <3>2. CASE conn[at[c].on] = "open"
      <4>1. Late(c)
        BY <2>1, <2>2, <2>3, <3>2
      <4>2. late' /\ runs' = runs
        BY <4>1 DEF Late
      <4>3. runs \in 0 .. 1
        BY <1>1, <2>2, <2>3 DEF SoloGoes, Before
      <4> QED BY <4>2, <4>3
    <3> QED BY <3>1, <3>2
  <2> DEFINE me == [at[c] EXCEPT !.stage = "again"]
  <2>5. Cleanup(c, me)
    BY <2>1, <2>2, <2>3
  <2>6. me \in Doing /\ me.op = "call" /\ me.stage = "again" /\ me.attempt = 0
    BY <1>1, <2>2 DEF Doing
  <2> HIDE DEF me
  <2> QED BY <1>1, <2>4, <2>5, <2>6, SoloCleans DEF Before
<1> QED BY <1>3, <1>4, <1>5, <1>6, <1>7, <1>8, <1>9

\* What the connections do does not disturb it, if it is no fault.
LEMMA SoloRides ==
    ASSUME IInv, SoloInv, NEW c \in Callers, c = solo, solo # None, solo' = solo, UNCHANGED at,
           NEW k \in Conns, Start(k) \/ Open(k) \/ OpenFails(k) \/ Closes(k) \/ LosesLink(k)
    PROVE  SoloGoes(c)'
<1>1. TypeOK /\ SoloGoes(c)
  BY DEF IInv, SoloInv
<1>2. /\ UNCHANGED <<task, at, result, runs, late>> /\ Before' = Before
      /\ Start(k) \/ Open(k) \/ Closes(k)
  BY DEF Start, Open, OpenFails, Closes, LosesLink, Fault, Fine, lone, Before
<1>3. conn \in [Conns -> States]
  BY <1>1 DEF TypeOK
<1>4. CASE Start(k) \/ Open(k)
  <2>1. /\ \A j \in Conns : j # k => conn'[j] = conn[j]
        /\ conn[k] \in {"created", "opening"} /\ conn'[k] \in {"opening", "open"}
    BY <1>3, <1>4 DEF Start, Open
  <2>2. session' = session \/ (session' = k /\ conn'[k] = "open")
    BY <1>3, <1>4 DEF Start, Open
  <2>3. session \in Conns \cup {None} /\ task \in Conns \cup {None} /\ k # None /\ session # k
    BY <1>1, <2>1, ConnectionAssumption DEF TypeOK, IInv, SessionLives
  <2>4. session' = session => conn'[k] = "opening"
    BY <1>3, <1>4, <2>1, <2>3 DEF Start, Open
  <2> QED BY <1>1, <1>2, <2>1, <2>2, <2>3, <2>4 DEF SoloGoes
<1>5. CASE Closes(k)
  <2>1. \E d \in Callers : at[d].pc = "cleaning" /\ at[d].on = k
    BY <1>5 DEF Closes, SoloInv, DyingWaited, Dying
  <2>2. at[c].pc = "cleaning"
    BY <2>1 DEF SoloInv
  <2> QED BY <1>1, <1>2, <2>2 DEF SoloGoes
<1> QED BY <1>2, <1>4, <1>5

LEMMA DyingStep ==
    ASSUME IInv, DyingWaited, Next
    PROVE  DyingWaited'
<1> USE DEF adapter
<1>0. TypeOK /\ Waits /\ at \in [Callers -> Doing] /\ conn \in [Conns -> States]
  BY DEF IInv, TypeOK
<1>1. ASSUME NEW c \in Callers,
             \/ Begin(c) \/ Cleaned(c) \/ Poll(c) \/ PollTimeout(c) \/ NextAttempt(c)
             \/ Serve(c) \/ Answer(c) \/ Breaks(c) \/ ConnectAgain(c)
             \/ (at[c].pc \in {"backoff", "calling", "polling"} /\ Cancel(c))
      PROVE  DyingWaited'
  <2>1. PICK x : Placed(c, x) /\ (Moves(c, x) \/ Wanders(c, x))
    BY <1>1, CallerMoves, StrayMoves
  <2>2. at'[c] = x /\ \A d \in Callers : d # c => at'[d] = at[d]
    BY <1>0, <2>1 DEF Placed
  <2>3. ASSUME \A j \in Conns : conn'[j] \in Dying => conn[j] \in Dying,
               at[c].pc # "cleaning" \/ conn[at[c].on] = "none"
        PROVE  DyingWaited'
    BY <2>2, <2>3 DEF DyingWaited, Dying
  <2>4. CASE Quiet(c, x)
    BY <2>3, <2>4 DEF Quiet
  <2>5. CASE Cancels(c, x)
    <3>1. \A j \in Conns : j # task => conn'[j] = conn[j]
      BY <1>0, <2>5 DEF Cancels
    <3> QED BY <2>2, <2>5, <3>1 DEF Cancels, DyingWaited
  <2>6. CASE Clears(c, x)
    BY <2>3, <2>6 DEF Clears, Idles
  <2>7. CASE Tries(c, x) \/ Doubles(c, x)
    <3>1. \A j \in Conns : conn'[j] \in Dying => conn[j] \in Dying
      BY <1>0, <2>7 DEF Tries, Doubles, Creates, Free, Dying
    <3> QED BY <2>3, <2>7, <3>1 DEF Tries, Doubles, Idles
  <2>8. CASE Wanders(c, x)
    <3>1. \A j \in Conns : conn'[j] \in Dying => conn[j] \in Dying
      BY <1>0, <2>8 DEF Wanders, Creates, Free, Dying
    <3> QED BY <2>3, <2>8, <3>1 DEF Wanders
  <2> QED BY <2>1, <2>4, <2>5, <2>6, <2>7, <2>8 DEF Moves
<1>2. ASSUME NEW k \in Conns, Start(k) \/ Open(k) \/ OpenFails(k) \/ Closes(k) \/ LosesLink(k)
      PROVE  DyingWaited'
  <2>1. /\ Turns(k) /\ UNCHANGED <<task, at>>
        /\ \A j \in Conns : j # k => conn'[j] = conn[j]
    BY <1>0, <1>2, ConnTurns
  <2>2. conn'[k] \notin Dying
    BY <2>1 DEF Turns, Dying
  <2> QED BY <2>1, <2>2 DEF DyingWaited
<1>3. CASE TimePasses
  BY <1>3 DEF TimePasses, DyingWaited
<1> QED BY <1>1, <1>2, <1>3 DEF Next, Progress, Outside, Strays

LEMMA SoloStep ==
    ASSUME IInv, SoloInv, Next
    PROVE  SoloInv'
<1> USE DEF adapter
<1>0. TypeOK /\ at \in [Callers -> Doing] /\ solo \in Callers \cup {None}
  BY DEF IInv, TypeOK
<1>1. DyingWaited'
  BY DyingStep DEF SoloInv
<1> SUFFICES ASSUME NEW c \in Callers, solo' = c, c # None
             PROVE  (\A d \in Callers : d # c => at'[d].pc = "idle") /\ SoloGoes(c)'
  BY <1>1 DEF SoloInv
<1>2. ASSUME NEW b \in Callers, Begin(b)
      PROVE  (\A d \in Callers : d # c => at'[d].pc = "idle") /\ SoloGoes(c)'
  <2>1. b = c /\ at'[c].op = "call" /\ \A d \in Callers : at[d].pc = "idle"
    BY <1>2 DEF Begin, Quiescent
  <2>2. PICK x : Placed(c, x)
    BY <1>2, <2>1, CallerMoves
  <2>3. \A d \in Callers : d # c => at'[d] = at[d]
    BY <1>0, <2>2 DEF Placed
  <2> QED BY <1>2, <2>1, <2>3, SoloBegins
<1>3. ASSUME NEW b \in Callers,
             \/ Cleaned(b) \/ Poll(b) \/ PollTimeout(b) \/ NextAttempt(b)
             \/ Serve(b) \/ Answer(b) \/ Breaks(b)
      PROVE  (\A d \in Callers : d # c => at'[d].pc = "idle") /\ SoloGoes(c)'
  <2>1. at[b].pc # "idle"
    BY <1>3 DEF Cleaned, Poll, PollTimeout, NextAttempt, Serve, Answer, Breaks
  <2>2. Fine \/ Fault \/ solo' = solo
    BY <1>3 DEF Cleaned, Poll, PollTimeout, NextAttempt, Serve, Answer, Breaks, Late
  <2>3. solo = c
    BY <2>2 DEF Fine, Fault, lone
  <2>4. b = c
    BY <2>1, <2>3 DEF SoloInv
  <2>5. PICK x : Placed(c, x)
    BY <1>3, <2>4, CallerMoves
  <2>6. \A d \in Callers : d # c => at'[d] = at[d]
    BY <1>0, <2>5 DEF Placed
  <2>7. SoloGoes(c)'
    BY <1>3, <2>3, <2>4, SoloContinues
  <2> QED BY <2>3, <2>6, <2>7 DEF SoloInv
<1>4. ASSUME NEW k \in Conns, Start(k) \/ Open(k) \/ OpenFails(k) \/ Closes(k) \/ LosesLink(k)
      PROVE  (\A d \in Callers : d # c => at'[d].pc = "idle") /\ SoloGoes(c)'
  <2>1. UNCHANGED at /\ (Fine \/ Fault)
    BY <1>4 DEF Start, Open, OpenFails, Closes, LosesLink
  <2>2. solo' = solo /\ c = solo
    BY <2>1 DEF Fine, Fault, lone
  <2>3. SoloGoes(c)'
    BY <1>4, <2>1, <2>2, SoloRides
  <2> QED BY <2>1, <2>2, <2>3 DEF SoloInv
<1>5. CASE TimePasses
  <2>1. UNCHANGED <<session, task, conn, at, result, runs, late, solo>>
    BY <1>5 DEF TimePasses, Fine, lone
  <2> QED BY <2>1 DEF SoloInv, SoloGoes, Before
<1>6. ASSUME NEW b \in Callers PROVE ~Cancel(b) /\ ~ConnectAgain(b)
  BY DEF Cancel, ConnectAgain, Fault
<1> QED BY <1>2, <1>3, <1>4, <1>5, <1>6 DEF Next, Progress, Outside, Strays

-----------------------------------------------------------------------------
(* The invariant.                                                          *)

LEMMA InitInv == Init => IInv
<1> SUFFICES ASSUME Init PROVE IInv
  OBVIOUS
<1>1. Rest \in Doing
  BY ConnectionAssumption DEF Rest, Doing
<1>2. TypeOK
  <2>1. 0 \in 0 .. MaxOps + MaxAlone /\ 0 \in 0 .. MaxFaults /\ 0 \in Nat
    BY ConnectionAssumption
  <2>2. conn \in [Conns -> States] /\ at \in [Callers -> Doing]
    BY <1>1 DEF Init, States
  <2> QED BY <2>1, <2>2 DEF Init, TypeOK
<1>3. Waits /\ SessionLives
  BY DEF Init, Waits, SessionLives, Rest
<1>4. Alone /\ Linked
  BY DEF Init, Alone, Connecting, Linked, Live, Dying, Rest
<1> QED BY <1>2, <1>3, <1>4 DEF IInv

LEMMA NextInv == IInv /\ [Next]_vars => IInv'
<1> SUFFICES ASSUME IInv, [Next]_vars PROVE IInv'
  OBVIOUS
<1>0. TypeOK /\ Counted /\ (~astray => Alone /\ Linked)
  BY DEF IInv, TypeOK, Counted
<1>1. CASE UNCHANGED vars
  BY <1>1 DEF IInv, vars, adapter, lone, TypeOK, Waits, SessionLives, Alone, Linked, Connecting
<1>2. CASE Next
  <2>1. Counted'
    BY <1>0, <1>2, StepCounts
  <2>2. ~astray' => ~astray /\ Alone' /\ (Progress \/ Outside)
    BY <1>0, <1>2 DEF Next, Notes, Counted, Alone
  <2>3. SUFFICES /\ at' \in [Callers -> Doing] /\ conn' \in [Conns -> States]
                 /\ session' \in Conns \cup {None} /\ task' \in Conns \cup {None}
                 /\ Waits' /\ SessionLives'
                 /\ (Progress \/ Outside) /\ Alone /\ Alone' /\ Linked => Linked'
    BY <1>0, <2>1, <2>2 DEF IInv, TypeOK, Counted
  <2>4. ASSUME NEW c \in Callers,
               \/ Begin(c) \/ Cleaned(c) \/ Poll(c) \/ PollTimeout(c) \/ NextAttempt(c)
               \/ Serve(c) \/ Answer(c) \/ Breaks(c)
               \/ (at[c].pc \in {"backoff", "calling"} /\ Cancel(c))
        PROVE  /\ at' \in [Callers -> Doing] /\ conn' \in [Conns -> States]
               /\ session' \in Conns \cup {None} /\ task' \in Conns \cup {None}
               /\ Waits' /\ SessionLives'
               /\ Alone /\ Alone' /\ Linked => Linked'
    <3>1. PICK x : Placed(c, x) /\ Moves(c, x)
      BY <2>4, CallerMoves
    <3>2. /\ at' \in [Callers -> Doing] /\ conn' \in [Conns -> States]
          /\ session' \in Conns \cup {None} /\ task' \in Conns \cup {None}
          /\ Waits' /\ SessionLives'
      BY <3>1, MoveSafe
    <3>3. Alone /\ Alone' /\ Linked => Linked'
      BY <3>1, MoveLinked
    <3> QED BY <3>2, <3>3
  <2>5. ASSUME NEW k \in Conns, Start(k) \/ Open(k) \/ OpenFails(k) \/ Closes(k) \/ LosesLink(k)
        PROVE  /\ at' \in [Callers -> Doing] /\ conn' \in [Conns -> States]
               /\ session' \in Conns \cup {None} /\ task' \in Conns \cup {None}
               /\ Waits' /\ SessionLives'
               /\ Alone /\ Alone' /\ Linked => Linked'
    <3>1. /\ Turns(k) /\ UNCHANGED <<task, at>>
          /\ conn' \in [Conns -> States] /\ session' \in Conns \cup {None}
          /\ \A j \in Conns : j # k => conn'[j] = conn[j]
      BY <1>0, <2>5, ConnTurns
    <3>2. Waits' /\ SessionLives' /\ (Linked => Linked')
      BY <3>1, TurnSafe
    <3> QED BY <1>0, <3>1, <3>2 DEF TypeOK
  <2>6. CASE TimePasses
    BY <1>0, <2>6 DEF TimePasses, adapter, IInv, TypeOK, Waits, SessionLives, Linked
  <2>7. CASE Progress
    BY <2>4, <2>5, <2>7 DEF Progress
  <2>8. CASE Outside
    BY <2>4, <2>5, <2>6, <2>8 DEF Outside
  <2>9. CASE ~(Progress \/ Outside)
    <3>1. PICK c \in Callers : ConnectAgain(c) \/ (at[c].pc = "polling" /\ Cancel(c))
      BY <1>2, <2>9 DEF Next, Strays
    <3>2. PICK x : Placed(c, x) /\ Wanders(c, x)
      BY <3>1, StrayMoves
    <3> QED BY <2>9, <3>2, MoveSafe
  <2> QED BY <2>7, <2>8, <2>9
<1> QED BY <1>1, <1>2

LEMMA Invariant == Spec => []IInv
BY InitInv, NextInv, PTL DEF Spec

\* The adapter's fields, its connections and its callers keep their types.
THEOREM TypeCorrect == Spec => []TypeOK
<1>1. IInv => TypeOK
  BY DEF IInv
<1> QED BY <1>1, Invariant, PTL

\* However many tasks share the adapter, whatever fails: _session is never
\* the session of a connection that has ended, and a request always goes out
\* on some session.
THEOREM SessionsLive == Spec => []SessionLives
<1>1. IInv => SessionLives
  BY DEF IInv
<1> QED BY <1>1, Invariant, PTL

\* A connection that no field names is left only by tasks that connected or
\* cleaned up at the same time, by a connect over a connection already there,
\* or by a task cancelled in connect: for any number of tasks, retries, faults.
THEOREM OrphansExplained == Spec => []OrphansHaveCause
<1>1. IInv => OrphansHaveCause
  BY DEF IInv, OrphansHaveCause, Linked, Live
<1> QED BY <1>1, Invariant, PTL

\* A call with no company and no fault but a late answer is answered, and the
\* server has run it once, or twice at most if its first answer was late:
\* whatever earlier operations left in the adapter.
THEOREM UndisturbedAnswered == Spec => []SoloSucceeds
<1>1. Init => SoloInv
  BY DEF Init, SoloInv, DyingWaited, Dying
<1>2. IInv /\ SoloInv /\ [Next]_vars => SoloInv'
  <2>1. CASE Next
    BY <2>1, SoloStep
  <2>2. CASE UNCHANGED vars
    BY <2>2 DEF vars, adapter, lone, SoloInv, DyingWaited, SoloGoes, Before
  <2> QED BY <2>1, <2>2
<1>3. IInv /\ SoloInv => SoloSucceeds
  BY DEF IInv, TypeOK, SoloInv, SoloGoes, SoloSucceeds, Before
<1> QED BY <1>1, <1>2, <1>3, Invariant, PTL DEF Spec
-----------------------------------------------------------------------------
(* Nobody waits for what will not come: the safety half of CallsEnd.       *)
(* Whatever is under way can go on, and every step takes it further.       *)

\* The guards of the steps of Progress, while a name is left for a new
\* connection.
CanMove ==
    \/ \E k \in Conns : conn[k] \in {"created", "opening"} \cup Dying
    \/ \E c \in Callers :
          \/ at[c].pc = "cleaning" /\ conn[at[c].on] = "none"
          \/ /\ at[c].pc = "polling"
             /\ session # None \/ task = None \/ conn[task] \notin {"created", "opening"}
          \/ at[c].pc \in {"backoff", "calling"}

NobodyStuck == (\E c \in Callers : at[c].pc # "idle") /\ Free # {} => CanMove

LEMMA WaitsMove ==
    ASSUME IInv
    PROVE  NobodyStuck
<1> SUFFICES ASSUME NEW c \in Callers, at[c].pc # "idle" PROVE CanMove
  BY DEF NobodyStuck
<1>1. TypeOK /\ Waits /\ at[c] \in Doing
  BY DEF IInv, TypeOK
<1>2. CASE at[c].pc = "cleaning"
  BY <1>1, <1>2 DEF Waits, CanMove
<1>3. CASE at[c].pc = "polling"
  BY <1>1, <1>3 DEF TypeOK, CanMove
<1>4. CASE at[c].pc \in {"backoff", "calling"}
  BY <1>4 DEF CanMove
<1> QED BY <1>1, <1>2, <1>3, <1>4 DEF Doing

\* What a caller has before it: a second try if this is the first, the
\* attempts left, and where it is in one.
SecondTry(stage) == IF stage = "first" THEN 3 * Attempts + 4 ELSE 0

ToClean(x) == SecondTry(x.stage) + 3 * (Attempts - x.attempt) + 3

Left(x) ==
    CASE x.pc = "idle" -> 0
      [] x.pc = "calling" -> SecondTry(x.stage) + (IF x.sent THEN 1 ELSE 2)
      [] x.pc = "backoff" -> ToClean(x) - 1
      [] x.pc = "cleaning" -> ToClean(x)
      [] x.pc = "polling" -> ToClean(x) + 1

\* What a connection does by itself.
Ahead(k) ==
    CASE conn[k] = "created" -> 3 [] conn[k] = "opening" -> 2
      [] conn[k] \in Dying -> 1 [] OTHER -> 0

\* A caller begins, or has less before it; or, with no caller moved, a
\* connection has less before it, something has gone wrong, or an adapter
\* that nobody uses has become idle.
Forward ==
    \/ \E c \in Callers :
          /\ \A d \in Callers : d # c => at'[d] = at[d]
          /\ Left(at'[c]) \in Nat
          /\ Left(at'[c]) < Left(at[c]) \/ (at[c].pc = "idle" /\ ops' = ops + 1)
    \/ /\ UNCHANGED <<at, ops>>
       /\ \/ \E k \in Conns :
                /\ \A j \in Conns : j # k => conn'[j] = conn[j]
                /\ Ahead(k)' < Ahead(k) \/ faults' = faults + 1
          \/ UNCHANGED conn /\ ~idle /\ idle'

LEMMA LeftNat ==
    ASSUME NEW x \in Doing
    PROVE  /\ ToClean(x) \in Nat /\ ToClean(x) >= 3 /\ Left(x) \in Nat
           /\ x.stage # "first" => ToClean(x) <= 3 * Attempts + 3
<1>1. Attempts \in Nat /\ x.attempt \in 0 .. Attempts
  BY ConnectionAssumption DEF Doing
<1>2. SecondTry(x.stage) \in Nat
  BY <1>1 DEF SecondTry
<1>3. ToClean(x) \in Nat /\ ToClean(x) >= 3
  BY <1>1, <1>2 DEF ToClean
<1>4. x.stage # "first" => ToClean(x) <= 3 * Attempts + 3
  BY <1>1 DEF ToClean, SecondTry
<1> QED BY <1>2, <1>3, <1>4 DEF Left, Doing

LEMMA ProceedLeft ==
    ASSUME TypeOK, NEW c \in Callers, NEW me \in Doing, Proceed(c, me)
    PROVE  /\ \A d \in Callers : d # c => at'[d] = at[d]
           /\ Left(at'[c]) \in Nat /\ Left(at'[c]) < ToClean(me)
<1>1. Attempts \in Nat /\ Attempts # 0 /\ me.attempt \in 0 .. Attempts
  BY ConnectionAssumption DEF Doing
<1>2. ToClean(me) \in Nat /\ ToClean(me) >= 3
  BY LeftNat
<1>3. ASSUME NEW x \in Doing, Goes(c, x), Left(x) < ToClean(me)
      PROVE  /\ \A d \in Callers : d # c => at'[d] = at[d]
             /\ Left(at'[c]) \in Nat /\ Left(at'[c]) < ToClean(me)
  BY <1>3, LeftNat DEF Goes, TypeOK
<1>4. CASE Goes(c, Rest)
  <2>1. Rest \in Doing /\ Left(Rest) = 0
    BY ConnectionAssumption DEF Rest, Doing, Left
  <2> QED BY <1>2, <1>3, <1>4, <2>1
<1>5. CASE Goes(c, [me EXCEPT !.pc = "backoff", !.on = None])
  <2> DEFINE x == [me EXCEPT !.pc = "backoff", !.on = None]
  <2>1. x \in Doing /\ x.pc = "backoff" /\ x.stage = me.stage /\ x.attempt = me.attempt
    BY DEF Doing
  <2>2. Left(x) = ToClean(me) - 1
    BY <2>1 DEF Left, ToClean
  <2> QED BY <1>2, <1>3, <1>5, <2>1, <2>2
<1>6. CASE me.attempt = 0 /\ Attempt(c, me)
  <2> DEFINE x == [me EXCEPT !.pc = "polling", !.attempt = @ + 1, !.on = None]
  <2>1. me.attempt + 1 = 1 /\ 1 \in 0 .. Attempts
    BY <1>1, <1>6
  <2>2. x \in Doing /\ x.pc = "polling" /\ x.stage = me.stage /\ x.attempt = 1
    BY <2>1 DEF Doing
  <2>3. Left(x) = ToClean(x) + 1
    BY <2>2 DEF Left
  <2>4. ToClean(me) = ToClean(x) + 3
    <3>1. SecondTry(me.stage) \in Nat
      BY <1>1 DEF SecondTry
    <3> QED BY <1>1, <1>6, <2>2, <3>1 DEF ToClean
  <2>5. Left(x) < ToClean(me)
    BY <2>2, <2>3, <2>4, LeftNat
  <2> QED BY <1>3, <1>6, <2>2, <2>5 DEF Attempt
<1> QED BY <1>4, <1>5, <1>6 DEF Proceed, Ends

LEMMA CleanupLeft ==
    ASSUME TypeOK, NEW c \in Callers, NEW me \in Doing, Cleanup(c, me)
    PROVE  /\ \A d \in Callers : d # c => at'[d] = at[d]
           /\ Left(at'[c]) \in Nat /\ Left(at'[c]) <= ToClean(me)
<1>1. ToClean(me) \in Nat
  BY LeftNat
<1>2. CASE Pending(task)
  <2> DEFINE x == [me EXCEPT !.pc = "cleaning", !.on = task]
  <2>1. x \in Doing /\ x.pc = "cleaning" /\ x.stage = me.stage /\ x.attempt = me.attempt
    BY DEF Doing, TypeOK
  <2>2. Left(x) = ToClean(me)
    BY <2>1 DEF Left, ToClean
  <2>3. Goes(c, x)
    BY <1>2 DEF Cleanup
  <2>4. at'[c] = x /\ \A d \in Callers : d # c => at'[d] = at[d]
    BY <2>3 DEF Goes, TypeOK
  <2> QED BY <1>1, <2>2, <2>4
<1>3. CASE ~Pending(task)
  BY <1>1, <1>3, ProceedLeft DEF Cleanup
<1> QED BY <1>2, <1>3

LEMMA ConnectedLeft ==
    ASSUME TypeOK, NEW c \in Callers, Connected(c, at[c]), at[c].pc \in {"polling", "backoff"},
           at[c].pc = "backoff" => at[c].attempt < Attempts
    PROVE  /\ \A d \in Callers : d # c => at'[d] = at[d]
           /\ Left(at'[c]) \in Nat /\ Left(at'[c]) < Left(at[c])
<1>1. at[c] \in Doing /\ Attempts \in Nat /\ at[c].attempt \in 0 .. Attempts
  BY ConnectionAssumption DEF TypeOK, Doing
<1>2. SecondTry(at[c].stage) \in Nat
  BY <1>1 DEF SecondTry
<1>3. Left(at[c]) \in Nat /\ Left(at[c]) > SecondTry(at[c].stage) + 2
  <2>1. CASE at[c].pc = "polling"
    BY <1>1, <1>2, <2>1 DEF Left, ToClean
  <2>2. CASE at[c].pc = "backoff"
    BY <1>1, <1>2, <2>2 DEF Left, ToClean
  <2> QED BY <2>1, <2>2
<1>4. CASE Sends(c, at[c])
  <2> DEFINE x == [at[c] EXCEPT !.pc = "calling", !.attempt = 0, !.on = session, !.sent = FALSE]
  <2>1. x.pc = "calling" /\ x.stage = at[c].stage /\ x.sent = FALSE
    BY <1>1 DEF Doing
  <2>2. Left(x) = SecondTry(at[c].stage) + 2
    BY <2>1 DEF Left
  <2>3. at'[c] = x /\ \A d \in Callers : d # c => at'[d] = at[d]
    BY <1>4 DEF Sends, Goes, TypeOK
  <2> QED BY <1>2, <1>3, <2>2, <2>3
<1>5. CASE Goes(c, Rest)
  <2>1. at'[c] = Rest /\ Left(Rest) = 0 /\ \A d \in Callers : d # c => at'[d] = at[d]
    BY <1>5 DEF Goes, TypeOK, Rest, Left
  <2> QED BY <1>2, <1>3, <2>1
<1> QED BY <1>4, <1>5 DEF Connected, Ends

\* A step of a caller leaves the others where they are, and less before it,
\* unless it begins.
LEMMA CallerForward ==
    ASSUME IInv, NEW c \in Callers,
           \/ Begin(c) \/ Cleaned(c) \/ Poll(c) \/ PollTimeout(c) \/ NextAttempt(c)
           \/ Serve(c) \/ Answer(c) \/ Breaks(c) \/ ConnectAgain(c)
           \/ (at[c].pc \in {"backoff", "calling", "polling"} /\ Cancel(c))
    PROVE  /\ \A d \in Callers : d # c => at'[d] = at[d]
           /\ Left(at'[c]) \in Nat
           /\ Left(at'[c]) < Left(at[c]) \/ (at[c].pc = "idle" /\ ops' = ops + 1)
<1>0. TypeOK /\ Waits /\ at[c] \in Doing /\ Attempts \in Nat
  BY ConnectionAssumption DEF IInv, TypeOK
<1>1. Left(at[c]) \in Nat /\ ToClean(at[c]) \in Nat
  BY <1>0, LeftNat
<1>2. CASE Begin(c)
  <2>1. PICK x : Placed(c, x)
    BY <1>2, CallerMoves
  <2>2. x \in Doing /\ at'[c] = x /\ \A d \in Callers : d # c => at'[d] = at[d]
    BY <1>0, <2>1 DEF Placed, TypeOK
  <2> QED BY <1>2, <2>2, LeftNat DEF Begin, Comes
<1>3. CASE Cleaned(c)
  <2>1. Left(at[c]) = ToClean(at[c]) /\ Proceed(c, at[c])
    BY <1>3 DEF Cleaned, Left
  <2> QED BY <1>0, <2>1, ProceedLeft
<1>4. CASE Poll(c)
  BY <1>0, <1>4, ConnectedLeft DEF Poll
<1>5. CASE PollTimeout(c)
  <2>1. Left(at[c]) = ToClean(at[c]) + 1 /\ Cleanup(c, at[c])
    BY <1>5 DEF PollTimeout, Left
  <2> QED BY <1>0, <1>1, <2>1, CleanupLeft
<1>6. CASE NextAttempt(c)
  <2>1. at[c].pc = "backoff" /\ at[c].attempt < Attempts /\ at[c].attempt \in 0 .. Attempts
    BY <1>0, <1>6 DEF NextAttempt, Waits, Doing
  <2>2. CASE Attempt(c, at[c])
    <3> DEFINE x == [at[c] EXCEPT !.pc = "polling", !.attempt = @ + 1, !.on = None]
    <3>1. /\ x \in Doing /\ x.pc = "polling" /\ x.stage = at[c].stage
          /\ x.attempt = at[c].attempt + 1
      <4>1. at[c].attempt + 1 \in 0 .. Attempts
        BY <1>0, <2>1
      <4> QED BY <1>0, <4>1 DEF Doing
    <3>2. at'[c] = x /\ \A d \in Callers : d # c => at'[d] = at[d]
      BY <1>0, <2>2 DEF Attempt, Goes, TypeOK
    <3>3. Left(x) = ToClean(x) + 1 /\ Left(at[c]) = ToClean(at[c]) - 1
      BY <2>1, <3>1 DEF Left
    <3>4. ToClean(x) = ToClean(at[c]) - 3
      <4>1. SecondTry(at[c].stage) \in Nat
        BY <1>0 DEF SecondTry
      <4> QED BY <1>0, <2>1, <3>1, <4>1 DEF ToClean
    <3> HIDE DEF x
    <3> QED BY <1>1, <3>1, <3>2, <3>3, <3>4, LeftNat
  <2>3. CASE Connected(c, at[c])
    BY <1>0, <2>1, <2>3, ConnectedLeft
  <2> QED BY <1>6, <2>2, <2>3 DEF NextAttempt
<1>7. CASE Serve(c)
  <2> DEFINE x == [at[c] EXCEPT !.sent = TRUE]
  <2>1. /\ at[c].pc = "calling" /\ ~at[c].sent
        /\ x \in Doing /\ x.pc = "calling" /\ x.stage = at[c].stage /\ x.sent
    BY <1>0, <1>7 DEF Serve, Doing
  <2>2. at'[c] = x /\ \A d \in Callers : d # c => at'[d] = at[d]
    BY <1>0, <1>7 DEF Serve, Goes, TypeOK
  <2>3. SecondTry(at[c].stage) \in Nat
    BY <1>0 DEF SecondTry
  <2>4. Left(x) = SecondTry(at[c].stage) + 1 /\ Left(at[c]) = SecondTry(at[c].stage) + 2
    BY <2>1 DEF Left
  <2> QED BY <2>2, <2>3, <2>4
<1>8. ASSUME NEW r, Ends(c, r), at[c].pc = "calling"
      PROVE  /\ \A d \in Callers : d # c => at'[d] = at[d]
             /\ Left(at'[c]) \in Nat /\ Left(at'[c]) < Left(at[c])
  <2>1. at'[c] = Rest /\ Left(Rest) = 0 /\ \A d \in Callers : d # c => at'[d] = at[d]
    BY <1>0, <1>8 DEF Ends, Goes, TypeOK, Rest, Left
  <2>2. Left(at[c]) > 0
    <3>1. SecondTry(at[c].stage) \in Nat
      BY <1>0 DEF SecondTry
    <3> QED BY <1>8, <3>1 DEF Left
  <2> QED BY <2>1, <2>2
<1>9. CASE Answer(c)
  BY <1>8, <1>9 DEF Answer
<1>10. CASE Breaks(c)
  <2>1. PICK how \in {"closed", "timeout", "http", "other"} :
          LET me == [at[c] EXCEPT
                       !.stage = IF at[c].op = "list" /\ how # "closed" THEN "ends"
                                 ELSE IF how = "http" THEN "http" ELSE "again"]
          IN  (at[c].stage = "first" /\ Cleanup(c, me)) \/ Ends(c, "failed")
    BY <1>10 DEF Breaks
  <2> DEFINE me == [at[c] EXCEPT
                       !.stage = IF at[c].op = "list" /\ how # "closed" THEN "ends"
                                 ELSE IF how = "http" THEN "http" ELSE "again"]
  <2>2. at[c].pc = "calling"
    BY <1>10 DEF Breaks
  <2>3. me \in Doing /\ me.stage # "first"
    BY <1>0 DEF Doing
  <2>4. CASE at[c].stage = "first" /\ Cleanup(c, me)
    <3>1. ToClean(me) \in Nat /\ ToClean(me) <= 3 * Attempts + 3
      BY <2>3, LeftNat
    <3>2. Left(at[c]) >= 3 * Attempts + 5
      BY <1>0, <2>2, <2>4 DEF Left, SecondTry
    <3> HIDE DEF me
    <3>3. Left(at'[c]) \in Nat /\ Left(at'[c]) <= ToClean(me) /\ \A d \in Callers : d # c => at'[d] = at[d]
      BY <1>0, <2>3, <2>4, CleanupLeft
    <3> QED BY <1>0, <1>1, <3>1, <3>2, <3>3
  <2> QED BY <1>8, <2>1, <2>2, <2>4
<1>11. CASE at[c].pc \in {"backoff", "calling", "polling"} /\ Cancel(c)
  <2>1. at'[c] = Rest /\ Left(Rest) = 0 /\ \A d \in Callers : d # c => at'[d] = at[d]
    BY <1>0, <1>11 DEF Cancel, Ends, Goes, TypeOK, Rest, Left
  <2>2. Left(at[c]) > 0
    <3>1. SecondTry(at[c].stage) \in Nat /\ ToClean(at[c]) \in Nat /\ ToClean(at[c]) >= 3
      BY <1>0, LeftNat DEF SecondTry
    <3> QED BY <1>11, <3>1 DEF Left
  <2> QED BY <2>1, <2>2
<1>12. CASE ConnectAgain(c)
  <2>1. Left(at[c]) = 0
    BY <1>12 DEF ConnectAgain, Comes, Left
  <2> QED BY <1>12, <2>1 DEF ConnectAgain, Comes
<1> QED BY <1>2, <1>3, <1>4, <1>5, <1>6, <1>7, <1>9, <1>10, <1>11, <1>12

\* A connection that goes on by itself has less before it.
LEMMA ConnForward ==
    ASSUME TypeOK, NEW k \in Conns,
           Start(k) \/ Open(k) \/ OpenFails(k) \/ Closes(k) \/ LosesLink(k)
    PROVE  /\ UNCHANGED <<at, ops>> /\ \A j \in Conns : j # k => conn'[j] = conn[j]
           /\ Ahead(k)' < Ahead(k) \/ faults' = faults + 1
<1>1. UNCHANGED <<at, ops>> /\ \A j \in Conns : j # k => conn'[j] = conn[j]
  BY ConnTurns DEF Start, Open, OpenFails, Closes, LosesLink
<1>2. CASE Start(k) \/ Open(k) \/ Closes(k)
  <2>1. \/ conn[k] = "created" /\ conn'[k] = "opening"
        \/ conn[k] = "opening" /\ conn'[k] = "open"
        \/ conn[k] \in Dying /\ conn'[k] = "none"
    BY <1>2 DEF Start, Open, Closes, Dying, TypeOK
  <2>2. Ahead(k)' < Ahead(k)
    BY <2>1 DEF Ahead, Dying
  <2> QED BY <1>1, <2>2
<1>3. CASE OpenFails(k) \/ LosesLink(k)
  BY <1>1, <1>3 DEF OpenFails, LosesLink, Fault, Fails
<1> QED BY <1>2, <1>3

\* Whatever the tasks that share the adapter leave to each other, and whatever
\* fails: while an operation is under way, its caller or a connection can go
\* on; nobody waits for the end of a connection that was not cancelled, or for
\* a session that nobody opens (connect, _cleanup_connection, call).
THEOREM CallersNotStuck == Spec => []NobodyStuck
BY WaitsMove, Invariant, PTL

\* Every step takes a caller or a connection further: the attempts of connect,
\* the second try of a call and the life of a connection are finite, and
\* between them only a new operation or a fault begins anything again.
THEOREM CallersGoForward == Spec => [][Forward]_vars
<1>1. IInv /\ [Next]_vars => [Forward]_vars
  <2> SUFFICES ASSUME IInv, Next PROVE Forward
    OBVIOUS
  <2>1. ASSUME NEW c \in Callers,
               \/ Begin(c) \/ Cleaned(c) \/ Poll(c) \/ PollTimeout(c) \/ NextAttempt(c)
               \/ Serve(c) \/ Answer(c) \/ Breaks(c) \/ ConnectAgain(c)
               \/ (at[c].pc \in {"backoff", "calling", "polling"} /\ Cancel(c))
        PROVE  Forward
    BY <2>1, CallerForward DEF Forward
  <2>2. ASSUME NEW k \in Conns, Start(k) \/ Open(k) \/ OpenFails(k) \/ Closes(k) \/ LosesLink(k)
        PROVE  Forward
    BY <2>2, ConnForward DEF Forward, IInv
  <2>3. CASE TimePasses
    BY <2>3 DEF TimePasses, adapter, Forward
  <2> QED BY <2>1, <2>2, <2>3 DEF Next, Progress, Outside, Strays
<1> QED BY <1>1, Invariant, PTL DEF Spec
=============================================================================
