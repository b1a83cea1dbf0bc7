----------------------- MODULE RequestConnectionProofs -----------------------
(* Proofs about the connection of a request: its types, that a connection has *)
(* one holder, and that every statement runs on the schema its call asked for *)
(* and in no other request's transaction unless a client went away; for any   *)
(* number of requests, connections and nested calls.                          *)
EXTENDS RequestConnection, FiniteSetTheorems, FunctionTheorems, TLAPS

Pcs == {"handler", "checkout", "acquire", "switch", "restore"}

\* The connection of each call of its own is out of the pool and nobody else's,
\* and such a call has no schema to put back.
OwnInv ==
    \A r \in Requests : \A i \in DOMAIN frames[r] : frames[r][i].own =>
        /\ frames[r][i].conn \notin idle /\ frames[r][i].outer = None
        /\ \A q \in Requests : \A j \in DOMAIN frames[q] :
              frames[q][j].own /\ frames[q][j].conn = frames[r][i].conn => q = r /\ j = i

\* The call whose schema is put back is still there.
RestoreInv == \A r \in Requests : pc[r] = "restore" => frames[r] # <<>>

HoldInv == TypeOK /\ OneHolder /\ OwnInv /\ RestoreInv

-----------------------------------------------------------------------------
\* What a request's calls are after one more, and after one less.
LEMMA PushType ==
    ASSUME TypeOK, NEW r \in Requests, NEW frame \in Frame, Push(r, frame)
    PROVE  /\ frames' \in [Requests -> Seq(Frame)]
           /\ Len(frames'[r]) = Len(frames[r]) + 1 /\ Len(frames[r]) \in Nat
           /\ DOMAIN frames[r] = 1 .. Len(frames[r])
           /\ DOMAIN frames'[r] = 1 .. Len(frames[r]) + 1
           /\ \A i \in 1 .. Len(frames[r]) : frames'[r][i] = frames[r][i]
           /\ frames'[r][Len(frames[r]) + 1] = frame
           /\ \A q \in Requests : q # r => frames'[q] = frames[q]
  <1> DEFINE s == frames[r]
  <1>1. s \in Seq(Frame) /\ frames' = [frames EXCEPT ![r] = Append(s, frame)]
    BY DEF TypeOK, Push
  <1>2. frames'[r] = Append(s, frame) /\ \A q \in Requests : q # r => frames'[q] = frames[q]
    BY <1>1 DEF TypeOK
  <1>3. Append(s, frame) \in Seq(Frame)
    BY <1>1
  <1>4. frames' \in [Requests -> Seq(Frame)]
    BY <1>1, <1>3 DEF TypeOK
  <1> QED BY <1>1, <1>2, <1>4

LEMMA PopType ==
    ASSUME TypeOK, NEW r \in Requests, frames[r] # <<>>, Pop(r)
    PROVE  /\ frames' \in [Requests -> Seq(Frame)]
           /\ Len(frames'[r]) = Len(frames[r]) - 1 /\ Len(frames[r]) \in Nat \ {0}
           /\ DOMAIN frames[r] = 1 .. Len(frames[r])
           /\ DOMAIN frames'[r] = 1 .. Len(frames[r]) - 1
           /\ \A i \in 1 .. Len(frames[r]) - 1 : frames'[r][i] = frames[r][i]
           /\ \A q \in Requests : q # r => frames'[q] = frames[q]
  <1> DEFINE s == frames[r]
             t == SubSeq(s, 1, Len(s) - 1)
  <1>1. s \in Seq(Frame) /\ frames' = [frames EXCEPT ![r] = t] /\ s # <<>>
    BY DEF TypeOK, Pop, Depth
  <1>2. Len(s) \in Nat \ {0} /\ DOMAIN s = 1 .. Len(s)
    BY <1>1
  <1>3. t \in Seq(Frame) /\ Len(t) = Len(s) - 1 /\ \A i \in 1 .. Len(s) - 1 : t[i] = s[i]
    BY <1>1, <1>2
  <1> HIDE DEF t
  <1>4. DOMAIN t = 1 .. Len(s) - 1
    BY <1>3
  <1>5. frames'[r] = t /\ \A q \in Requests : q # r => frames'[q] = frames[q]
    BY <1>1 DEF TypeOK
  <1>6. frames' \in [Requests -> Seq(Frame)]
    BY <1>1, <1>3 DEF TypeOK
  <1> QED BY <1>2, <1>3, <1>4, <1>5, <1>6

LEMMA TopType ==
    ASSUME TypeOK, NEW r \in Requests, frames[r] # <<>>
    PROVE  /\ Top(r) \in Frame /\ Len(frames[r]) \in DOMAIN frames[r]
           /\ DOMAIN frames[r] = 1 .. Len(frames[r]) /\ Len(frames[r]) \in Nat \ {0}
           /\ Top(r) = frames[r][Len(frames[r])]
  <1>1. frames[r] \in Seq(Frame)
    BY DEF TypeOK
  <1> QED BY <1>1 DEF Top, Depth

LEMMA FrameType ==
    ASSUME TypeOK, NEW r \in Requests, NEW i \in DOMAIN frames[r]
    PROVE  frames[r][i] \in Frame /\ frames[r][i].conn \in Conns
  <1>1. frames[r] \in Seq(Frame)
    BY DEF TypeOK
  <1>2. frames[r][i] \in Frame
    BY <1>1
  <1> QED BY <1>2 DEF Frame

-----------------------------------------------------------------------------
(* Types. *)

LEMMA CheckoutType ==
    ASSUME TypeOK, NEW c \in Conns, NEW e \in Envs, Checkout(c, e)
    PROVE  /\ c \in idle /\ idle' = idle \ {c}
           /\ path' \in [Conns -> Envs] /\ tag' \in [Conns -> Envs]
           /\ tag' = [tag EXCEPT ![c] = e]
  BY DEF Checkout, TypeOK

LEMMA AwaitType ==
    ASSUME TypeOK, NEW r \in Requests
    PROVE  /\ \A what \in Pcs : Await(r, what) => pc' \in [Requests -> Pcs] /\ pc'[r] = what
           /\ Resume(r) => /\ pc' \in [Requests -> Pcs] /\ pc'[r] = "handler"
                           /\ want' \in [Requests -> Envs]
  BY DEF TypeOK, Await, Resume, Pcs, Envs

LEMMA RebindType ==
    ASSUME TypeOK, NEW r \in Requests, Rebind(r)
    PROVE  /\ tag' \in [Conns -> Envs] /\ leaseEnv' \in [Requests -> Envs \cup {None}]
  BY DEF TypeOK, Rebind

LEMMA CallType ==
    ASSUME TypeOK, NEW r \in Requests, NEW e \in Envs, Call(r, e)
    PROVE  TypeOK'
  <1>1. calls' \in [Requests -> 0 .. MaxCalls] /\ want' \in [Requests -> Envs]
    BY ConnectionAssumption DEF Call, TypeOK
  <1>2. path' \in [Conns -> Envs] /\ pc' \in [Requests -> Pcs]
    BY AwaitType DEF Call, TypeOK, Pcs
  <1>3. frames' \in [Requests -> Seq(Frame)]
    <2>1. CASE UNCHANGED frames
      BY <2>1 DEF TypeOK
    <2>2. CASE lease[r] # None /\ Push(r, [env |-> e, outer |-> e, conn |-> lease[r], own |-> FALSE])
      <3>1. [env |-> e, outer |-> e, conn |-> lease[r], own |-> FALSE] \in Frame
        BY <2>2 DEF TypeOK, Frame
      <3> QED BY <2>2, <3>1, PushType
    <2> QED BY <2>1, <2>2 DEF Call
  <1>4. UNCHANGED <<idle, tag, tx, share, response, aborts, history>>
    BY DEF Call
  <1> QED BY <1>1, <1>2, <1>3, <1>4 DEF TypeOK, Pcs, share, history

LEMMA AnswerType ==
    ASSUME TypeOK, RestoreInv, NEW r \in Requests, Answer(r)
    PROVE  TypeOK'
  <1>1. ASSUME NEW c \in Conns, Acquire(r, c) PROVE TypeOK'
    <2>1. want[r] \in Envs /\ [env |-> want[r], outer |-> None, conn |-> c, own |-> FALSE] \in Frame
      BY DEF TypeOK, Frame
    <2>2. /\ idle' \subseteq Conns /\ path' \in [Conns -> Envs] /\ tag' \in [Conns -> Envs]
      BY <1>1, <2>1, CheckoutType DEF Acquire, TypeOK
    <2>3. frames' \in [Requests -> Seq(Frame)]
      BY <1>1, <2>1, PushType DEF Acquire
    <2>4. pc' \in [Requests -> Pcs] /\ want' \in [Requests -> Envs]
      BY <1>1, AwaitType DEF Acquire
    <2>5. /\ lease' \in [Requests -> Conns \cup {None}]
          /\ leaseEnv' \in [Requests -> Envs \cup {None}]
      BY <1>1, <2>1 DEF Acquire, TypeOK
    <2> QED BY <1>1, <2>2, <2>3, <2>4, <2>5 DEF Acquire, TypeOK, Pcs, history
  <1>2. ASSUME NEW c \in Conns, CheckoutOwn(r, c) PROVE TypeOK'
    <2>1. want[r] \in Envs /\ [env |-> want[r], outer |-> None, conn |-> c, own |-> TRUE] \in Frame
      BY DEF TypeOK, Frame
    <2>2. /\ idle' \subseteq Conns /\ path' \in [Conns -> Envs] /\ tag' \in [Conns -> Envs]
      BY <1>2, <2>1, CheckoutType DEF CheckoutOwn, TypeOK
    <2>3. frames' \in [Requests -> Seq(Frame)]
      BY <1>2, <2>1, PushType DEF CheckoutOwn
    <2>4. pc' \in [Requests -> Pcs] /\ want' \in [Requests -> Envs]
      BY <1>2, AwaitType DEF CheckoutOwn
    <2> QED BY <1>2, <2>2, <2>3, <2>4 DEF CheckoutOwn, TypeOK, Pcs, history, share
  <1>3. CASE Timeout(r)
    <2>1. pc' \in [Requests -> Pcs] /\ want' \in [Requests -> Envs]
      BY <1>3, AwaitType DEF Timeout
    <2> QED BY <1>3, <2>1 DEF Timeout, TypeOK, Pcs, history, share, pool
  <1>4. CASE Switch(r)
    <2>1. pc' \in [Requests -> Pcs] /\ want' \in [Requests -> Envs]
      BY <1>4, AwaitType DEF Switch
    <2>2. tag' \in [Conns -> Envs] /\ leaseEnv' \in [Requests -> Envs \cup {None}]
      BY <1>4, RebindType DEF Switch
    <2>3. frames' \in [Requests -> Seq(Frame)]
      <3>1. CASE lease[r] = None
        BY <1>4, <3>1 DEF Switch, TypeOK
      <3>2. CASE lease[r] # None
        <4>1. [env |-> want[r], outer |-> leaseEnv[r], conn |-> lease[r], own |-> FALSE] \in Frame
          BY <3>2 DEF TypeOK, Frame
        <4> QED BY <1>4, <3>2, <4>1, PushType DEF Switch
      <3> QED BY <3>1, <3>2
    <2> QED BY <1>4, <2>1, <2>2, <2>3 DEF Switch, TypeOK, Pcs, history
  <1>5. CASE Restore(r)
    <2>1. pc' \in [Requests -> Pcs] /\ want' \in [Requests -> Envs]
      BY <1>5, AwaitType DEF Restore
    <2>2. tag' \in [Conns -> Envs] /\ leaseEnv' \in [Requests -> Envs \cup {None}]
      BY <1>5, RebindType DEF Restore
    <2>3. frames' \in [Requests -> Seq(Frame)]
      BY <1>5, PopType DEF Restore, RestoreInv
    <2> QED BY <1>5, <2>1, <2>2, <2>3 DEF Restore, TypeOK, Pcs, history
  <1> QED BY <1>1, <1>2, <1>3, <1>4, <1>5 DEF Answer

LEMMA HandlerType ==
    ASSUME TypeOK, NEW r \in Requests, EndCall(r) \/ Statement(r) \/ Respond(r) \/ Abort(r)
    PROVE  TypeOK'
  <1>1. CASE EndCall(r)
    <2>1. frames[r] # <<>> /\ Top(r) \in Frame
      BY <1>1, TopType DEF EndCall
    <2>2. idle' \subseteq Conns
      BY <1>1, <2>1 DEF EndCall, Return, Frame, TypeOK
    <2>3. UNCHANGED <<tag, tx, share, response, calls, aborts, history>>
      BY <1>1 DEF EndCall
    <2>4. CASE Pop(r) /\ UNCHANGED <<path, want, pc>>
      <3>1. frames' \in [Requests -> Seq(Frame)]
        BY <2>1, <2>4, PopType
      <3> QED BY <2>2, <2>3, <2>4, <3>1 DEF TypeOK, share, history
    <2>5. CASE ~(Pop(r) /\ UNCHANGED <<path, want, pc>>)
      <3>1. /\ Top(r).outer \in Envs /\ lease[r] # None
            /\ path' = [path EXCEPT ![lease[r]] = Top(r).outer]
            /\ want' = [want EXCEPT ![r] = Top(r).outer]
            /\ Await(r, "restore") /\ UNCHANGED frames
        BY <1>1, <2>1, <2>5 DEF EndCall, Frame
      <3>2. pc' \in [Requests -> Pcs]
        BY <3>1, AwaitType DEF Pcs
      <3> QED BY <2>2, <2>3, <3>1, <3>2 DEF TypeOK, Pcs, share, history
    <2> QED BY <2>4, <2>5
  <1>2. CASE Statement(r)
    <2>1. frames[r] # <<>> /\ Top(r).conn \in Conns
      BY <1>2, TopType DEF Statement, Frame
    <2>2. tx' \in [Conns -> Requests \cup {None}]
      <3>1. \/ tx' = tx
            \/ tx' = [tx EXCEPT ![Top(r).conn] = IF @ = None THEN r ELSE @]
            \/ tx' = [tx EXCEPT ![Top(r).conn] = None]
        BY <1>2 DEF Statement
      <3> QED BY <3>1, <2>1 DEF TypeOK
    <2>3. astray' \in BOOLEAN /\ mixed' \in BOOLEAN
      BY <1>2 DEF Statement
    <2> QED BY <1>2, <2>2, <2>3 DEF Statement, TypeOK, share, control
  <1>3. CASE Respond(r) \/ Abort(r)
    <2>1. /\ idle' \subseteq Conns /\ lease' \in [Requests -> Conns \cup {None}]
          /\ released' \in [Requests -> BOOLEAN]
      <3>1. ReleaseDb(r)
        BY <1>3 DEF Respond, Abort
      <3>2. idle' \subseteq Conns
        <4>1. CASE lease[r] = None
          BY <3>1, <4>1 DEF ReleaseDb, TypeOK
        <4>2. CASE lease[r] # None
          BY <3>1, <4>2 DEF ReleaseDb, Return, TypeOK
        <4> QED BY <4>1, <4>2
      <3>3. lease' \in [Requests -> Conns \cup {None}]
        BY <3>1 DEF ReleaseDb, TypeOK
      <3>4. released' \in [Requests -> BOOLEAN]
        BY <3>1 DEF ReleaseDb, TypeOK
      <3> QED BY <3>2, <3>3, <3>4
    <2>2. response' \in [Requests -> {"open", "finished", "closed"}]
      BY <1>3 DEF Respond, Abort, TypeOK
    <2>3. aborts' \in 0 .. MaxAborts
      BY <1>3, ConnectionAssumption DEF Respond, Abort, TypeOK
    <2> QED BY <1>3, <2>1, <2>2, <2>3 DEF Respond, Abort, TypeOK, history
  <1> QED BY <1>1, <1>2, <1>3

-----------------------------------------------------------------------------
(* One holder. *)

\* A step that hands out no connection.
LEMMA KeepStep ==
    ASSUME HoldInv, TypeOK', RestoreInv',
           \A c \in idle' \ idle :
               /\ \A q \in Requests : lease'[q] # c
               /\ \A q \in Requests : \A i \in DOMAIN frames'[q] :
                     frames'[q][i].own => frames'[q][i].conn # c,
           \A q \in Requests : lease'[q] \in {lease[q], None},
           \A q \in Requests : \A i \in DOMAIN frames'[q] : frames'[q][i].own =>
               i \in DOMAIN frames[q] /\ frames[q][i] = frames'[q][i]
    PROVE  HoldInv'
  <1>1. OneHolder'
    BY DEF HoldInv, OneHolder
  <1>2. OwnInv'
    BY DEF HoldInv, OwnInv
  <1> QED BY <1>1, <1>2 DEF HoldInv

\* A step that takes one out of the pool.
LEMMA TakeStep ==
    ASSUME HoldInv, TypeOK', RestoreInv', NEW r \in Requests, NEW c \in idle,
           idle' = idle \ {c},
           \A q \in Requests : lease'[q] = lease[q] \/ (q = r /\ lease'[q] = c),
           \A q \in Requests : \A i \in DOMAIN frames'[q] : frames'[q][i].own =>
               \/ i \in DOMAIN frames[q] /\ frames[q][i] = frames'[q][i]
               \/ /\ q = r /\ lease' = lease /\ frames'[q][i].conn = c
                  /\ i = Len(frames[q]) + 1
                  /\ frames'[q][i].outer = None,
           c # None
    PROVE  HoldInv'
  <1>1. \A q \in Requests : lease[q] # c
    BY DEF HoldInv, OneHolder
  <1>2. \A q \in Requests : \A i \in DOMAIN frames[q] : frames[q][i].own => frames[q][i].conn # c
    BY DEF HoldInv, OwnInv
  <1>3. OneHolder'
    BY <1>1, <1>2 DEF HoldInv, OneHolder
  <1>4. OwnInv'
    BY <1>2 DEF HoldInv, OwnInv
  <1> QED BY <1>3, <1>4 DEF HoldInv

LEMMA CallHold ==
    ASSUME HoldInv, NEW r \in Requests, NEW e \in Envs, Call(r, e)
    PROVE  HoldInv'
  <1>1. TypeOK /\ TypeOK'
    BY CallType DEF HoldInv
  <1>2. UNCHANGED <<idle, lease>>
    BY DEF Call, share
  <1>3. CASE UNCHANGED frames
    <2>1. RestoreInv'
      BY <1>1, <1>3, AwaitType DEF Call, HoldInv, RestoreInv, Await, TypeOK
    <2> QED BY <1>1, <1>2, <1>3, <2>1, KeepStep
  <1>4. CASE /\ lease[r] # None /\ UNCHANGED pc
             /\ Push(r, [env |-> e, outer |-> e, conn |-> lease[r], own |-> FALSE])
    <2> DEFINE new == [env |-> e, outer |-> e, conn |-> lease[r], own |-> FALSE]
    <2>1. new \in Frame /\ ~new.own
      BY <1>1, <1>4 DEF TypeOK, Frame
    <2> HIDE DEF new
    <2>2. Push(r, new)
      BY <1>4 DEF new
    <2>3. \A q \in Requests : \A i \in DOMAIN frames'[q] : frames'[q][i].own =>
               i \in DOMAIN frames[q] /\ frames[q][i] = frames'[q][i]
      BY <1>1, <2>1, <2>2, PushType
    <2>4. RestoreInv'
      BY <1>1, <1>4, <2>1, <2>2, PushType DEF Call, HoldInv, RestoreInv
    <2> QED BY <1>1, <1>2, <2>3, <2>4, KeepStep
  <1> QED BY <1>3, <1>4 DEF Call

LEMMA AnswerHold ==
    ASSUME HoldInv, NEW r \in Requests, Answer(r)
    PROVE  HoldInv'
  <1>1. TypeOK /\ TypeOK' /\ RestoreInv
    BY AnswerType DEF HoldInv
  <1>2. ASSUME NEW c \in Conns, NEW new \in Frame, c # None, Push(r, new), Resume(r),
               Checkout(c, want[r]), new.conn = c, new.outer = None,
               \/ ~new.own /\ lease' = [lease EXCEPT ![r] = c]
               \/ new.own /\ lease' = lease
        PROVE  HoldInv'
    <2>1. c \in idle /\ idle' = idle \ {c}
      BY <1>2 DEF Checkout
    <2>2. \A q \in Requests : lease'[q] = lease[q] \/ (q = r /\ lease'[q] = c)
      BY <1>1, <1>2 DEF TypeOK
    <2>3. \A q \in Requests : \A i \in DOMAIN frames'[q] : frames'[q][i].own =>
               \/ i \in DOMAIN frames[q] /\ frames[q][i] = frames'[q][i]
               \/ /\ q = r /\ lease' = lease /\ frames'[q][i].conn = c
                  /\ i = Len(frames[q]) + 1
                  /\ frames'[q][i].outer = None
      <3> TAKE q \in Requests
      <3> TAKE i \in DOMAIN frames'[q]
      <3> HAVE frames'[q][i].own
      <3>1. CASE q # r
        BY <1>1, <1>2, <3>1, PushType
      <3>2. CASE q = r /\ i \in 1 .. Len(frames[r])
        BY <1>1, <1>2, <3>2, PushType
      <3>3. CASE q = r /\ i = Len(frames[r]) + 1
        BY <1>1, <1>2, <3>3, PushType
      <3>4. q = r => i \in 1 .. Len(frames[r]) \/ i = Len(frames[r]) + 1
        BY <1>1, <1>2, PushType
      <3> QED BY <3>1, <3>2, <3>3, <3>4
    <2>4. RestoreInv'
      BY <1>1, <1>2, PushType DEF Resume, Await, RestoreInv, TypeOK
    <2> QED BY <1>1, <1>2, <2>1, <2>2, <2>3, <2>4, TakeStep
  <1>3. ASSUME NEW c \in Conns, Acquire(r, c) PROVE HoldInv'
    <2> DEFINE new == [env |-> want[r], outer |-> None, conn |-> c, own |-> FALSE]
    <2>1. new \in Frame /\ new.conn = c /\ new.outer = None /\ ~new.own
      BY <1>1 DEF TypeOK, Frame
    <2>2. Push(r, new)
      BY <1>3 DEF Acquire
    <2> HIDE DEF new
    <2> QED BY <1>2, <1>3, <2>1, <2>2, ConnectionAssumption DEF Acquire
  <1>4. ASSUME NEW c \in Conns, CheckoutOwn(r, c) PROVE HoldInv'
    <2> DEFINE new == [env |-> want[r], outer |-> None, conn |-> c, own |-> TRUE]
    <2>1. new \in Frame /\ new.conn = c /\ new.outer = None /\ new.own
      BY <1>1 DEF TypeOK, Frame
    <2>2. Push(r, new)
      BY <1>4 DEF CheckoutOwn
    <2> HIDE DEF new
    <2> QED BY <1>2, <1>4, <2>1, <2>2, ConnectionAssumption DEF CheckoutOwn, share
  <1>5. CASE Timeout(r)
    <2>1. RestoreInv' /\ UNCHANGED <<idle, lease, frames>>
      BY <1>1, <1>5 DEF Timeout, pool, share, Resume, Await, RestoreInv, TypeOK
    <2> QED BY <1>1, <2>1, KeepStep
  <1>6. CASE Switch(r)
    <2>1. UNCHANGED <<idle, lease>>
      BY <1>6 DEF Switch
    <2>2. CASE UNCHANGED frames
      <3>1. RestoreInv'
        BY <1>1, <1>6, <2>2 DEF Switch, Resume, Await, RestoreInv, TypeOK
      <3> QED BY <1>1, <2>1, <2>2, <3>1, KeepStep
    <2>3. CASE lease[r] # None
      <3> DEFINE new == [env |-> want[r], outer |-> leaseEnv[r], conn |-> lease[r], own |-> FALSE]
      <3>1. new \in Frame /\ ~new.own
        BY <1>1, <2>3 DEF TypeOK, Frame
      <3>2. Push(r, new)
        BY <1>6, <2>3 DEF Switch
      <3> HIDE DEF new
      <3>3. \A q \in Requests : \A i \in DOMAIN frames'[q] : frames'[q][i].own =>
                 i \in DOMAIN frames[q] /\ frames[q][i] = frames'[q][i]
        BY <1>1, <3>1, <3>2, PushType
      <3>4. RestoreInv'
        BY <1>1, <1>6, <3>1, <3>2, PushType DEF Switch, Resume, Await, RestoreInv, TypeOK
      <3> QED BY <1>1, <2>1, <3>3, <3>4, KeepStep
    <2> QED BY <1>6, <2>2, <2>3 DEF Switch
  <1>7. CASE Restore(r)
    <2>1. UNCHANGED <<idle, lease>> /\ frames[r] # <<>> /\ Pop(r)
      BY <1>1, <1>7 DEF Restore, RestoreInv
    <2>2. \A q \in Requests : \A i \in DOMAIN frames'[q] :
               i \in DOMAIN frames[q] /\ frames[q][i] = frames'[q][i]
      BY <1>1, <2>1, PopType
    <2>3. RestoreInv'
      BY <1>1, <1>7, <2>1, PopType DEF Restore, Resume, Await, RestoreInv, TypeOK
    <2> QED BY <1>1, <2>1, <2>2, <2>3, KeepStep
  <1> QED BY <1>3, <1>4, <1>5, <1>6, <1>7 DEF Answer

LEMMA HandlerHold ==
    ASSUME HoldInv, NEW r \in Requests, EndCall(r) \/ Statement(r) \/ Respond(r) \/ Abort(r)
    PROVE  HoldInv'
  <1>1. TypeOK /\ TypeOK'
    BY HandlerType DEF HoldInv
  <1>2. CASE EndCall(r)
    <2>1. /\ frames[r] # <<>> /\ Len(frames[r]) \in DOMAIN frames[r]
          /\ Top(r) = frames[r][Len(frames[r])] /\ UNCHANGED lease /\ pc[r] = "handler"
      BY <1>1, <1>2, TopType DEF EndCall, share
    <2>2. CASE Pop(r) /\ UNCHANGED pc
      <3>1. \A q \in Requests : \A i \in DOMAIN frames'[q] :
                 /\ i \in DOMAIN frames[q] /\ frames[q][i] = frames'[q][i]
                 /\ q = r => i # Len(frames[r])
        BY <1>1, <2>1, <2>2, PopType
      <3>2. RestoreInv'
        BY <1>1, <2>1, <2>2, PopType DEF RestoreInv, HoldInv
      <3>3. CASE UNCHANGED idle
        BY <1>1, <2>1, <3>1, <3>2, <3>3, KeepStep
      <3>4. CASE Top(r).own /\ idle' = idle \cup {Top(r).conn}
        <4>1. \A q \in Requests : lease'[q] # Top(r).conn
          <5> TAKE q \in Requests
          <5>1. Top(r).conn # None
            BY <1>1, <2>1, TopType, ConnectionAssumption DEF Frame
          <5> QED BY <2>1, <3>4, <5>1 DEF HoldInv, OneHolder
        <4>2. \A q \in Requests : \A i \in DOMAIN frames'[q] :
                  frames'[q][i].own => frames'[q][i].conn # Top(r).conn
          BY <2>1, <3>1, <3>4 DEF HoldInv, OwnInv
        <4> QED BY <1>1, <2>1, <3>1, <3>2, <3>4, <4>1, <4>2, KeepStep
      <3> QED BY <1>2, <3>3, <3>4 DEF EndCall, Return
    <2>3. CASE Await(r, "restore") /\ UNCHANGED frames
      <3>1. CASE Top(r).own
        <4>1. Top(r).outer = None
          BY <2>1, <3>1 DEF HoldInv, OwnInv
        <4>2. Pop(r) /\ UNCHANGED pc
          BY <1>2, <4>1 DEF EndCall
        <4> QED BY <2>2, <4>2
      <3>2. RestoreInv'
        BY <1>1, <2>1, <2>3 DEF RestoreInv, HoldInv, Await, TypeOK
      <3>3. CASE UNCHANGED idle
        BY <1>1, <2>1, <2>3, <3>2, <3>3, KeepStep
      <3> QED BY <1>2, <3>1, <3>3 DEF EndCall
    <2> QED BY <1>2, <2>2, <2>3 DEF EndCall
  <1>3. CASE Statement(r)
    <2>1. UNCHANGED <<idle, lease, frames, pc>>
      BY <1>3 DEF Statement, share, control
    <2>2. RestoreInv'
      BY <2>1 DEF HoldInv, RestoreInv
    <2> QED BY <1>1, <2>1, <2>2, KeepStep
  <1>4. CASE Respond(r) \/ Abort(r)
    <2>1. UNCHANGED <<frames, pc>> /\ lease' = [lease EXCEPT ![r] = None] /\ ReleaseDb(r)
      BY <1>4 DEF Respond, Abort, ReleaseDb
    <2>2. RestoreInv'
      BY <2>1 DEF HoldInv, RestoreInv
    <2>3. \A q \in Requests : lease'[q] \in {lease[q], None} /\ (q = r => lease'[q] = None)
                              /\ (q # r => lease'[q] = lease[q])
      BY <1>1, <2>1 DEF TypeOK
    <2>4. \A c \in idle' \ idle : lease[r] # None /\ c = lease[r]
      BY <2>1 DEF ReleaseDb, Return
    <2>5. \A c \in idle' \ idle :
               /\ \A q \in Requests : lease'[q] # c
               /\ \A q \in Requests : \A i \in DOMAIN frames'[q] :
                     frames'[q][i].own => frames'[q][i].conn # c
      <3> TAKE c \in idle' \ idle
      <3>1. c = lease[r] /\ lease[r] # None
        BY <2>4
      <3>2. \A q \in Requests : lease'[q] # c
        BY <2>3, <3>1 DEF HoldInv, OneHolder
      <3>3. \A q \in Requests : \A i \in DOMAIN frames'[q] :
                frames'[q][i].own => frames'[q][i].conn # c
        BY <2>1, <3>1 DEF HoldInv, OneHolder
      <3> QED BY <3>2, <3>3
    <2> QED BY <1>1, <2>1, <2>2, <2>3, <2>5, KeepStep
  <1> QED BY <1>2, <1>3, <1>4

LEMMA HoldStep == HoldInv /\ [Next]_vars => HoldInv'
  <1> SUFFICES ASSUME HoldInv, [Next]_vars PROVE HoldInv'
    OBVIOUS
  <1>1. CASE UNCHANGED vars
    BY <1>1 DEF vars, HoldInv, TypeOK, OneHolder, OwnInv, RestoreInv
  <1>2. CASE Next
    <2> PICK r \in Requests :
             \/ \E e \in Envs : Call(r, e)
             \/ Answer(r) \/ EndCall(r) \/ Statement(r) \/ Respond(r) \/ Abort(r)
      BY <1>2 DEF Next
    <2>1. CASE \E e \in Envs : Call(r, e)
      BY <2>1, CallHold
    <2>2. CASE Answer(r)
      BY <2>2, AnswerHold
    <2>3. CASE EndCall(r) \/ Statement(r) \/ Respond(r) \/ Abort(r)
      BY <2>3, HandlerHold
    <2> QED BY <2>1, <2>2, <2>3
  <1> QED BY <1>1, <1>2

LEMMA HoldInit == Init => HoldInv
  <1> SUFFICES ASSUME Init PROVE HoldInv
    OBVIOUS
  <1>1. \A r \in Requests : frames[r] = <<>> /\ pc[r] = "handler" /\ lease[r] = None
    BY DEF Init
  <1>2. TypeOK
    <2>1. frames \in [Requests -> Seq(Frame)]
      BY DEF Init
    <2>2. /\ path \in [Conns -> Envs] /\ tag \in [Conns -> Envs]
          /\ want \in [Requests -> Envs]
      BY DEF Init, Envs
    <2>3. /\ astray \in BOOLEAN /\ mixed \in BOOLEAN
          /\ released \in [Requests -> BOOLEAN]
      BY DEF Init
    <2>4. calls \in [Requests -> 0 .. MaxCalls] /\ aborts \in 0 .. MaxAborts
      BY ConnectionAssumption DEF Init
    <2> QED BY <2>1, <2>2, <2>3, <2>4 DEF Init, TypeOK
  <1> QED BY <1>1, <1>2 DEF HoldInv, OneHolder, OwnInv, RestoreInv

THEOREM Holding == Spec => []HoldInv
  BY HoldInit, HoldStep, PTL DEF Spec

\* The lease, the calls in progress and the pool keep their shape.
THEOREM TypeCorrect == Spec => []TypeOK
  BY Holding, PTL DEF HoldInv

\* A leased connection is nobody else's and not in the pool, whichever of
\* 'finish' and 'close' releases it (tenant-context.js, releaseDb).
THEOREM HeldByOne == Spec => []OneHolder
  BY Holding, PTL DEF HoldInv

-----------------------------------------------------------------------------
(* Statements run where they were asked, as long as no client has gone away. *)

\* The calls in progress of a request sit on its lease, or each on a connection
\* of its own once the lease is gone; every call puts back the schema of the one
\* around it; the lease is on the schema of the innermost call, or on its way.
Place(r) ==
    /\ \A i \in DOMAIN frames[r] :
          IF frames[r][i].own
          THEN /\ released[r]
               /\ path[frames[r][i].conn] = frames[r][i].env
               /\ tag[frames[r][i].conn] = frames[r][i].env
          ELSE lease[r] # None /\ frames[r][i].conn = lease[r]
    /\ \A i \in DOMAIN frames[r] :
          i - 1 \in DOMAIN frames[r] /\ ~frames[r][i].own => frames[r][i].outer = frames[r][i - 1].env
    /\ lease[r] # None =>
          /\ ~released[r] /\ tag[lease[r]] = leaseEnv[r]
          /\ path[lease[r]] = IF pc[r] \in {"switch", "restore"} THEN want[r] ELSE leaseEnv[r]
    /\ frames[r] # <<>> /\ ~Top(r).own => leaseEnv[r] = Top(r).env
    /\ pc[r] \in {"switch", "restore"} => lease[r] # None
    /\ pc[r] = "acquire" => ~released[r] /\ lease[r] = None
    /\ pc[r] = "checkout" => released[r]
    /\ pc[r] = "restore" => want[r] = Top(r).outer

\* A transaction is open on the connection of its request's innermost call only.
Fenced ==
    \A r \in Requests : \A c \in Conns : tx[c] = r =>
        pc[r] = "handler" /\ frames[r] # <<>> /\ Top(r).conn = c

Clean ==
    /\ \A r \in Requests : Place(r)
    /\ Fenced
    /\ \A c \in idle : path[c] = tag[c]
    /\ ~astray /\ ~mixed

WhereInv == HoldInv /\ (aborts = 0 => Clean)

\* A step of one request leaves another's place alone.
LEMMA Elsewhere ==
    ASSUME HoldInv, NEW r \in Requests, NEW q \in Requests, q # r, Place(q),
           frames'[q] = frames[q], pc'[q] = pc[q], want'[q] = want[q],
           lease'[q] = lease[q], leaseEnv'[q] = leaseEnv[q], released'[q] = released[q],
           \A c \in Conns : path'[c] # path[c] \/ tag'[c] # tag[c] =>
               c \in idle \/ c = lease[r]
    PROVE  Place(q)'
  <1>1. \A c \in Conns :
            c = lease[q] \/ (\E i \in DOMAIN frames[q] : frames[q][i].own /\ frames[q][i].conn = c)
            => path'[c] = path[c] /\ tag'[c] = tag[c]
    BY ConnectionAssumption DEF HoldInv, OneHolder, OwnInv
  <1>2. \A i \in DOMAIN frames[q] : frames[q][i].conn \in Conns
    BY FrameType DEF HoldInv
  <1>3. lease[q] # None => lease[q] \in Conns
    BY DEF HoldInv, TypeOK
  <1>4. Top(q)' = Top(q)
    BY DEF Top, Depth
  <1>5. \A i \in DOMAIN frames[q] : frames[q][i].own =>
            path'[frames[q][i].conn] = path[frames[q][i].conn] /\ tag'[frames[q][i].conn] = tag[frames[q][i].conn]
    BY <1>1, <1>2
  <1>6. lease[q] # None => path'[lease[q]] = path[lease[q]] /\ tag'[lease[q]] = tag[lease[q]]
    BY <1>1, <1>3
  <1> QED BY <1>4, <1>5, <1>6 DEF Place

\* A call begins on the lease.
LEMMA LeasePlace ==
    ASSUME HoldInv, NEW r \in Requests, Place(r), NEW new \in Frame, Push(r, new), ~new.own,
           lease'[r] # None, new.conn = lease'[r], leaseEnv'[r] = new.env,
           ~released[r], ~released'[r], pc'[r] = "handler",
           tag'[lease'[r]] = new.env, path'[lease'[r]] = new.env,
           frames[r] # <<>> => lease'[r] = lease[r] /\ new.outer = leaseEnv[r]
    PROVE  Place(r)'
  <1> DEFINE n == Len(frames[r])
  <1>1. /\ n \in Nat /\ DOMAIN frames[r] = 1 .. n /\ DOMAIN frames'[r] = 1 .. n + 1
        /\ Len(frames'[r]) = n + 1 /\ frames'[r][n + 1] = new
        /\ \A i \in 1 .. n : frames'[r][i] = frames[r][i]
    BY PushType DEF HoldInv
  <1>2. Top(r)' = new
    BY <1>1 DEF Top, Depth
  <1>3. \A i \in 1 .. n : ~frames[r][i].own /\ frames[r][i].conn = lease[r] /\ frames[r] # <<>>
    BY <1>1 DEF Place
  <1>4. frames[r] # <<>> => n \in 1 .. n /\ Top(r) = frames[r][n]
    BY TopType DEF HoldInv
  <1>5. \A i \in DOMAIN frames'[r] : ~frames'[r][i].own /\ frames'[r][i].conn = lease'[r]
    BY <1>1, <1>3
  <1>6. ASSUME NEW i \in DOMAIN frames'[r], i - 1 \in DOMAIN frames'[r]
        PROVE  frames'[r][i].outer = frames'[r][i - 1].env
    <2>1. CASE i \in 1 .. n
      <3>1. /\ i \in DOMAIN frames[r] /\ i - 1 \in DOMAIN frames[r] /\ ~frames[r][i].own
            /\ frames'[r][i] = frames[r][i] /\ frames'[r][i - 1] = frames[r][i - 1]
        BY <1>1, <1>3, <1>6, <2>1
      <3>2. frames[r][i].outer = frames[r][i - 1].env
        BY <3>1 DEF Place
      <3> QED BY <3>1, <3>2
    <2>2. CASE i = n + 1
      <3>1. n \in 1 .. n /\ frames'[r][i - 1] = frames[r][n] /\ frames'[r][i] = new
        BY <1>1, <1>6, <2>2
      <3>2. frames[r] # <<>> /\ ~frames[r][n].own
        BY <1>3, <3>1
      <3>3. leaseEnv[r] = frames[r][n].env
        BY <1>4, <3>2 DEF Place
      <3> QED BY <3>1, <3>2, <3>3
    <2> QED BY <1>1, <1>6, <2>1, <2>2
  <1> QED BY <1>2, <1>5, <1>6 DEF Place

\* A call begins on a connection of its own.
LEMMA OwnPlace ==
    ASSUME HoldInv, NEW r \in Requests, Place(r), NEW new \in Frame, Push(r, new), new.own,
           released[r], released'[r], lease'[r] = lease[r], pc'[r] = "handler",
           new.conn \in idle, tag'[new.conn] = new.env, path'[new.conn] = new.env,
           \A c \in Conns \ idle : path'[c] = path[c] /\ tag'[c] = tag[c]
    PROVE  Place(r)'
  <1> DEFINE n == Len(frames[r])
  <1>1. /\ n \in Nat /\ DOMAIN frames[r] = 1 .. n /\ DOMAIN frames'[r] = 1 .. n + 1
        /\ Len(frames'[r]) = n + 1 /\ frames'[r][n + 1] = new
        /\ \A i \in 1 .. n : frames'[r][i] = frames[r][i]
    BY PushType DEF HoldInv
  <1>2. Top(r)' = new
    BY <1>1 DEF Top, Depth
  <1>3. lease[r] = None
    BY DEF Place
  <1>4. \A i \in 1 .. n : frames[r][i].own
    BY <1>1, <1>3 DEF Place
  <1>5. \A i \in 1 .. n : frames[r][i].conn \in Conns \ idle
    <2>1. \A i \in 1 .. n : frames[r][i].conn \in Conns
      BY <1>1, FrameType DEF HoldInv
    <2> QED BY <1>1, <1>4, <2>1 DEF HoldInv, OwnInv
  <1>6. \A i \in DOMAIN frames'[r] : /\ frames'[r][i].own
                                     /\ path'[frames'[r][i].conn] = frames'[r][i].env
                                     /\ tag'[frames'[r][i].conn] = frames'[r][i].env
    <2>1. \A i \in 1 .. n : /\ path[frames[r][i].conn] = frames[r][i].env
                            /\ tag[frames[r][i].conn] = frames[r][i].env
      BY <1>1, <1>4 DEF Place
    <2>2. \A i \in 1 .. n : /\ path'[frames[r][i].conn] = frames[r][i].env
                            /\ tag'[frames[r][i].conn] = frames[r][i].env
      BY <1>5, <2>1
    <2> QED BY <1>1, <1>4, <2>2
  <1> QED BY <1>2, <1>3, <1>6 DEF Place

\* The innermost call ends.
LEMMA PopPlace ==
    ASSUME HoldInv, NEW r \in Requests, Place(r), frames[r] # <<>>, Pop(r),
           released'[r] = released[r], lease'[r] = lease[r], pc'[r] = "handler",
           \A c \in Conns : c # lease[r] => path'[c] = path[c] /\ tag'[c] = tag[c],
           lease[r] # None => /\ tag'[lease[r]] = leaseEnv'[r]
                              /\ path'[lease[r]] = leaseEnv'[r],
           Len(frames[r]) - 1 \in DOMAIN frames[r] /\ ~Top(r).own =>
               leaseEnv'[r] = frames[r][Len(frames[r]) - 1].env
    PROVE  Place(r)'
  <1> DEFINE n == Len(frames[r])
  <1>1. /\ n \in Nat \ {0} /\ DOMAIN frames[r] = 1 .. n /\ DOMAIN frames'[r] = 1 .. n - 1
        /\ Len(frames'[r]) = n - 1 /\ \A i \in 1 .. n - 1 : frames'[r][i] = frames[r][i]
    BY PopType DEF HoldInv
  <1>2. Top(r) = frames[r][n]
    BY TopType DEF HoldInv
  <1>3. \A i \in 1 .. n : frames[r][i].conn \in Conns
    BY <1>1, FrameType DEF HoldInv
  <1>4. ASSUME NEW i \in DOMAIN frames'[r]
        PROVE  IF frames'[r][i].own
               THEN /\ released'[r]
                    /\ path'[frames'[r][i].conn] = frames'[r][i].env
                    /\ tag'[frames'[r][i].conn] = frames'[r][i].env
               ELSE lease'[r] # None /\ frames'[r][i].conn = lease'[r]
    <2>1. i \in 1 .. n - 1 /\ i \in DOMAIN frames[r] /\ frames'[r][i] = frames[r][i]
      BY <1>1, <1>4
    <2>2. CASE frames[r][i].own
      <3>1. frames[r][i].conn # lease[r] /\ frames[r][i].conn \in Conns
        BY <1>1, <1>3, <2>1, <2>2, ConnectionAssumption DEF HoldInv, OneHolder
      <3> QED BY <2>1, <2>2, <3>1 DEF Place
    <2>3. CASE ~frames[r][i].own
      BY <2>1, <2>3 DEF Place
    <2> QED BY <2>2, <2>3
  <1>5. \A i \in DOMAIN frames'[r] :
            i - 1 \in DOMAIN frames'[r] /\ ~frames'[r][i].own => frames'[r][i].outer = frames'[r][i - 1].env
    <2> TAKE i \in DOMAIN frames'[r]
    <2> HAVE i - 1 \in DOMAIN frames'[r] /\ ~frames'[r][i].own
    <2>1. /\ i \in DOMAIN frames[r] /\ i - 1 \in DOMAIN frames[r]
          /\ frames'[r][i] = frames[r][i] /\ frames'[r][i - 1] = frames[r][i - 1]
      BY <1>1
    <2>2. frames[r][i].outer = frames[r][i - 1].env
      BY <2>1 DEF Place
    <2> QED BY <2>1, <2>2
  <1>6. frames'[r] # <<>> /\ ~Top(r)'.own => leaseEnv'[r] = Top(r)'.env
    <2> SUFFICES ASSUME frames'[r] # <<>>, ~Top(r)'.own PROVE leaseEnv'[r] = Top(r)'.env
      OBVIOUS
    <2>1. frames'[r] \in Seq(Frame)
      BY PopType DEF HoldInv
    <2>2. n - 1 \in 1 .. n - 1 /\ Top(r)' = frames'[r][n - 1]
      BY <1>1, <2>1 DEF Top, Depth
    <2>3. Top(r)' = frames[r][n - 1] /\ n - 1 \in DOMAIN frames[r] /\ n \in DOMAIN frames[r]
      BY <1>1, <2>2
    <2>4. lease[r] # None
      BY <2>3 DEF Place
    <2>5. ~Top(r).own
      BY <1>2, <2>3, <2>4 DEF Place
    <2> QED BY <2>3, <2>5
  <1>7. lease'[r] # None => ~released'[r] /\ tag'[lease'[r]] = leaseEnv'[r]
                            /\ path'[lease'[r]] = leaseEnv'[r]
    BY DEF Place
  <1> QED BY <1>4, <1>5, <1>6, <1>7 DEF Place

\* What one request's step leaves of the others'.
LEMMA CleanStep ==
    ASSUME HoldInv, Clean, NEW r \in Requests, Place(r)', Fenced', ~astray', ~mixed',
           \A c \in idle' : path'[c] = tag'[c],
           \A q \in Requests : q # r =>
               /\ frames'[q] = frames[q] /\ pc'[q] = pc[q] /\ want'[q] = want[q]
               /\ lease'[q] = lease[q] /\ leaseEnv'[q] = leaseEnv[q] /\ released'[q] = released[q],
           \A c \in Conns : path'[c] # path[c] \/ tag'[c] # tag[c] =>
               c \in idle \/ c = lease[r]
    PROVE  Clean'
  <1>1. \A q \in Requests : q # r => Place(q)'
    BY Elsewhere DEF Clean
  <1> QED BY <1>1 DEF Clean

\* Waiting requests have no transaction open, and neither does one whose
\* innermost call is outside it.
LEMMA FenceStep ==
    ASSUME HoldInv, Clean, NEW r \in Requests, UNCHANGED tx,
           pc[r] # "handler" \/ frames[r] = <<>> \/ tx[Top(r).conn] # r,
           \A q \in Requests : q # r => frames'[q] = frames[q] /\ pc'[q] = pc[q]
    PROVE  Fenced'
  <1>1. \A c \in Conns : tx[c] # r
    BY DEF Clean, Fenced
  <1>2. \A q \in Requests : q # r => Top(q)' = Top(q)
    BY DEF Top, Depth
  <1> QED BY <1>1, <1>2 DEF Clean, Fenced

\* The connection of the innermost call is on its schema and shared with none.
LEMMA TopPlace ==
    ASSUME HoldInv, Clean, NEW r \in Requests, pc[r] = "handler", frames[r] # <<>>
    PROVE  /\ path[Top(r).conn] = Top(r).env
           /\ tx[Top(r).conn] \in {None, r}
  <1>1. Place(r) /\ Len(frames[r]) \in DOMAIN frames[r] /\ Top(r) = frames[r][Len(frames[r])]
    BY TopType DEF Clean, HoldInv
  <1>2. path[Top(r).conn] = Top(r).env
    <2>1. CASE Top(r).own
      BY <1>1, <2>1 DEF Place
    <2>2. CASE ~Top(r).own
      <3>1. lease[r] # None /\ Top(r).conn = lease[r] /\ leaseEnv[r] = Top(r).env
        BY <1>1, <2>2 DEF Place
      <3>2. path[lease[r]] = leaseEnv[r]
        BY <1>1, <3>1 DEF Place
      <3> QED BY <3>1, <3>2
    <2> QED BY <2>1, <2>2
  <1>3. ASSUME NEW q \in Requests, q # r, tx[Top(r).conn] = q PROVE FALSE
    <2>1. Top(r).conn \in Conns
      BY <1>1, FrameType DEF HoldInv
    <2>2. frames[q] # <<>> /\ Top(q).conn = Top(r).conn
      BY <1>3, <2>1 DEF Clean, Fenced
    <2>3. Place(q) /\ Len(frames[q]) \in DOMAIN frames[q] /\ Top(q) = frames[q][Len(frames[q])]
      BY <2>2, TopType DEF Clean, HoldInv
    <2>4. CASE Top(q).own /\ Top(r).own
      BY <1>1, <1>3, <2>2, <2>3, <2>4 DEF HoldInv, OwnInv
    <2>5. CASE ~Top(q).own
      <3>1. lease[q] # None /\ Top(r).conn = lease[q]
        BY <2>2, <2>3, <2>5 DEF Place
      <3>2. ~Top(r).own
        BY <1>1, <3>1 DEF HoldInv, OneHolder
      <3>3. lease[r] = lease[q]
        BY <1>1, <3>1, <3>2 DEF Place
      <3> QED BY <1>3, <3>1, <3>3 DEF HoldInv, OneHolder
    <2>6. CASE ~Top(r).own
      <3>1. lease[r] # None /\ Top(q).conn = lease[r]
        BY <1>1, <2>2, <2>6 DEF Place
      <3>2. ~Top(q).own
        BY <2>3, <3>1 DEF HoldInv, OneHolder
      <3> QED BY <2>5, <3>2
    <2> QED BY <2>4, <2>5, <2>6
  <1>4. tx[Top(r).conn] \in Requests \cup {None}
    BY <1>1, FrameType DEF HoldInv, TypeOK
  <1> QED BY <1>2, <1>3, <1>4

\* A wait in which no call begins or ends.
LEMMA WaitPlace ==
    ASSUME HoldInv, NEW r \in Requests, Place(r), frames'[r] = frames[r],
           lease'[r] = lease[r], leaseEnv'[r] = leaseEnv[r], released'[r] = released[r],
           UNCHANGED tag, want'[r] \in Envs,
           \A c \in Conns : c # lease[r] => path'[c] = path[c],
           lease[r] # None => path'[lease[r]] = IF pc'[r] \in {"switch", "restore"} THEN want'[r] ELSE leaseEnv[r],
           pc'[r] \in {"switch", "restore"} => lease[r] # None,
           pc'[r] = "acquire" => ~released[r] /\ lease[r] = None,
           pc'[r] = "checkout" => released[r],
           pc'[r] = "restore" => want'[r] = Top(r).outer
    PROVE  Place(r)'
  <1>1. Top(r)' = Top(r)
    BY DEF Top, Depth
  <1>2. \A i \in DOMAIN frames[r] : frames[r][i].own =>
            path'[frames[r][i].conn] = path[frames[r][i].conn]
    <2> TAKE i \in DOMAIN frames[r]
    <2> HAVE frames[r][i].own
    <2>1. frames[r][i].conn \in Conns
      BY FrameType DEF HoldInv
    <2>2. frames[r][i].conn # lease[r]
      BY <2>1, ConnectionAssumption DEF HoldInv, OneHolder
    <2> QED BY <2>1, <2>2
  <1> QED BY <1>1, <1>2 DEF Place

LEMMA CallWhere ==
    ASSUME HoldInv, Clean, NEW r \in Requests, NEW e \in Envs, Call(r, e)
    PROVE  Clean'
  <1>1. TypeOK /\ Place(r) /\ pc[r] = "handler"
    BY DEF HoldInv, Clean, Call
  <1>2. /\ UNCHANGED <<idle, tag, tx, lease, leaseEnv, released, astray, mixed>>
        /\ want'[r] = e /\ \A q \in Requests : q # r => want'[q] = want[q]
    BY <1>1 DEF Call, share, history, TypeOK
  <1>3. frames[r] = <<>> \/ tx[Top(r).conn] # r
    BY DEF Call
  <1>4. lease[r] # None => lease[r] \in Conns
    BY <1>1 DEF TypeOK
  <1>5. CASE released[r] /\ Await(r, "checkout") /\ UNCHANGED <<path, frames>>
    <2>1. pc'[r] = "checkout" /\ \A q \in Requests : q # r => pc'[q] = pc[q]
      BY <1>1, <1>5 DEF Await, TypeOK
    <2>2. lease[r] = None
      BY <1>1, <1>5 DEF Place
    <2>3. Place(r)'
      BY <1>1, <1>2, <1>5, <2>1, <2>2, WaitPlace
    <2>4. Fenced'
      BY <1>2, <1>3, <1>5, <2>1, FenceStep
    <2> QED BY <1>2, <1>5, <2>1, <2>3, <2>4, CleanStep DEF Clean
  <1>6. CASE ~released[r] /\ lease[r] = None /\ Await(r, "acquire") /\ UNCHANGED <<path, frames>>
    <2>1. pc'[r] = "acquire" /\ \A q \in Requests : q # r => pc'[q] = pc[q]
      BY <1>1, <1>6 DEF Await, TypeOK
    <2>2. Place(r)'
      BY <1>1, <1>2, <1>6, <2>1, WaitPlace
    <2>3. Fenced'
      BY <1>2, <1>3, <1>6, <2>1, FenceStep
    <2> QED BY <1>2, <1>6, <2>1, <2>2, <2>3, CleanStep DEF Clean
  <1>7. CASE /\ lease[r] # None /\ Await(r, "switch")
             /\ path' = [path EXCEPT ![lease[r]] = e] /\ UNCHANGED frames
    <2>1. pc'[r] = "switch" /\ \A q \in Requests : q # r => pc'[q] = pc[q]
      BY <1>1, <1>7 DEF Await, TypeOK
    <2>2. path'[lease[r]] = e /\ \A c \in Conns : c # lease[r] => path'[c] = path[c]
      BY <1>1, <1>4, <1>7 DEF TypeOK
    <2>3. Place(r)'
      BY <1>1, <1>2, <1>7, <2>1, <2>2, WaitPlace
    <2>4. Fenced'
      BY <1>2, <1>3, <1>7, <2>1, FenceStep
    <2>5. \A c \in idle' : path'[c] = tag'[c]
      <3>1. lease[r] \notin idle /\ idle \subseteq Conns
        BY <1>7 DEF HoldInv, OneHolder, TypeOK
      <3> QED BY <1>2, <2>2, <3>1 DEF Clean
    <2>6. \A c \in Conns : path'[c] # path[c] \/ tag'[c] # tag[c] => c \in idle \/ c = lease[r]
      BY <1>2, <2>2
    <2> QED BY <1>2, <1>7, <2>1, <2>3, <2>4, <2>5, <2>6, CleanStep DEF Clean
  <1>8. CASE /\ ~released[r] /\ lease[r] # None /\ leaseEnv[r] = e /\ UNCHANGED <<path, pc>>
             /\ Push(r, [env |-> e, outer |-> e, conn |-> lease[r], own |-> FALSE])
    <2> DEFINE new == [env |-> e, outer |-> e, conn |-> lease[r], own |-> FALSE]
    <2>1. new \in Frame /\ ~new.own /\ new.conn = lease[r] /\ new.env = e /\ new.outer = e
      BY <1>1, <1>8 DEF TypeOK, Frame
    <2>2. Push(r, new)
      BY <1>8
    <2> HIDE DEF new
    <2>3. tag[lease[r]] = e /\ path[lease[r]] = e
      BY <1>1, <1>8 DEF Place
    <2>4. Place(r)'
      BY <1>1, <1>2, <1>8, <2>1, <2>2, <2>3, LeasePlace
    <2>5. \A q \in Requests : q # r => frames'[q] = frames[q]
      BY <1>1, <2>1, <2>2, PushType
    <2>6. Fenced'
      BY <1>2, <1>3, <1>8, <2>5, FenceStep
    <2> QED BY <1>2, <1>8, <2>4, <2>5, <2>6, CleanStep DEF Clean
  <1> QED BY <1>5, <1>6, <1>7, <1>8 DEF Call

LEMMA CheckoutWhere ==
    ASSUME HoldInv, Clean, NEW r \in Requests, NEW c \in Conns, Acquire(r, c) \/ CheckoutOwn(r, c)
    PROVE  Clean'
  <1>1. TypeOK /\ Place(r) /\ pc[r] # "handler" /\ want[r] \in Envs
    BY DEF HoldInv, Clean, Acquire, CheckoutOwn, TypeOK
  <1>2. UNCHANGED <<tx, released, astray, mixed>> /\ Checkout(c, want[r]) /\ Resume(r)
    BY DEF Acquire, CheckoutOwn, history, share
  <1>3. pc'[r] = "handler" /\ \A q \in Requests : q # r => pc'[q] = pc[q] /\ want'[q] = want[q]
    BY <1>1, <1>2 DEF Resume, Await, TypeOK
  <1>4. /\ c \in idle /\ idle' = idle \ {c} /\ tag'[c] = want[r] /\ path'[c] = want[r]
        /\ \A d \in Conns : d # c => path'[d] = path[d] /\ tag'[d] = tag[d]
    <2>1. c \in idle /\ path[c] = tag[c]
      BY <1>2 DEF Clean, Checkout
    <2>2. CASE tag[c] = want[r]
      BY <1>1, <1>2, <2>1, <2>2 DEF Checkout, TypeOK
    <2>3. CASE tag[c] # want[r]
      BY <1>1, <1>2, <2>1, <2>3 DEF Checkout, TypeOK
    <2> QED BY <2>2, <2>3
  <1>5. \A d \in idle' : path'[d] = tag'[d]
    BY <1>1, <1>4 DEF Clean, TypeOK
  <1>6. \A d \in Conns : path'[d] # path[d] \/ tag'[d] # tag[d] => d \in idle
    BY <1>4
  <1>7. ASSUME \A q \in Requests : q # r => /\ frames'[q] = frames[q] /\ lease'[q] = lease[q]
                                            /\ leaseEnv'[q] = leaseEnv[q],
               Place(r)'
        PROVE  Clean'
    <2>1. Fenced'
      BY <1>1, <1>2, <1>3, <1>7, FenceStep
    <2> QED BY <1>2, <1>3, <1>5, <1>6, <1>7, <2>1, CleanStep DEF Clean
  <1>8. CASE Acquire(r, c)
    <2> DEFINE new == [env |-> want[r], outer |-> None, conn |-> c, own |-> FALSE]
    <2>1. new \in Frame /\ ~new.own /\ new.conn = c /\ new.env = want[r]
      BY <1>1 DEF Frame
    <2>2. Push(r, new)
      BY <1>8 DEF Acquire
    <2> HIDE DEF new
    <2>3. /\ lease'[r] = c /\ leaseEnv'[r] = want[r]
          /\ \A q \in Requests : q # r => lease'[q] = lease[q] /\ leaseEnv'[q] = leaseEnv[q]
      BY <1>1, <1>8 DEF Acquire, TypeOK
    <2>4. ~released[r] /\ lease[r] = None
      BY <1>1, <1>8 DEF Acquire, Place
    <2>5. frames[r] = <<>>
      <3> SUFFICES ASSUME frames[r] # <<>> PROVE FALSE
        OBVIOUS
      <3>1. Len(frames[r]) \in DOMAIN frames[r]
        BY <1>1, TopType
      <3> QED BY <1>1, <2>4, <3>1 DEF Place
    <2>6. c # None
      BY ConnectionAssumption
    <2>7. Place(r)'
      BY <1>1, <1>2, <1>3, <1>4, <2>1, <2>2, <2>3, <2>4, <2>5, <2>6, LeasePlace
    <2> QED BY <1>1, <1>7, <2>1, <2>2, <2>3, <2>7, PushType
  <1>9. CASE CheckoutOwn(r, c)
    <2> DEFINE new == [env |-> want[r], outer |-> None, conn |-> c, own |-> TRUE]
    <2>1. new \in Frame /\ new.own /\ new.conn = c /\ new.env = want[r]
      BY <1>1 DEF Frame
    <2>2. Push(r, new)
      BY <1>9 DEF CheckoutOwn
    <2> HIDE DEF new
    <2>3. released[r] /\ UNCHANGED <<lease, leaseEnv>>
      BY <1>1, <1>9 DEF CheckoutOwn, Place, share
    <2>4. \A d \in Conns \ idle : path'[d] = path[d] /\ tag'[d] = tag[d]
      BY <1>6
    <2>5. Place(r)'
      BY <1>1, <1>2, <1>3, <1>4, <2>1, <2>2, <2>3, <2>4, OwnPlace
    <2> QED BY <1>1, <1>7, <2>1, <2>2, <2>3, <2>5, PushType
  <1> QED BY <1>8, <1>9

LEMMA AnswerWhere ==
    ASSUME HoldInv, Clean, NEW r \in Requests, Timeout(r) \/ Switch(r) \/ Restore(r)
    PROVE  Clean'
  <1>1. TypeOK /\ Place(r) /\ pc[r] # "handler" /\ want[r] \in Envs
    BY DEF HoldInv, Clean, Timeout, Switch, Restore, TypeOK
  <1>2. UNCHANGED <<idle, path, tx, lease, released, astray, mixed>> /\ Resume(r)
    BY DEF Timeout, Switch, Restore, pool, share, history
  <1>3. /\ pc'[r] = "handler" /\ want'[r] \in Envs
        /\ \A q \in Requests : q # r => pc'[q] = pc[q] /\ want'[q] = want[q]
    BY <1>1, <1>2 DEF Resume, Await, TypeOK, Envs
  <1>4. CASE Timeout(r)
    <2>1. UNCHANGED <<frames, tag, leaseEnv>> /\ pc[r] \in {"acquire", "checkout"}
      BY <1>4 DEF Timeout, pool, share
    <2>2. lease[r] # None => path[lease[r]] = leaseEnv[r]
      BY <1>1, <2>1 DEF Place
    <2>3. Place(r)'
      BY <1>1, <1>2, <1>3, <2>1, <2>2, WaitPlace
    <2>4. Fenced'
      BY <1>1, <1>2, <1>3, <2>1, FenceStep
    <2> QED BY <1>2, <1>3, <2>1, <2>3, <2>4, CleanStep DEF Clean
  <1>5. CASE Switch(r) \/ Restore(r)
    <2>1. /\ lease[r] # None /\ lease[r] \in Conns /\ path[lease[r]] = want[r] /\ ~released[r]
          /\ pc[r] \in {"switch", "restore"}
      BY <1>1, <1>5 DEF Switch, Restore, Place, TypeOK
    <2>2. /\ tag'[lease[r]] = want[r] /\ leaseEnv'[r] = want[r]
          /\ \A c \in Conns : c # lease[r] => tag'[c] = tag[c]
          /\ \A q \in Requests : q # r => leaseEnv'[q] = leaseEnv[q]
      BY <1>1, <1>5, <2>1 DEF Switch, Restore, Rebind, TypeOK
    <2>3. \A c \in idle' : path'[c] = tag'[c]
      <3>1. lease[r] \notin idle /\ idle \subseteq Conns
        BY <2>1 DEF HoldInv, OneHolder, TypeOK
      <3> QED BY <1>2, <2>2, <3>1 DEF Clean
    <2>4. ASSUME Place(r)', \A q \in Requests : q # r => frames'[q] = frames[q] PROVE Clean'
      <3>1. Fenced'
        BY <1>1, <1>2, <1>3, <2>4, FenceStep
      <3> QED BY <1>2, <1>3, <2>2, <2>3, <2>4, <3>1, CleanStep DEF Clean
    <2>5. CASE Switch(r)
      <3> DEFINE new == [env |-> want[r], outer |-> leaseEnv[r], conn |-> lease[r], own |-> FALSE]
      <3>1. /\ new \in Frame /\ ~new.own /\ new.conn = lease[r] /\ new.env = want[r]
            /\ new.outer = leaseEnv[r]
        BY <1>1, <2>1 DEF TypeOK, Frame
      <3>2. Push(r, new)
        BY <2>1, <2>5 DEF Switch
      <3> HIDE DEF new
      <3>3. Place(r)'
        BY <1>1, <1>2, <1>3, <2>1, <2>2, <3>1, <3>2, LeasePlace
      <3> QED BY <1>1, <2>4, <3>1, <3>2, <3>3, PushType
    <2>6. CASE Restore(r)
      <3>1. frames[r] # <<>> /\ Pop(r) /\ want[r] = Top(r).outer
        BY <1>1, <2>6 DEF Restore, HoldInv, RestoreInv, Place
      <3>2. ASSUME Len(frames[r]) - 1 \in DOMAIN frames[r], ~Top(r).own
            PROVE  leaseEnv'[r] = frames[r][Len(frames[r]) - 1].env
        <4>1. Top(r) = frames[r][Len(frames[r])] /\ Len(frames[r]) \in DOMAIN frames[r]
          BY <1>1, <3>1, TopType
        <4>2. Top(r).outer = frames[r][Len(frames[r]) - 1].env
          BY <1>1, <3>2, <4>1 DEF Place
        <4> QED BY <2>2, <3>1, <4>2
      <3>3. Place(r)'
        BY <1>1, <1>2, <1>3, <2>1, <2>2, <3>1, <3>2, PopPlace
      <3> QED BY <1>1, <2>4, <3>1, <3>3, PopType
    <2> QED BY <1>5, <2>5, <2>6
  <1> QED BY <1>4, <1>5

LEMMA EndCallWhere ==
    ASSUME HoldInv, Clean, NEW r \in Requests, EndCall(r)
    PROVE  Clean'
  <1> DEFINE top == Top(r)
  <1>1. TypeOK /\ Place(r) /\ pc[r] = "handler" /\ frames[r] # <<>> /\ tx[top.conn] # r
    BY DEF HoldInv, Clean, EndCall
  <1>2. UNCHANGED <<tag, tx, lease, leaseEnv, released, astray, mixed>>
    BY DEF EndCall, share, history
  <1>3. /\ Len(frames[r]) \in DOMAIN frames[r] /\ top = frames[r][Len(frames[r])]
        /\ top \in Frame /\ top.conn \in Conns
    BY <1>1, TopType, FrameType
  <1>4. lease[r] # None => lease[r] \in Conns \ idle
    BY <1>1 DEF TypeOK, HoldInv, OneHolder
  <1>5. \A q \in Requests : q # r => want'[q] = want[q]
    BY <1>1 DEF EndCall, TypeOK
  <1>6. CASE Pop(r) /\ UNCHANGED <<path, want, pc>>
    <2>1. \A q \in Requests : q # r => frames'[q] = frames[q]
      BY <1>1, <1>6, PopType
    <2>2. \A c \in idle' : path'[c] = tag'[c]
      <3>1. \A c \in idle' : c \in idle \/ (top.own /\ c = top.conn)
        BY DEF EndCall, Return
      <3>2. top.own => path[top.conn] = tag[top.conn]
        BY <1>1, <1>3 DEF Place
      <3> QED BY <1>2, <1>6, <3>1, <3>2 DEF Clean
    <2>3. lease[r] # None => tag[lease[r]] = leaseEnv[r] /\ path[lease[r]] = leaseEnv[r]
      BY <1>1 DEF Place
    <2>4. ASSUME Len(frames[r]) - 1 \in DOMAIN frames[r], ~top.own
          PROVE  leaseEnv[r] = frames[r][Len(frames[r]) - 1].env
      <3>1. top.outer = frames[r][Len(frames[r]) - 1].env
        BY <1>1, <1>3, <2>4 DEF Place
      <3>2. frames[r][Len(frames[r]) - 1] \in Frame
        BY <1>1, <2>4, FrameType
      <3>3. top.outer \in Envs /\ top.outer # None
        BY <3>1, <3>2, ConnectionAssumption DEF Frame
      <3>4. lease[r] # None /\ ~released[r] /\ leaseEnv[r] = top.env
        BY <1>1, <1>3, <2>4 DEF Place
      <3>5. CASE top.outer = top.env
        BY <3>1, <3>4, <3>5
      <3>6. CASE top.outer # top.env
        <4>1. leaseEnv[r] = top.outer \/ Await(r, "restore")
          BY <3>3, <3>4, <3>6 DEF EndCall
        <4>2. Await(r, "restore") => pc'[r] = "restore"
          BY <1>1 DEF Await, TypeOK
        <4>3. leaseEnv[r] = top.outer
          BY <1>1, <1>6, <4>1, <4>2
        <4> QED BY <3>1, <4>3
      <3> QED BY <3>5, <3>6
    <2>5. Place(r)'
      BY <1>1, <1>2, <1>6, <2>3, <2>4, PopPlace
    <2>6. Fenced'
      BY <1>1, <1>2, <1>6, <2>1, FenceStep
    <2> QED BY <1>2, <1>5, <1>6, <2>1, <2>2, <2>5, <2>6, CleanStep DEF Clean
  <1>7. CASE /\ ~released[r] /\ lease[r] # None /\ path' = [path EXCEPT ![lease[r]] = top.outer]
             /\ top.outer \in Envs /\ want' = [want EXCEPT ![r] = top.outer]
             /\ Await(r, "restore") /\ UNCHANGED frames
    <2>1. /\ pc'[r] = "restore" /\ want'[r] = top.outer
          /\ \A q \in Requests : q # r => pc'[q] = pc[q]
      BY <1>1, <1>7 DEF Await, TypeOK
    <2>2. path'[lease[r]] = top.outer /\ \A c \in Conns : c # lease[r] => path'[c] = path[c]
      BY <1>1, <1>4, <1>7 DEF TypeOK
    <2>3. Place(r)'
      BY <1>1, <1>2, <1>7, <2>1, <2>2, WaitPlace
    <2>4. Fenced'
      BY <1>1, <1>2, <1>7, <2>1, FenceStep
    <2>5. ~top.own
      BY <1>1, <1>3, <1>7 DEF Place
    <2>6. UNCHANGED idle
      BY <2>5 DEF EndCall
    <2>7. \A c \in idle' : path'[c] = tag'[c]
      BY <1>1, <1>2, <1>4, <1>7, <2>2, <2>6 DEF Clean, TypeOK
    <2> QED BY <1>2, <1>5, <1>7, <2>1, <2>2, <2>3, <2>4, <2>7, CleanStep DEF Clean
  <1>8. top.outer # None /\ top \in Frame => top.outer \in Envs
    BY DEF Frame
  <1> QED BY <1>3, <1>6, <1>7, <1>8 DEF EndCall

LEMMA StatementWhere ==
    ASSUME HoldInv, Clean, NEW r \in Requests, Statement(r)
    PROVE  Clean'
  <1>1. TypeOK /\ pc[r] = "handler" /\ frames[r] # <<>>
    BY DEF HoldInv, Statement
  <1>2. UNCHANGED <<idle, path, tag, lease, leaseEnv, released, frames, pc, want>>
    BY DEF Statement, share, control
  <1>3. ~astray' /\ ~mixed'
    BY <1>1, TopPlace DEF Statement, Clean
  <1>4. \A c \in Conns : tx'[c] \in {tx[c], None} \/ (c = Top(r).conn /\ tx'[c] = r)
    <2>1. \/ tx' = tx
          \/ tx' = [tx EXCEPT ![Top(r).conn] = IF @ = None THEN r ELSE @]
          \/ tx' = [tx EXCEPT ![Top(r).conn] = None]
      BY DEF Statement
    <2> QED BY <1>1, <2>1 DEF TypeOK
  <1>5. Fenced'
    <2> SUFFICES ASSUME NEW q \in Requests, NEW c \in Conns, tx'[c] = q
                 PROVE  pc[q] = "handler" /\ frames[q] # <<>> /\ Top(q).conn = c
      BY <1>2 DEF Fenced, Top, Depth
    <2>1. q # None
      BY ConnectionAssumption
    <2>2. CASE tx[c] = q
      BY <2>2 DEF Clean, Fenced
    <2>3. CASE c = Top(r).conn /\ q = r
      BY <1>1, <2>3
    <2> QED BY <1>4, <2>1, <2>2, <2>3
  <1>6. \A q \in Requests : Place(q)'
    BY <1>2 DEF Clean, Place, Top, Depth
  <1> QED BY <1>2, <1>3, <1>5, <1>6 DEF Clean

LEMMA RespondWhere ==
    ASSUME HoldInv, Clean, NEW r \in Requests, Respond(r)
    PROVE  Clean'
  <1>1. /\ TypeOK /\ Place(r) /\ pc[r] = "handler" /\ frames[r] = <<>> /\ ReleaseDb(r)
        /\ UNCHANGED <<path, tag, tx, leaseEnv, frames, pc, want, astray, mixed>>
    BY DEF HoldInv, Clean, Respond, history
  <1>2. /\ lease'[r] = None /\ released'[r] = TRUE
        /\ \A q \in Requests : q # r => lease'[q] = lease[q] /\ released'[q] = released[q]
    BY <1>1 DEF ReleaseDb, TypeOK
  <1>3. \A c \in idle' : c \in idle \/ (lease[r] # None /\ c = lease[r])
    BY <1>1 DEF ReleaseDb, Return
  <1>4. lease[r] # None => path[lease[r]] = tag[lease[r]]
    BY <1>1 DEF Place
  <1>5. \A c \in idle' : path'[c] = tag'[c]
    BY <1>1, <1>3, <1>4 DEF Clean
  <1>6. DOMAIN frames[r] = {}
    BY <1>1
  <1>7. Place(r)'
    BY <1>1, <1>2, <1>6 DEF Place
  <1>8. Fenced'
    BY <1>1, FenceStep
  <1> QED BY <1>1, <1>2, <1>5, <1>7, <1>8, CleanStep DEF Clean

-----------------------------------------------------------------------------
LEMMA WhereStep == WhereInv /\ [Next]_vars => WhereInv'
  <1> SUFFICES ASSUME WhereInv, [Next]_vars PROVE WhereInv'
    OBVIOUS
  <1>1. HoldInv /\ HoldInv'
    BY HoldStep DEF WhereInv
  <1>2. ASSUME aborts' = 0 PROVE Clean'
    <2>1. CASE UNCHANGED vars
      BY <1>2, <2>1 DEF vars, WhereInv, Clean, Place, Fenced, Top, Depth
    <2>2. CASE Next
      <3> PICK r \in Requests :
               \/ \E e \in Envs : Call(r, e)
               \/ Answer(r) \/ EndCall(r) \/ Statement(r) \/ Respond(r) \/ Abort(r)
        BY <2>2 DEF Next
      <3>1. ~Abort(r)
        BY <1>1, <1>2 DEF Abort, HoldInv, TypeOK
      <3>2. aborts = 0
        BY <1>2, <3>1 DEF Call, Answer, Acquire, CheckoutOwn, Timeout, Switch, Restore,
                          EndCall, Statement, Respond, control
      <3>3. Clean
        BY <3>2 DEF WhereInv
      <3>4. CASE Answer(r)
        BY <1>1, <3>3, <3>4, CheckoutWhere, AnswerWhere DEF Answer
      <3> QED BY <1>1, <3>1, <3>3, <3>4, CallWhere, EndCallWhere, StatementWhere, RespondWhere
    <2> QED BY <2>1, <2>2
  <1> QED BY <1>1, <1>2 DEF WhereInv

LEMMA WhereInit == Init => WhereInv
  <1> SUFFICES ASSUME Init PROVE WhereInv
    OBVIOUS
  <1>1. HoldInv
    BY HoldInit
  <1>2. \A r \in Requests : frames[r] = <<>> /\ pc[r] = "handler" /\ lease[r] = None
    BY DEF Init
  <1>3. \A r \in Requests : Place(r)
    BY <1>2 DEF Place
  <1>4. Fenced
    BY ConnectionAssumption DEF Init, Fenced
  <1>5. \A c \in idle : path[c] = tag[c]
    BY DEF Init
  <1> QED BY <1>1, <1>3, <1>4, <1>5 DEF Init, WhereInv, Clean

\* Unless a client went away, no statement of any request runs on the schema of
\* another call or inside another request's transaction, however calls of many
\* requests nest and interleave (tenant-context.js, withPinned).
THEOREM StatementsStayPut == Spec => []RunsWhereAsked
  <1>1. WhereInv => RunsWhereAsked
    BY DEF WhereInv, Clean, RunsWhereAsked
  <1> QED BY <1>1, WhereInit, WhereStep, PTL DEF Spec

-----------------------------------------------------------------------------
(* No connection is lost, but to clients that go away.                      *)

\* Every connection is in the pool, on a lease or on a call of its own; and the
\* steps at which one could slip out of that.
PlacedInv ==
    /\ \A c \in Conns :
          \/ c \in idle
          \/ \E r \in Requests : lease[r] = c
          \/ \E r \in Requests : \E i \in DOMAIN frames[r] :
                frames[r][i].own /\ frames[r][i].conn = c
    /\ \A r \in Requests : pc[r] = "acquire" => lease[r] = None
    /\ \A r \in Requests : pc[r] = "restore" => ~Top(r).own

\* A response that has ended; only that of a client that went away ends while the
\* request waits for its lease.
Closed == {r \in Requests : response[r] = "closed"}

ReleasedInv ==
    /\ \A r \in Requests : released[r] => response[r] # "open"
    /\ \A r \in Requests : released[r] /\ r \notin Closed => lease[r] = None /\ pc[r] # "acquire"
    /\ IsFiniteSet(Closed) /\ Cardinality(Closed) = aborts

AccountInv == HoldInv /\ PlacedInv /\ ReleasedInv

\* A connection that leaves its place is in another one after the step.
LEMMA PlacedStep ==
    ASSUME PlacedInv,
           \A c \in Conns : c \in idle \ idle' =>
               \/ \E r \in Requests : lease'[r] = c
               \/ \E r \in Requests : \E i \in DOMAIN frames'[r] :
                     frames'[r][i].own /\ frames'[r][i].conn = c,
           \A r \in Requests : lease[r] # None => lease'[r] = lease[r] \/ lease[r] \in idle',
           \A r \in Requests : \A i \in DOMAIN frames[r] : frames[r][i].own =>
               \/ i \in DOMAIN frames'[r] /\ frames'[r][i] = frames[r][i]
               \/ frames[r][i].conn \in idle',
           \A r \in Requests : pc'[r] = "acquire" => lease'[r] = None,
           \A r \in Requests : pc'[r] = "restore" => ~Top(r)'.own
    PROVE  PlacedInv'
  <1>1. ASSUME NEW c \in Conns
        PROVE  \/ c \in idle'
               \/ \E r \in Requests : lease'[r] = c
               \/ \E r \in Requests : \E i \in DOMAIN frames'[r] :
                     frames'[r][i].own /\ frames'[r][i].conn = c
    <2>1. CASE c \in idle
      BY <2>1
    <2>2. CASE \E r \in Requests : lease[r] = c
      BY <2>2, ConnectionAssumption
    <2>3. CASE \E r \in Requests : \E i \in DOMAIN frames[r] :
                  frames[r][i].own /\ frames[r][i].conn = c
      BY <2>3
    <2> QED BY <2>1, <2>2, <2>3 DEF PlacedInv
  <1> QED BY <1>1 DEF PlacedInv

\* A step that ends no response.
LEMMA ReleasedStep ==
    ASSUME ReleasedInv, UNCHANGED <<response, released, aborts>>,
           \A r \in Requests : released[r] /\ r \notin Closed => lease'[r] = None /\ pc'[r] # "acquire"
    PROVE  ReleasedInv'
  <1>1. Closed' = Closed
    BY DEF Closed
  <1> QED BY <1>1 DEF ReleasedInv

LEMMA CallAccount ==
    ASSUME AccountInv, NEW r \in Requests, NEW e \in Envs, Call(r, e)
    PROVE  PlacedInv' /\ ReleasedInv'
  <1>1. /\ TypeOK /\ PlacedInv /\ ReleasedInv
        /\ UNCHANGED <<idle, lease, released, response, aborts>>
    BY DEF AccountInv, HoldInv, Call, share
  <1>2. /\ pc[r] = "handler" /\ \A q \in Requests : q # r => pc'[q] = pc[q]
        /\ pc'[r] \in {"handler", "checkout", "acquire", "switch"}
        /\ pc'[r] = "acquire" => ~released[r] /\ lease[r] = None
    BY <1>1 DEF Call, Await, TypeOK
  <1>3. /\ \A q \in Requests : q # r => frames'[q] = frames[q]
        /\ \A q \in Requests : \A i \in DOMAIN frames[q] :
              i \in DOMAIN frames'[q] /\ frames'[q][i] = frames[q][i]
    <2>1. CASE UNCHANGED frames
      BY <2>1
    <2>2. CASE lease[r] # None /\ Push(r, [env |-> e, outer |-> e, conn |-> lease[r], own |-> FALSE])
      <3>1. [env |-> e, outer |-> e, conn |-> lease[r], own |-> FALSE] \in Frame
        BY <1>1, <2>2 DEF TypeOK, Frame
      <3> QED BY <1>1, <2>2, <3>1, PushType
    <2> QED BY <2>1, <2>2 DEF Call
  <1>4. \A q \in Requests : q # r => Top(q)' = Top(q)
    BY <1>3 DEF Top, Depth
  <1>5. PlacedInv'
    BY <1>1, <1>2, <1>3, <1>4, PlacedStep DEF PlacedInv
  <1>6. ReleasedInv'
    BY <1>1, <1>2, ReleasedStep DEF ReleasedInv
  <1> QED BY <1>5, <1>6

LEMMA AnswerAccount ==
    ASSUME AccountInv, NEW r \in Requests, Answer(r)
    PROVE  PlacedInv' /\ ReleasedInv'
  <1>1. TypeOK /\ RestoreInv /\ PlacedInv /\ ReleasedInv
    BY DEF AccountInv, HoldInv
  <1>2. /\ UNCHANGED <<released, response, aborts>> /\ Resume(r)
        /\ pc'[r] = "handler" /\ \A q \in Requests : q # r => pc'[q] = pc[q]
    BY <1>1 DEF Answer, Acquire, CheckoutOwn, Timeout, Switch, Restore, share, pool,
                Resume, Await, TypeOK
  <1>3. ASSUME \A q \in Requests : q # r => frames'[q] = frames[q] /\ lease'[q] = lease[q],
               \A c \in Conns : c \in idle \ idle' =>
                   \/ lease'[r] = c
                   \/ \E i \in DOMAIN frames'[r] : frames'[r][i].own /\ frames'[r][i].conn = c,
               lease[r] # None => lease'[r] = lease[r],
               \A i \in DOMAIN frames[r] : frames[r][i].own =>
                   i \in DOMAIN frames'[r] /\ frames'[r][i] = frames[r][i],
               lease'[r] # lease[r] => ~released[r] \/ r \in Closed
        PROVE  PlacedInv' /\ ReleasedInv'
    <2>1. \A q \in Requests : q # r => Top(q)' = Top(q)
      BY <1>3 DEF Top, Depth
    <2>2. PlacedInv'
      BY <1>1, <1>2, <1>3, <2>1, PlacedStep DEF PlacedInv
    <2>3. ReleasedInv'
      BY <1>1, <1>2, <1>3, ReleasedStep DEF ReleasedInv
    <2> QED BY <2>2, <2>3
  <1>4. ASSUME NEW c \in Conns, Acquire(r, c) PROVE PlacedInv' /\ ReleasedInv'
    <2> DEFINE new == [env |-> want[r], outer |-> None, conn |-> c, own |-> FALSE]
    <2>1. new \in Frame
      BY <1>1 DEF TypeOK, Frame
    <2>2. lease'[r] = c /\ \A q \in Requests : q # r => lease'[q] = lease[q]
      BY <1>1, <1>4 DEF Acquire, TypeOK
    <2>3. idle' = idle \ {c} /\ lease[r] = None /\ (~released[r] \/ r \in Closed)
      BY <1>1, <1>4 DEF Acquire, Checkout, PlacedInv, ReleasedInv
    <2>4. Push(r, new)
      BY <1>4 DEF Acquire
    <2> HIDE DEF new
    <2>5. /\ \A i \in DOMAIN frames[r] : i \in DOMAIN frames'[r] /\ frames'[r][i] = frames[r][i]
          /\ \A q \in Requests : q # r => frames'[q] = frames[q]
      BY <1>1, <2>1, <2>4, PushType
    <2> QED BY <1>3, <2>2, <2>3, <2>5
  <1>5. ASSUME NEW c \in Conns, CheckoutOwn(r, c) PROVE PlacedInv' /\ ReleasedInv'
    <2> DEFINE new == [env |-> want[r], outer |-> None, conn |-> c, own |-> TRUE]
    <2>1. new \in Frame /\ new.own /\ new.conn = c
      BY <1>1 DEF TypeOK, Frame
    <2>2. Push(r, new)
      BY <1>5 DEF CheckoutOwn
    <2> HIDE DEF new
    <2>3. /\ Len(frames[r]) + 1 \in DOMAIN frames'[r] /\ frames'[r][Len(frames[r]) + 1] = new
          /\ \A i \in DOMAIN frames[r] : i \in DOMAIN frames'[r] /\ frames'[r][i] = frames[r][i]
          /\ \A q \in Requests : q # r => frames'[q] = frames[q]
      <3>1. /\ Len(frames[r]) \in Nat /\ DOMAIN frames[r] = 1 .. Len(frames[r])
            /\ DOMAIN frames'[r] = 1 .. Len(frames[r]) + 1
            /\ \A i \in 1 .. Len(frames[r]) : frames'[r][i] = frames[r][i]
            /\ frames'[r][Len(frames[r]) + 1] = new
            /\ \A q \in Requests : q # r => frames'[q] = frames[q]
        BY <1>1, <2>1, <2>2, PushType
      <3> QED BY <3>1
    <2>4. idle' = idle \ {c} /\ lease' = lease
      BY <1>5 DEF CheckoutOwn, Checkout, share
    <2> QED BY <1>3, <2>1, <2>3, <2>4
  <1>6. CASE Timeout(r)
    BY <1>3, <1>6 DEF Timeout, pool, share
  <1>7. CASE Switch(r)
    <2>1. UNCHANGED <<idle, lease>>
      BY <1>7 DEF Switch
    <2>2. CASE UNCHANGED frames
      BY <1>3, <2>1, <2>2
    <2>3. CASE lease[r] # None
      <3>1. [env |-> want[r], outer |-> leaseEnv[r], conn |-> lease[r], own |-> FALSE] \in Frame
        BY <1>1, <2>3 DEF TypeOK, Frame
      <3> QED BY <1>1, <1>3, <1>7, <2>1, <2>3, <3>1, PushType DEF Switch
    <2> QED BY <1>7, <2>2, <2>3 DEF Switch
  <1>8. CASE Restore(r)
    <2>1. UNCHANGED <<idle, lease>> /\ frames[r] # <<>> /\ Pop(r) /\ ~Top(r).own
      BY <1>1, <1>8 DEF Restore, RestoreInv, PlacedInv
    <2>2. Top(r) = frames[r][Len(frames[r])]
      BY <1>1, <2>1, TopType
    <2>3. \A q \in Requests : q # r => frames'[q] = frames[q]
      BY <1>1, <2>1, PopType
    <2>4. \A i \in DOMAIN frames[r] : frames[r][i].own =>
              i \in DOMAIN frames'[r] /\ frames'[r][i] = frames[r][i]
      BY <1>1, <2>1, <2>2, PopType
    <2> QED BY <1>3, <2>1, <2>3, <2>4
  <1> QED BY <1>4, <1>5, <1>6, <1>7, <1>8 DEF Answer

LEMMA HandlerAccount ==
    ASSUME AccountInv, NEW r \in Requests, EndCall(r) \/ Statement(r)
    PROVE  PlacedInv' /\ ReleasedInv'
  <1>1. /\ TypeOK /\ PlacedInv /\ ReleasedInv /\ pc[r] = "handler" /\ frames[r] # <<>>
        /\ UNCHANGED <<lease, released, response, aborts>>
    BY DEF AccountInv, HoldInv, EndCall, Statement, share, control
  <1>2. Top(r) = frames[r][Len(frames[r])] /\ Len(frames[r]) \in DOMAIN frames[r]
    BY <1>1, TopType
  <1>3. CASE Statement(r)
    <2>1. UNCHANGED <<idle, frames, pc>>
      BY <1>3 DEF Statement, control
    <2>2. \A q \in Requests : Top(q)' = Top(q)
      BY <2>1 DEF Top, Depth
    <2> QED BY <1>1, <2>1, <2>2, PlacedStep, ReleasedStep DEF PlacedInv, ReleasedInv
  <1>4. CASE EndCall(r) /\ Pop(r) /\ UNCHANGED <<path, want, pc>>
    <2>1. /\ \A q \in Requests : q # r => frames'[q] = frames[q]
          /\ \A i \in DOMAIN frames[r] : i # Len(frames[r]) =>
                i \in DOMAIN frames'[r] /\ frames'[r][i] = frames[r][i]
      BY <1>1, <1>4, PopType
    <2>2. idle \subseteq idle' /\ (Top(r).own => Top(r).conn \in idle')
      BY <1>4 DEF EndCall, Return
    <2>3. \A q \in Requests : q # r => Top(q)' = Top(q)
      BY <2>1 DEF Top, Depth
    <2>4. PlacedInv'
      BY <1>1, <1>2, <1>4, <2>1, <2>2, <2>3, PlacedStep DEF PlacedInv
    <2> QED BY <1>1, <1>4, <2>4, ReleasedStep DEF ReleasedInv
  <1>5. CASE EndCall(r) /\ Top(r).outer # None /\ Await(r, "restore") /\ UNCHANGED frames
    <2>1. ~Top(r).own
      BY <1>1, <1>2, <1>5 DEF AccountInv, HoldInv, OwnInv
    <2>2. UNCHANGED idle
      BY <1>5, <2>1 DEF EndCall
    <2>3. pc'[r] = "restore" /\ \A q \in Requests : q # r => pc'[q] = pc[q]
      BY <1>1, <1>5 DEF Await, TypeOK
    <2>4. \A q \in Requests : Top(q)' = Top(q)
      BY <1>5 DEF Top, Depth
    <2> QED BY <1>1, <1>5, <2>1, <2>2, <2>3, <2>4, PlacedStep, ReleasedStep
            DEF PlacedInv, ReleasedInv
  <1> QED BY <1>3, <1>4, <1>5 DEF EndCall

\* The end of a response releases the lease there is, and counts if nobody
\* waited for it.
LEMMA EndAccount ==
    ASSUME AccountInv, NEW r \in Requests, Respond(r) \/ Abort(r)
    PROVE  PlacedInv' /\ ReleasedInv'
  <1>1. /\ TypeOK /\ PlacedInv /\ ReleasedInv /\ ReleaseDb(r) /\ response[r] = "open"
        /\ UNCHANGED <<frames, pc>>
    BY DEF AccountInv, HoldInv, Respond, Abort
  <1>2. /\ lease'[r] = None /\ released'[r] = TRUE
        /\ \A q \in Requests : q # r => lease'[q] = lease[q] /\ released'[q] = released[q]
        /\ idle \subseteq idle' /\ (lease[r] # None => lease[r] \in idle')
    BY <1>1 DEF ReleaseDb, Return, TypeOK
  <1>3. \A q \in Requests : Top(q)' = Top(q)
    BY <1>1 DEF Top, Depth
  <1>4. PlacedInv'
    BY <1>1, <1>2, <1>3, PlacedStep DEF PlacedInv
  <1>5. r \notin Closed
    BY <1>1 DEF Closed
  <1>6. CASE Respond(r)
    <2>1. /\ response'[r] = "finished" /\ pc[r] = "handler" /\ aborts' = aborts
          /\ \A q \in Requests : q # r => response'[q] = response[q]
      BY <1>1, <1>6 DEF Respond, TypeOK
    <2>2. Closed' = Closed
      BY <1>1, <2>1 DEF Closed
    <2> QED BY <1>1, <1>2, <1>4, <2>1, <2>2 DEF ReleasedInv
  <1>7. CASE Abort(r)
    <2>1. /\ response'[r] = "closed" /\ aborts' = aborts + 1
          /\ \A q \in Requests : q # r => response'[q] = response[q]
      BY <1>1, <1>7 DEF Abort, TypeOK
    <2>2. Closed' = Closed \cup {r}
      BY <1>1, <2>1 DEF Closed
    <2>3. IsFiniteSet(Closed') /\ Cardinality(Closed') = aborts'
      BY <1>1, <1>5, <2>1, <2>2, FS_AddElement DEF ReleasedInv
    <2> QED BY <1>1, <1>2, <1>4, <2>1, <2>2, <2>3 DEF ReleasedInv
  <1> QED BY <1>6, <1>7

LEMMA AccountStep == AccountInv /\ [Next]_vars => AccountInv'
  <1> SUFFICES ASSUME AccountInv, [Next]_vars PROVE AccountInv'
    OBVIOUS
  <1>1. HoldInv'
    BY HoldStep DEF AccountInv
  <1>2. CASE UNCHANGED vars
    BY <1>1, <1>2 DEF vars, AccountInv, PlacedInv, ReleasedInv, Closed, Top, Depth
  <1>3. CASE Next
    BY <1>1, <1>3, CallAccount, AnswerAccount, HandlerAccount, EndAccount
       DEF Next, AccountInv
  <1> QED BY <1>2, <1>3

LEMMA AccountInit == Init => AccountInv
  <1> SUFFICES ASSUME Init PROVE AccountInv
    OBVIOUS
  <1>1. /\ idle = Conns /\ aborts = 0
        /\ \A r \in Requests : /\ lease[r] = None /\ pc[r] = "handler" /\ ~released[r]
                               /\ response[r] = "open"
    BY DEF Init
  <1>2. Closed = {}
    BY <1>1 DEF Closed
  <1> QED BY <1>1, <1>2, HoldInit, FS_EmptySet DEF AccountInv, PlacedInv, ReleasedInv

\* The connections adrift are the leases of clients that went away.
LEMMA AdriftBound ==
    ASSUME AccountInv
    PROVE  Cardinality(Adrift) <= aborts
  <1> DEFINE S == {r \in Closed : lease[r] \in Adrift}
             f == [r \in S |-> lease[r]]
  <1>1. IsFiniteSet(Closed) /\ Cardinality(Closed) = aborts
    BY DEF AccountInv, ReleasedInv
  <1>2. /\ IsFiniteSet(S) /\ Cardinality(S) <= aborts
        /\ Cardinality(S) \in Nat /\ aborts \in Nat
    <2>1. S \in SUBSET Closed
      OBVIOUS
    <2> HIDE DEF S
    <2> QED BY <1>1, <2>1, FS_Subset, FS_CardinalityType
  <1>3. \A c \in Adrift : \E r \in S : f[r] = c
    <2> TAKE c \in Adrift
    <2>1. PICK r \in Requests : lease[r] = c
      BY DEF Adrift, AccountInv, PlacedInv
    <2>2. c # None
      BY ConnectionAssumption DEF Adrift
    <2>3. released[r] /\ r \in Closed
      BY <2>1, <2>2 DEF Adrift, AccountInv, ReleasedInv, HoldInv, TypeOK
    <2> QED BY <2>1, <2>3
  <1>4. f \in Surjection(S, Adrift)
    <2>1. f \in [S -> Adrift]
      OBVIOUS
    <2> QED BY <1>3, <2>1 DEF Surjection
  <1>5. IsFiniteSet(Adrift) /\ Cardinality(Adrift) <= Cardinality(S)
    BY <1>2, <1>4, FS_Surjection
  <1>6. Cardinality(Adrift) \in Nat
    BY <1>5, FS_CardinalityType
  <1> HIDE DEF S
  <1> QED BY <1>2, <1>5, <1>6

\* For any number of requests and connections: a connection has one holder, and
\* the pool is short of one at most for each client that went away
\* (tenant-context.js, releaseDb and pin).
THEOREM NoConnectionLost == Spec => []ConnectionsAccountedFor
  <1>1. AccountInv => ConnectionsAccountedFor
    BY AdriftBound DEF AccountInv, HoldInv, ConnectionsAccountedFor
  <1> QED BY <1>1, AccountInit, AccountStep, PTL DEF Spec
=============================================================================
