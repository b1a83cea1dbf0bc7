-------------------------- MODULE RequestConnection --------------------------
(***************************************************************************)
(* One database connection per request, shared by every database call the  *)
(* request makes and re-bound to the schema each call asks for.            *)
(*                                                                         *)
(* The pool of a tenant hands out connections.  Each has a search_path on  *)
(* the server and a tag in this process that remembers it, so that a       *)
(* checkout sends SET only when they should differ.  A request leases its  *)
(* connection on its first call, switches the schema on a nested call and  *)
(* puts it back afterwards, and releases the lease when its response       *)
(* finishes or its client goes away.  Handlers run on one event loop: an   *)
(* action below is the code between two awaits.                            *)
(***************************************************************************)
EXTENDS Naturals, Sequences, FiniteSets

CONSTANTS
    Requests, Conns,
    None,        \* no connection, no environment, nobody
    MaxCalls,    \* bound: database calls of one request
    MaxDepth,    \* bound: nesting of those calls
    MaxAborts    \* bound: clients that go away before the response

Envs == {"live", "sandbox"}

ASSUME ConnectionAssumption ==
    /\ None \notin Conns \cup Requests \cup Envs
    /\ MaxCalls \in Nat /\ MaxDepth \in Nat /\ MaxAborts \in Nat

VARIABLES
    idle,      \* connections in the pool
    path,      \* search_path of each connection, on the server
    tag,       \* the schema this process believes it is on
    tx,        \* the request whose BEGIN opened the connection's transaction
    lease, leaseEnv, released,  \* the request's share, as tenantContext keeps it
    response,  \* open, finished or closed
    frames,    \* calls in progress of each request, outermost first
    pc,        \* what the request awaits
    want,      \* the environment of the call being set up or put back
    calls, aborts,
    astray,    \* history: some statement ran on a schema it did not ask for
    mixed      \* history: some statement ran inside another's transaction

pool    == <<idle, path, tag, tx>>
share   == <<lease, leaseEnv, released>>
control == <<response, frames, pc, want, calls, aborts>>
history == <<astray, mixed>>
vars    == <<idle, path, tag, tx, lease, leaseEnv, released,
             response, frames, pc, want, calls, aborts, astray, mixed>>

\* own: the call checked out a connection of its own, the lease being gone.
Frame == [env : Envs, outer : Envs \cup {None}, conn : Conns, own : BOOLEAN]

TypeOK ==
    /\ idle \subseteq Conns
    /\ path \in [Conns -> Envs] /\ tag \in [Conns -> Envs]
    /\ tx \in [Conns -> Requests \cup {None}]
    /\ lease \in [Requests -> Conns \cup {None}]
    /\ leaseEnv \in [Requests -> Envs \cup {None}]
    /\ released \in [Requests -> BOOLEAN]
    /\ response \in [Requests -> {"open", "finished", "closed"}]
    /\ frames \in [Requests -> Seq(Frame)]
    /\ pc \in [Requests -> {"handler", "checkout", "acquire", "switch", "restore"}]
    /\ want \in [Requests -> Envs]
    /\ calls \in [Requests -> 0 .. MaxCalls]
    /\ aborts \in 0 .. MaxAborts
    /\ astray \in BOOLEAN /\ mixed \in BOOLEAN

Init ==
    /\ idle = Conns
    /\ path = [c \in Conns |-> "live"] /\ tag = path
    /\ tx = [c \in Conns |-> None]
    /\ lease = [r \in Requests |-> None]
    /\ leaseEnv = [r \in Requests |-> None]
    /\ released = [r \in Requests |-> FALSE]
    /\ response = [r \in Requests |-> "open"]
    /\ frames = [r \in Requests |-> <<>>]
    /\ pc = [r \in Requests |-> "handler"]
    /\ want = [r \in Requests |-> "live"]
    /\ calls = [r \in Requests |-> 0]
    /\ aborts = 0
    /\ astray = FALSE /\ mixed = FALSE

-----------------------------------------------------------------------------
Depth(r) == Len(frames[r])
Top(r)   == frames[r][Depth(r)]
Push(r, frame) == frames' = [frames EXCEPT ![r] = Append(@, frame)]
Pop(r)         == frames' = [frames EXCEPT ![r] = SubSeq(@, 1, Depth(r) - 1)]
Await(r, what) == pc' = [pc EXCEPT ![r] = what]
Resume(r)      == Await(r, "handler") /\ want' = [want EXCEPT ![r] = "live"]

\* acquire: SET search_path is sent only if the tag says it is needed.
Checkout(c, env) ==
    /\ c \in idle
    /\ idle' = idle \ {c}
    /\ path' = IF tag[c] = env THEN path ELSE [path EXCEPT ![c] = env]
    /\ tag' = [tag EXCEPT ![c] = env]

\* release: back to the pool as it is, whatever it is in the middle of.
Return(c) == idle' = idle \cup {c}

-----------------------------------------------------------------------------
(* withPinned and pin.                                                     *)

\* A call of tenantDb, identityDb or tenantDbIn: the schema of the lease is
\* switched if it has to be, and the SET is on its way when the call awaits.
\* Transactions belong to the services a call runs: none spans a nested call.
Call(r, env) ==
    /\ pc[r] = "handler" /\ Depth(r) < MaxDepth /\ calls[r] < MaxCalls
    /\ frames[r] # <<>> => tx[Top(r).conn] # r
    /\ calls' = [calls EXCEPT ![r] = @ + 1]
    /\ want' = [want EXCEPT ![r] = env]
    /\ \/ /\ released[r]
          /\ Await(r, "checkout")
          /\ UNCHANGED <<path, frames>>
       \/ /\ ~released[r] /\ lease[r] = None
          /\ Await(r, "acquire")
          /\ UNCHANGED <<path, frames>>
       \/ /\ ~released[r] /\ lease[r] # None /\ leaseEnv[r] # env
          /\ Await(r, "switch")
          /\ path' = [path EXCEPT ![lease[r]] = env]
          /\ UNCHANGED frames
       \/ /\ ~released[r] /\ lease[r] # None /\ leaseEnv[r] = env
          /\ Push(r, [env |-> env, outer |-> env, conn |-> lease[r], own |-> FALSE])
          /\ UNCHANGED <<path, pc>>
    /\ UNCHANGED <<idle, tag, tx, share, response, aborts, history>>

\* The pool gives the request its lease.
Acquire(r, c) ==
    /\ pc[r] = "acquire"
    /\ Checkout(c, want[r])
    /\ lease' = [lease EXCEPT ![r] = c]
    /\ leaseEnv' = [leaseEnv EXCEPT ![r] = want[r]]
    /\ Push(r, [env |-> want[r], outer |-> None, conn |-> c, own |-> FALSE])
    /\ Resume(r)
    /\ UNCHANGED <<tx, released, response, calls, aborts, history>>

\* The lease is gone: the call gets a connection of its own.
CheckoutOwn(r, c) ==
    /\ pc[r] = "checkout"
    /\ Checkout(c, want[r])
    /\ Push(r, [env |-> want[r], outer |-> None, conn |-> c, own |-> TRUE])
    /\ Resume(r)
    /\ UNCHANGED <<tx, share, response, calls, aborts, history>>

\* A saturated pool refuses after its timeout and the call throws.
Timeout(r) ==
    /\ pc[r] \in {"acquire", "checkout"}
    /\ idle = {}
    /\ Resume(r)
    /\ UNCHANGED <<pool, share, response, frames, calls, aborts, history>>

\* The SET is answered.  If the lease has been released meanwhile, tagging it
\* throws and the call fails.
Rebind(r) ==
    IF lease[r] = None
    THEN UNCHANGED <<tag, leaseEnv>>
    ELSE /\ tag' = [tag EXCEPT ![lease[r]] = want[r]]
         /\ leaseEnv' = [leaseEnv EXCEPT ![r] = want[r]]

Switch(r) ==
    /\ pc[r] = "switch"
    /\ Rebind(r)
    /\ IF lease[r] = None
       THEN UNCHANGED frames
       ELSE Push(r, [env |-> want[r], outer |-> leaseEnv[r], conn |-> lease[r], own |-> FALSE])
    /\ Resume(r)
    /\ UNCHANGED <<idle, path, tx, lease, released, response, calls, aborts, history>>

\* Mutant: the schema is not put back.
EndCallOneWay(r) ==
    /\ pc[r] = "handler" /\ frames[r] # <<>>
    /\ tx[Top(r).conn] # r
    /\ IF Top(r).own THEN Return(Top(r).conn) ELSE UNCHANGED idle
    /\ Pop(r)
    /\ UNCHANGED <<path, want, pc, tag, tx, share, response, calls, aborts, history>>

\* Mutant: a connection of the call's own is never released.
EndCallKeeping(r) ==
    /\ pc[r] = "handler" /\ frames[r] # <<>>
    /\ tx[Top(r).conn] # r
    /\ Pop(r)
    /\ UNCHANGED <<idle, path, want, pc, tag, tx, share, response, calls, aborts, history>>

\* The innermost call is over: its own connection is released, or the schema
\* of the call around it is put back.
EndCall(r) ==
    LET frame == Top(r)
        mustRestore == frame.outer \notin {None, frame.env} /\ ~released[r]
                       /\ lease[r] # None /\ leaseEnv[r] # frame.outer
    IN  /\ pc[r] = "handler" /\ frames[r] # <<>>
        /\ tx[frame.conn] # r
        /\ IF frame.own THEN Return(frame.conn) ELSE UNCHANGED idle
        /\ IF mustRestore
           THEN /\ path' = [path EXCEPT ![lease[r]] = frame.outer]
                /\ want' = [want EXCEPT ![r] = frame.outer]
                /\ Await(r, "restore")
                /\ UNCHANGED frames
           ELSE /\ Pop(r)
                /\ UNCHANGED <<path, want, pc>>
        /\ UNCHANGED <<tag, tx, share, response, calls, aborts, history>>

Restore(r) ==
    /\ pc[r] = "restore"
    /\ Rebind(r)
    /\ Pop(r)
    /\ Resume(r)
    /\ UNCHANGED <<idle, path, tx, lease, released, response, calls, aborts, history>>

-----------------------------------------------------------------------------
(* What a call does on its connection.                                     *)

Statement(r) ==
    LET c == Top(r).conn
    IN  /\ pc[r] = "handler" /\ frames[r] # <<>>
        /\ astray' = (astray \/ path[c] # Top(r).env)
        /\ mixed' = (mixed \/ tx[c] \notin {None, r})
        /\ tx' \in {tx, [tx EXCEPT ![c] = IF @ = None THEN r ELSE @], [tx EXCEPT ![c] = None]}
        /\ UNCHANGED <<idle, path, tag, share, control>>

-----------------------------------------------------------------------------
(* The end of the response.                                                *)

\* Mutant: a lease that was never taken is released too.
ReleaseDbUnchecked(r) ==
    /\ released' = [released EXCEPT ![r] = TRUE]
    /\ Return(lease[r])
    /\ lease' = [lease EXCEPT ![r] = None]

\* Mutant: the released lease is not forgotten.
ReleaseDbRemembering(r) ==
    /\ released' = [released EXCEPT ![r] = TRUE]
    /\ IF lease[r] = None THEN UNCHANGED idle ELSE Return(lease[r])
    /\ UNCHANGED lease

\* The lease, if one was taken, goes back to the pool once.
ReleaseDb(r) ==
    /\ released' = [released EXCEPT ![r] = TRUE]
    /\ IF lease[r] = None THEN UNCHANGED idle ELSE Return(lease[r])
    /\ lease' = [lease EXCEPT ![r] = None]

\* 'finish': the handler has answered and none of its calls is in progress.
Respond(r) ==
    /\ response[r] = "open" /\ pc[r] = "handler" /\ frames[r] = <<>>
    /\ response' = [response EXCEPT ![r] = "finished"]
    /\ ReleaseDb(r)
    /\ UNCHANGED <<path, tag, tx, leaseEnv, frames, pc, want, calls, aborts, history>>

\* 'close': the client goes away; the handler does not notice and runs on.
Abort(r) ==
    /\ response[r] = "open" /\ aborts < MaxAborts
    /\ aborts' = aborts + 1
    /\ response' = [response EXCEPT ![r] = "closed"]
    /\ ReleaseDb(r)
    /\ UNCHANGED <<path, tag, tx, leaseEnv, frames, pc, want, calls, history>>

-----------------------------------------------------------------------------
Answer(r) == \/ \E c \in Conns : Acquire(r, c) \/ CheckoutOwn(r, c)
             \/ Timeout(r) \/ Switch(r) \/ Restore(r)

\* A transaction that was begun is committed or rolled back.
EndTransaction(r) == Statement(r) /\ tx' # tx /\ tx'[Top(r).conn] = None

Next == \E r \in Requests :
            \/ \E env \in Envs : Call(r, env)
            \/ Answer(r) \/ EndCall(r) \/ Statement(r)
            \/ Respond(r) \/ Abort(r)

Spec == Init /\ [][Next]_vars

\* The database answers, a handler ends its transactions and its calls, and it
\* responds once it has made its last call.
FairSpec ==
    /\ Spec
    /\ \A r \in Requests :
        /\ WF_vars(Answer(r))
        /\ SF_vars(EndTransaction(r))
        /\ SF_vars(EndCall(r))
        /\ SF_vars(Respond(r))

-----------------------------------------------------------------------------
\* "The outer callback always continues on the schema it asked for": as long
\* as no client has gone away, no statement of a request runs on the other
\* environment's tables, and none is caught in a transaction another request has
\* begun, to be committed or rolled back with it.
RunsWhereAsked == aborts = 0 => ~astray /\ ~mixed

\* A lease belongs to one request and is not in the pool at the same time, so
\* releasing on 'finish' and on 'close' never frees it twice or early.
OneHolder ==
    \A r \in Requests : lease[r] # None =>
        /\ lease[r] \notin idle
        /\ \A q \in Requests \ {r} : lease[q] # lease[r]
        /\ \A q \in Requests : \A i \in DOMAIN frames[q] :
              frames[q][i].own => frames[q][i].conn # lease[r]

\* Connections in no pool, on no lease that a release will still find and on no
\* call that will still give them back.
Adrift ==
    {c \in Conns \ idle :
        /\ \A r \in Requests : ~released[r] => lease[r] # c
        /\ \A r \in Requests : \A i \in DOMAIN frames[r] :
              frames[r][i].own => frames[r][i].conn # c}

\* Every connection of the pool is in one place, whatever nests, switches and
\* times out; only a client that goes away can cost the pool one, and one at most.
ConnectionsAccountedFor == OneHolder /\ Cardinality(Adrift) <= aborts

\* Once every request is over the pool is whole again, if no client went away.
PoolRefills == <>[](idle = Conns \/ aborts > 0)
=============================================================================
