------------------------- MODULE SigningChainProofs -------------------------
(* Proofs about the signing chain: its types, one signature for each party,   *)
(* that a party or an envelope counts as signed without a signature only by a *)
(* fault of its own and that a chain completes, and is certified, only when   *)
(* everybody has answered; for any number of parties, envelopes and processes. *)
EXTENDS SigningChain, FiniteSetTheorems, WellFoundedInduction, TLAPS

USE DEF losses

Places == {"idle", "handoff", "create", "charge", "refuse", "close", "check", "settle",
           "insert", "advance", "dispatch", "certify", "render", "cancel"}
Record == [pc : Places, party : Party \cup {None}, env : Env \cup {None},
           todo : SUBSET (Env \X BOOLEAN)]
Envelope == [status : InFlight \cup Ended \cup {"none", "FAILED"},
             of : Party \cup {None}, charged : BOOLEAN, vaulted : BOOLEAN]

\* What a process at each place knows of the envelope it holds.
Knows(w) ==
    LET r == proc[w] IN
    /\ r.pc \in {"handoff", "create", "charge", "refuse", "check", "settle", "insert"}
           => r.party \in Party
    /\ r.pc \in {"create", "charge", "check"} => r.env \in Env
    /\ r.pc \in {"idle", "handoff", "cancel"} => r.env = None
    /\ r.pc \in {"create", "charge"} => env[r.env].status # "none" /\ ~env[r.env].charged
    /\ r.pc = "check" => env[r.env].charged /\ provider[r.env] \in {"COMPLETED", "DECLINED"}
    /\ r.pc \in {"refuse", "close"} /\ r.env # None =>
           env[r.env].charged /\ provider[r.env] = "DECLINED"
    /\ r.pc \in {"advance", "dispatch", "certify", "render"} /\ r.env # None =>
           env[r.env].vaulted

\* An envelope is created by one process, and COMPLETED as its provider says.
EnvInv ==
    /\ \A e \in Env :
        /\ env[e].status # "none" => env[e].of \in Party
        /\ env[e].charged => env[e].status # "none"
        /\ env[e].status = "COMPLETED" => env[e].charged /\ provider[e] = "COMPLETED"
    /\ \A v, w \in Procs :
        proc[v].pc \in {"create", "charge"} /\ proc[w].pc \in {"create", "charge"}
            /\ proc[v].env = proc[w].env => v = w

\* One process writes the signature of a party, and no other is written.
SigInv ==
    /\ OneSignature
    /\ \A w \in Procs : At(w, "insert") =>
        party[proc[w].party] = "SIGNED" /\ rows[proc[w].party] = 0
    /\ \A v, w \in Procs :
        At(v, "insert") /\ At(w, "insert") /\ proc[v].party = proc[w].party => v = w

IInv == TypeOK /\ (\A w \in Procs : Knows(w)) /\ EnvInv /\ SigInv

-----------------------------------------------------------------------------
LEMMA MinIn ==
    ASSUME NEW S \in SUBSET Nat, S # {}
    PROVE  Min(S) \in S
  <1> DEFINE R == OpToRel(<, Nat)
  <1>1. IsWellFoundedOn(R, Nat)
    BY NatLessThanWellFounded
  <1>2. \A x, y \in Nat : ~(<<x, y>> \in R) => y <= x
    BY DEF OpToRel
  <1> HIDE DEF R
  <1>3. PICK x \in S : \A y \in S : ~(<<y, x>> \in R)
    BY <1>1, WFMin
  <1>4. \A y \in S : x <= y
    <2> SUFFICES ASSUME NEW y \in S PROVE x <= y
      OBVIOUS
    <2>1. ~(<<y, x>> \in R) /\ x \in Nat /\ y \in Nat
      BY <1>3
    <2> QED BY <2>1, <1>2
  <1> QED BY <1>4 DEF Min

LEMMA TypeParts ==
    TypeOK <=>
        /\ request \in Open \cup {"COMPLETED", "DECLINED", "VOIDED", "EXPIRED", "AMENDED"}
        /\ amended \in BOOLEAN /\ certificate \in BOOLEAN
        /\ party \in [Party -> Unsettled \cup {"SIGNED", "DECLINED"}]
        /\ rows \in [Party -> Nat]
        /\ env \in [Env -> Envelope]
        /\ provider \in [Env -> Ended \cup {"none", "open"}]
        /\ proc \in [Procs -> Record]
        /\ faults \in 0 .. MaxFaults
        /\ orphaned \subseteq Env
  BY DEF TypeOK, Record, Envelope, Places

\* The parts of a step that keep their types.
LEMMA FaultType ==
    ASSUME TypeOK, Fault
    PROVE  /\ faults' \in 0 .. MaxFaults /\ faults' = faults + 1 /\ faults \in Nat
           /\ orphaned' = orphaned /\ orphaned' \subseteq Env
  BY ChainAssumption DEF Fault, TypeOK

LEMMA RequestType ==
    ASSUME TypeOK, NEW from, NEW to \in Open \cup {"COMPLETED", "DECLINED", "AMENDED"},
           TransitionRequest(from, to)
    PROVE  request' \in Open \cup {"COMPLETED", "DECLINED", "VOIDED", "EXPIRED", "AMENDED"}
  BY DEF TransitionRequest, TypeOK

LEMMA PartyType ==
    ASSUME TypeOK, NEW p \in Party, NEW to \in {"SIGNED", "DECLINED"}, SettleParty(p, to)
    PROVE  /\ party' \in [Party -> Unsettled \cup {"SIGNED", "DECLINED"}]
           /\ \A q \in Party : q # p => party'[q] = party[q]
           /\ party'[p] # party[p] => party[p] \in Unsettled /\ party'[p] = to
           /\ \A q \in Party : party[q] = "SIGNED" => party'[q] = "SIGNED"
  BY DEF SettleParty, TypeOK, Unsettled

LEMMA EnvelopeType ==
    ASSUME TypeOK, NEW e \in Env, NEW from,
           NEW to \in Ended \cup {"SENT", "FAILED"}, TransitionEnvelope(e, from, to)
    PROVE  /\ env' \in [Env -> Envelope]
           /\ \A d \in Env : /\ d # e => env'[d] = env[d]
                             /\ env'[d].of = env[d].of
                             /\ env'[d].charged = env[d].charged
                             /\ env'[d].vaulted = env[d].vaulted
           /\ env'[e].status = IF env[e].status \in from THEN to ELSE env[e].status
  <1>1. env \in [Env -> Envelope]
    BY TypeParts
  <1>2. CASE env[e].status \in from
    <2>1. env' = [env EXCEPT ![e].status = to]
      BY <1>2 DEF TransitionEnvelope
    <2>2. to \in InFlight \cup Ended \cup {"none", "FAILED"}
      BY DEF InFlight
    <2> QED BY <1>1, <1>2, <2>1, <2>2 DEF Envelope
  <1>3. CASE env[e].status \notin from
    BY <1>1, <1>3 DEF TransitionEnvelope
  <1> QED BY <1>2, <1>3

\* A process moves to another place, starts or is done.
LEMMA GotoType ==
    ASSUME TypeOK, NEW w \in Procs, NEW pc \in Places, Goto(w, pc)
    PROVE  /\ proc' \in [Procs -> Record] /\ proc'[w] = [proc[w] EXCEPT !.pc = pc]
           /\ proc'[w].pc = pc /\ proc'[w].party = proc[w].party /\ proc'[w].env = proc[w].env
           /\ \A v \in Procs : v # w => proc'[v] = proc[v]
  <1>1. proc \in [Procs -> Record]
    BY TypeParts
  <1>2. [proc[w] EXCEPT !.pc = pc] \in Record
    BY <1>1 DEF Record
  <1>3. proc' = [proc EXCEPT ![w].pc = pc]
    BY DEF Goto
  <1>4. /\ [proc[w] EXCEPT !.pc = pc].pc = pc
        /\ [proc[w] EXCEPT !.pc = pc].party = proc[w].party
        /\ [proc[w] EXCEPT !.pc = pc].env = proc[w].env
    BY <1>1 DEF Record
  <1> QED BY <1>1, <1>2, <1>3, <1>4

LEMMA ReturnType ==
    ASSUME TypeOK, NEW w \in Procs, Return(w)
    PROVE  /\ proc' \in [Procs -> Record] /\ proc'[w] = Idle
           /\ proc'[w].pc = "idle" /\ proc'[w].env = None
           /\ \A v \in Procs : v # w => proc'[v] = proc[v]
  <1>1. proc \in [Procs -> Record]
    BY TypeParts
  <1>2. Idle \in Record /\ Idle.pc = "idle" /\ Idle.env = None
    BY DEF Idle, Record, Places
  <1> QED BY <1>1, <1>2 DEF Return

LEMMA BeginType ==
    ASSUME TypeOK, NEW w \in Procs, NEW pc \in Places,
           NEW p \in Party \cup {None}, NEW e \in Env \cup {None}, Begin(w, pc, p, e)
    PROVE  /\ proc' \in [Procs -> Record]
           /\ proc'[w].pc = pc /\ proc'[w].party = p /\ proc'[w].env = e
           /\ \A v \in Procs : v # w => proc'[v] = proc[v]
  <1>1. proc \in [Procs -> Record]
    BY TypeParts
  <1>2. [pc |-> pc, party |-> p, env |-> e, todo |-> {}] \in Record
    BY DEF Record
  <1> QED BY <1>1, <1>2 DEF Begin

-----------------------------------------------------------------------------
\* What a step has to keep for the other processes, whose records it leaves.
LEMMA MoveStep ==
    ASSUME IInv, TypeOK', NEW W \in SUBSET Procs, \A u, v \in W : u = v,
           \A v \in Procs \ W : proc'[v] = proc[v],
           \A v \in W : Knows(v)',
           \A v \in W : proc'[v].pc \in {"create", "charge"} =>
               \/ proc[v].pc \in {"create", "charge"} /\ proc'[v].env = proc[v].env
               \/ env[proc'[v].env].status = "none",
           \A e \in Env :
               /\ env[e].vaulted => env'[e].vaulted
               /\ env[e].charged => env'[e].charged
               /\ env[e].charged /\ provider[e] \in {"COMPLETED", "DECLINED"} =>
                      provider'[e] = provider[e]
               /\ env[e].status # "none" => env'[e].status # "none",
           \A e \in Env : env'[e].charged /\ ~env[e].charged =>
               \E v \in W : /\ proc[v].pc = "charge" /\ proc[v].env = e
                            /\ proc'[v].pc = "idle",
           \A e \in Env :
               /\ env'[e].status # "none" => env'[e].of \in Party
               /\ env'[e].charged => env'[e].status # "none"
               /\ env'[e].status = "COMPLETED" => env'[e].charged /\ provider'[e] = "COMPLETED"
    PROVE  (\A v \in Procs : Knows(v)') /\ EnvInv'
  <1>1. \A v \in Procs \ W : Knows(v)'
    <2> SUFFICES ASSUME NEW v \in Procs \ W PROVE Knows(v)'
      OBVIOUS
    <2>1. Knows(v) /\ proc'[v] = proc[v] /\ proc[v].env \in Env \cup {None}
      BY TypeParts DEF IInv, Record
    <2>2. CASE proc[v].env = None
      BY <2>1, <2>2 DEF Knows, None, Env
    <2>3. CASE proc[v].env \in Env
      <3>1. proc[v].pc \in {"create", "charge"} => ~env'[proc[v].env].charged
        <4> SUFFICES ASSUME proc[v].pc \in {"create", "charge"}, env'[proc[v].env].charged
                     PROVE  FALSE
          BY DEF IInv, TypeOK
        <4>1. ~env[proc[v].env].charged
          BY <2>1 DEF Knows
        <4>2. PICK u \in W : proc[u].pc = "charge" /\ proc[u].env = proc[v].env
          BY <2>3, <4>1
        <4>3. u = v
          BY <4>2 DEF IInv, EnvInv
        <4> QED BY <4>3
      <3> QED BY <2>1, <2>3, <3>1 DEF Knows
    <2> QED BY <2>1, <2>2, <2>3
  <1>2. \A v \in Procs : Knows(v)'
    BY <1>1
  <1>3. ASSUME NEW u \in Procs, NEW v \in Procs,
               proc'[u].pc \in {"create", "charge"}, proc'[v].pc \in {"create", "charge"},
               proc'[u].env = proc'[v].env, u \in W, v \notin W
        PROVE  FALSE
    <2>1. proc[v].pc \in {"create", "charge"} /\ proc[v].env = proc'[u].env
      BY <1>3
    <2>2. env[proc'[u].env].status # "none"
      BY <2>1 DEF IInv, Knows
    <2>3. proc[u].pc \in {"create", "charge"} /\ proc[u].env = proc[v].env
      BY <1>3, <2>1, <2>2
    <2> QED BY <1>3, <2>1, <2>3 DEF IInv, EnvInv
  <1>4. \A u, v \in Procs :
            proc'[u].pc \in {"create", "charge"} /\ proc'[v].pc \in {"create", "charge"}
                /\ proc'[u].env = proc'[v].env => u = v
    <2> SUFFICES ASSUME NEW u \in Procs, NEW v \in Procs,
                        proc'[u].pc \in {"create", "charge"}, proc'[v].pc \in {"create", "charge"},
                        proc'[u].env = proc'[v].env
                 PROVE  u = v
      OBVIOUS
    <2>1. CASE u \in W /\ v \in W
      BY <2>1
    <2>2. CASE u \notin W /\ v \notin W
      BY <2>2 DEF IInv, EnvInv
    <2>3. CASE u \in W /\ v \notin W
      BY <2>3, <1>3
    <2>4. CASE v \in W /\ u \notin W
      BY <2>4, <1>3
    <2> QED BY <2>1, <2>2, <2>3, <2>4
  <1> QED BY <1>2, <1>4 DEF EnvInv

\* A step that changes at most the status of envelopes.
LEMMA StatusStep ==
    ASSUME IInv, TypeOK', NEW W \in SUBSET Procs, \A u, v \in W : u = v,
           \A v \in Procs \ W : proc'[v] = proc[v],
           \A v \in W : Knows(v)' /\ proc'[v].pc \notin {"create", "charge"},
           provider' = provider,
           \A e \in Env :
               /\ env'[e].of = env[e].of /\ env'[e].charged = env[e].charged
               /\ env'[e].vaulted = env[e].vaulted
               /\ env'[e].status = "none" <=> env[e].status = "none"
               /\ env'[e].status = "COMPLETED" =>
                      \/ env[e].status = "COMPLETED"
                      \/ env[e].charged /\ provider[e] = "COMPLETED"
    PROVE  (\A v \in Procs : Knows(v)') /\ EnvInv'
  <1>1. \A e \in Env :
            /\ env'[e].status # "none" => env'[e].of \in Party
            /\ env'[e].charged => env'[e].status # "none"
            /\ env'[e].status = "COMPLETED" => env'[e].charged /\ provider'[e] = "COMPLETED"
    BY DEF IInv, EnvInv
  <1> QED BY <1>1, MoveStep

\* A step that moves a process, its envelope in hand, and changes no envelope.
LEMMA WalkStep ==
    ASSUME IInv, TypeOK', NEW w \in Procs,
           \A v \in Procs : v # w => proc'[v] = proc[v],
           Knows(w)', proc'[w].pc \notin {"create", "charge"},
           provider' = provider, env' = env
    PROVE  (\A v \in Procs : Knows(v)') /\ EnvInv'
  <1> DEFINE W == {w}
  <1>1. /\ W \in SUBSET Procs /\ \A u, v \in W : u = v
        /\ \A v \in Procs \ W : proc'[v] = proc[v]
        /\ \A v \in W : Knows(v)' /\ proc'[v].pc \notin {"create", "charge"}
    OBVIOUS
  <1> HIDE DEF W
  <1> QED BY <1>1, StatusStep

\* A step that starts and ends no write of a signature.
LEMMA QuietStep ==
    ASSUME IInv, rows' = rows, TypeOK',
           \A p \in Party : party[p] = "SIGNED" => party'[p] = "SIGNED",
           \A v \in Procs : proc'[v].pc = "insert" =>
               proc[v].pc = "insert" /\ proc'[v].party = proc[v].party
    PROVE  SigInv'
  <1>1. OneSignature'
    BY DEF IInv, SigInv, OneSignature
  <1>2. ASSUME NEW v \in Procs, proc'[v].pc = "insert"
        PROVE  party'[proc'[v].party] = "SIGNED" /\ rows'[proc'[v].party] = 0
    <2>1. proc[v].pc = "insert" /\ proc'[v].party = proc[v].party /\ proc[v].party \in Party
      BY <1>2 DEF IInv, Knows
    <2> QED BY <2>1 DEF IInv, SigInv, At
  <1>3. \A u, v \in Procs : proc'[u].pc = "insert" /\ proc'[v].pc = "insert"
                                /\ proc'[u].party = proc'[v].party => u = v
    BY DEF IInv, SigInv, At
  <1> QED BY <1>1, <1>2, <1>3 DEF SigInv, At

-----------------------------------------------------------------------------
(* People, time and the provider. *)

\* A party that was pending is dispatched.
LEMMA DispatchType ==
    ASSUME TypeOK, {p \in Party : party[p] = "PENDING"} # {},
           party' = [party EXCEPT ![Min({p \in Party : party[p] = "PENDING"})] = "SENT"]
    PROVE  /\ party' \in [Party -> Unsettled \cup {"SIGNED", "DECLINED"}]
           /\ \A p \in Party : party'[p] # party[p] => party[p] = "PENDING"
           /\ \A p \in Party : party[p] = "SIGNED" <=> party'[p] = "SIGNED"
  <1> DEFINE S == {p \in Party : party[p] = "PENDING"}
  <1>1. S \in SUBSET Nat
    BY DEF Party
  <1>2. Min(S) \in S
    BY <1>1, MinIn
  <1> HIDE DEF S
  <1>3. Min(S) \in Party /\ party[Min(S)] = "PENDING" /\ party' = [party EXCEPT ![Min(S)] = "SENT"]
    BY <1>2 DEF S
  <1> QED BY <1>3 DEF TypeOK, Unsettled

LEMMA PeopleStep ==
    ASSUME IInv, SendNext \/ Edit \/ Expire
    PROVE  IInv'
  <1>1. UNCHANGED <<rows, certificate, env, provider, proc, losses>>
    BY DEF SendNext, Edit, Expire
  <1>2. /\ party' \in [Party -> Unsettled \cup {"SIGNED", "DECLINED"}]
        /\ \A p \in Party : party[p] = "SIGNED" => party'[p] = "SIGNED"
    BY DispatchType, TypeParts DEF SendNext, Edit, Expire, IInv
  <1>3. amended' \in BOOLEAN
    BY DEF SendNext, Edit, Expire, IInv, TypeOK
  <1>4. request' \in Open \cup {"COMPLETED", "DECLINED", "VOIDED", "EXPIRED", "AMENDED"}
    <2>1. CASE SendNext
      BY <2>1, RequestType DEF SendNext, IInv, Open
    <2>2. CASE Edit \/ Expire
      BY <2>2 DEF Edit, Expire, IInv, TypeOK
    <2> QED BY <2>1, <2>2
  <1>5. TypeOK'
    BY <1>1, <1>2, <1>3, <1>4 DEF IInv, TypeOK
  <1>6. (\A v \in Procs : Knows(v)') /\ EnvInv'
    BY <1>1 DEF IInv, Knows, EnvInv
  <1>7. SigInv'
    BY <1>1, <1>2, <1>5, QuietStep
  <1> QED BY <1>5, <1>6, <1>7 DEF IInv

LEMMA ProviderStep ==
    ASSUME IInv, NEW e \in Env, ProviderEnds(e) \/ PollUnconfirmed(e)
    PROVE  IInv'
  <1>0. UNCHANGED <<chain, proc, losses>>
    BY DEF ProviderEnds, PollUnconfirmed
  <1>1. CASE ProviderEnds(e)
    <2>1. provider[e] = "open" /\ UNCHANGED env
      BY <1>1 DEF ProviderEnds
    <2>2. PICK how \in Ended : provider' = [provider EXCEPT ![e] = how]
      BY <1>1 DEF ProviderEnds
    <2>3. TypeOK'
      BY <1>0, <2>1, <2>2 DEF IInv, TypeOK, chain
    <2>4. (\A v \in Procs : Knows(v)') /\ EnvInv'
      BY <1>0, <2>1, <2>2 DEF IInv, Knows, EnvInv, TypeOK, None
    <2>5. SigInv'
      BY <1>0, <2>3, QuietStep DEF chain
    <2> QED BY <2>3, <2>4, <2>5 DEF IInv
  <1>2. CASE PollUnconfirmed(e)
    <2>1. /\ TransitionEnvelope(e, {"CREATING"}, "FAILED") /\ UNCHANGED provider
          /\ TypeOK
      BY <1>2 DEF PollUnconfirmed, IInv
    <2>2. /\ env' \in [Env -> Envelope]
          /\ \A d \in Env : /\ d # e => env'[d] = env[d]
                            /\ env'[d].of = env[d].of
                            /\ env'[d].charged = env[d].charged
                            /\ env'[d].vaulted = env[d].vaulted
          /\ env'[e].status = IF env[e].status \in {"CREATING"} THEN "FAILED" ELSE env[e].status
      BY <2>1, EnvelopeType
    <2>3. TypeOK'
      BY <1>0, <2>1, <2>2 DEF TypeOK, chain, Envelope
    <2>4. \A d \in Env :
               /\ env'[d].of = env[d].of /\ env'[d].charged = env[d].charged
               /\ env'[d].vaulted = env[d].vaulted
               /\ env'[d].status = "none" <=> env[d].status = "none"
               /\ env'[d].status = "COMPLETED" => env[d].status = "COMPLETED"
      BY <2>2
    <2>5. (\A v \in Procs : Knows(v)') /\ EnvInv'
      <3> DEFINE W == {}
      <3>1. /\ W \in SUBSET Procs /\ \A u, v \in W : u = v
            /\ \A v \in Procs \ W : proc'[v] = proc[v]
            /\ \A v \in W : Knows(v)' /\ proc'[v].pc \notin {"create", "charge"}
        BY <1>0
      <3> HIDE DEF W
      <3> QED BY <2>1, <2>3, <2>4, <3>1, StatusStep
    <2>6. SigInv'
      BY <1>0, <2>3, QuietStep DEF chain
    <2> QED BY <2>3, <2>5, <2>6 DEF IInv
  <1> QED BY <1>1, <1>2

-----------------------------------------------------------------------------
(* Processes that leave the envelopes and the provider as they are. *)

\* The types of a step are those of its parts.
LEMMA StepType ==
    ASSUME request' \in Open \cup {"COMPLETED", "DECLINED", "VOIDED", "EXPIRED", "AMENDED"},
           party' \in [Party -> Unsettled \cup {"SIGNED", "DECLINED"}],
           proc' \in [Procs -> Record], env' \in [Env -> Envelope],
           provider' \in [Env -> Ended \cup {"none", "open"}],
           rows' \in [Party -> Nat], faults' \in 0 .. MaxFaults, orphaned' \subseteq Env,
           amended' \in BOOLEAN, certificate' \in BOOLEAN
    PROVE  TypeOK'
  BY DEF TypeOK, Record, Envelope, Places

LEMMA DoneStep ==
    ASSUME IInv, TypeOK', NEW w \in Procs, Return(w), UNCHANGED <<rows, env, provider>>,
           \A p \in Party : party[p] = "SIGNED" => party'[p] = "SIGNED"
    PROVE  IInv'
  <1>1. /\ proc'[w].pc = "idle" /\ proc'[w].env = None
        /\ \A v \in Procs : v # w => proc'[v] = proc[v]
    BY ReturnType DEF IInv
  <1>2. Knows(w)'
    BY <1>1 DEF Knows
  <1>3. (\A v \in Procs : Knows(v)') /\ EnvInv'
    BY <1>1, <1>2, WalkStep
  <1>4. SigInv'
    BY <1>1, QuietStep
  <1> QED BY <1>3, <1>4 DEF IInv

LEMMA GoStep ==
    ASSUME IInv, TypeOK', NEW w \in Procs,
           \A v \in Procs : v # w => proc'[v] = proc[v],
           Knows(w)', proc'[w].pc \notin {"create", "charge", "insert"},
           UNCHANGED <<rows, env, provider>>,
           \A p \in Party : party[p] = "SIGNED" => party'[p] = "SIGNED"
    PROVE  IInv'
  <1>1. (\A v \in Procs : Knows(v)') /\ EnvInv'
    BY WalkStep
  <1>2. SigInv'
    BY QuietStep
  <1> QED BY <1>1, <1>2 DEF IInv

LEMMA StartStep ==
    ASSUME IInv, NEW w \in Procs,
           \/ \E p \in Party : Complete(w, p) \/ Decline(w, p)
           \/ AskCertificate(w)
    PROVE  IInv'
  <1>0. TypeOK
    BY DEF IInv
  <1>1. UNCHANGED <<amended, party, rows, certificate, env, provider, losses>>
    BY DEF Complete, Decline, AskCertificate, chain
  <1>2. request' \in Open \cup {"COMPLETED", "DECLINED", "VOIDED", "EXPIRED", "AMENDED"}
    <2>1. CASE request' = request
      BY <1>0, <2>1 DEF TypeOK
    <2>2. CASE OnAmendment
      BY <1>0, <2>2, RequestType DEF OnAmendment
    <2> QED BY <2>1, <2>2 DEF Complete, Decline, AskCertificate, chain
  <1>3. CASE UNCHANGED proc
    <2>1. TypeOK'
      BY <1>0, <1>1, <1>2, <1>3 DEF TypeOK
    <2>2. (\A v \in Procs : Knows(v)') /\ EnvInv' /\ SigInv'
      BY <1>1, <1>3 DEF IInv, Knows, EnvInv, SigInv, OneSignature, At
    <2> QED BY <2>1, <2>2 DEF IInv
  <1>4. CASE \E p \in Party, pc \in {"settle", "handoff", "refuse"} : Begin(w, pc, p, None)
    <2>1. PICK p \in Party, pc \in {"settle", "handoff", "refuse"} : Begin(w, pc, p, None)
      BY <1>4
    <2>2. /\ proc' \in [Procs -> Record]
          /\ proc'[w].pc = pc /\ proc'[w].party = p /\ proc'[w].env = None
          /\ \A v \in Procs : v # w => proc'[v] = proc[v]
      <3> pc \in Places
        BY DEF Places
      <3> QED BY <1>0, <2>1, BeginType
    <2>3. TypeOK'
      BY <1>0, <1>1, <1>2, <2>2, StepType, TypeParts
    <2>4. Knows(w)'
      BY <2>2 DEF Knows
    <2> QED BY <1>1, <2>2, <2>3, <2>4, GoStep
  <1>5. CASE Begin(w, "certify", None, None)
    <2>1. /\ proc' \in [Procs -> Record]
          /\ proc'[w].pc = "certify" /\ proc'[w].env = None
          /\ \A v \in Procs : v # w => proc'[v] = proc[v]
      BY <1>0, <1>5, BeginType DEF Places
    <2>2. TypeOK'
      BY <1>0, <1>1, <1>2, <2>1, StepType, TypeParts
    <2>3. Knows(w)'
      BY <2>1 DEF Knows
    <2> QED BY <1>1, <2>1, <2>2, <2>3, GoStep
  <1> QED BY <1>3, <1>4, <1>5 DEF Complete, Decline, AskCertificate

\* A process with a record of its own goes on to the next place.
LEMMA ForthStep ==
    ASSUME IInv, NEW w \in Procs, NEW pc \in Places, Goto(w, pc),
           pc \notin {"create", "charge", "insert"},
           request' \in Open \cup {"COMPLETED", "DECLINED", "VOIDED", "EXPIRED", "AMENDED"},
           party' \in [Party -> Unsettled \cup {"SIGNED", "DECLINED"}],
           faults' \in 0 .. MaxFaults, orphaned' \subseteq Env,
           \A p \in Party : party[p] = "SIGNED" => party'[p] = "SIGNED",
           UNCHANGED <<amended, certificate, rows, env, provider>>,
           pc \in {"handoff", "refuse", "check", "settle"} => proc[w].party \in Party,
           pc \notin {"idle", "handoff", "cancel"},
           pc = "check" => FALSE,
           pc \in {"refuse", "close"} /\ proc[w].env # None =>
               env[proc[w].env].charged /\ provider[proc[w].env] = "DECLINED",
           pc \in {"advance", "dispatch", "certify", "render"} /\ proc[w].env # None =>
               env[proc[w].env].vaulted
    PROVE  IInv'
  <1>1. /\ proc' \in [Procs -> Record]
        /\ proc'[w].pc = pc /\ proc'[w].party = proc[w].party /\ proc'[w].env = proc[w].env
        /\ \A v \in Procs : v # w => proc'[v] = proc[v]
    BY GotoType DEF IInv
  <1>2. TypeOK'
    BY <1>1, StepType, TypeParts DEF IInv
  <1>3. Knows(w)'
    BY <1>1 DEF Knows
  <1> QED BY <1>1, <1>2, <1>3, GoStep

LEMMA WalkOnStep ==
    ASSUME IInv, NEW w \in Procs,
           \/ Refuse(w) \/ Close(w) \/ CheckDecline(w) \/ Advance(w)
           \/ Certify(w) \/ Render(w) \/ Cancelled(w)
    PROVE  IInv'
  <1>0. TypeOK /\ Knows(w) /\ proc[w].env \in Env \cup {None}
    BY TypeParts DEF IInv, Record
  <1>1. UNCHANGED <<amended, rows, env, provider, losses>> /\ faults' \in 0 .. MaxFaults /\ orphaned' \subseteq Env
    BY <1>0 DEF Refuse, Close, CheckDecline, Advance, Certify, Render, Cancelled, chain, TypeOK
  <1>2. /\ party' \in [Party -> Unsettled \cup {"SIGNED", "DECLINED"}]
        /\ \A p \in Party : party[p] = "SIGNED" => party'[p] = "SIGNED"
    <2>1. CASE Refuse(w)
      <3>1. proc[w].party \in Party /\ SettleParty(proc[w].party, "DECLINED")
        BY <1>0, <2>1 DEF Refuse, Knows, At
      <3> QED BY <1>0, <3>1, PartyType
    <2>2. CASE party' = party
      BY <1>0, <2>2 DEF TypeOK
    <2> QED BY <2>1, <2>2 DEF Close, CheckDecline, Advance, Certify, Render, Cancelled, chain
  <1>3. request' \in Open \cup {"COMPLETED", "DECLINED", "VOIDED", "EXPIRED", "AMENDED"}
    <2>1. CASE Close(w)
      BY <1>0, <2>1, RequestType DEF Close
    <2>2. CASE Advance(w)
      BY <1>0, <2>2, RequestType DEF Advance, Open
    <2>3. CASE request' = request
      BY <1>0, <2>3 DEF TypeOK
    <2> QED BY <2>1, <2>2, <2>3 DEF Refuse, CheckDecline, Certify, Render, Cancelled, chain
  <1>4. certificate' \in BOOLEAN
    BY <1>0 DEF Refuse, Close, CheckDecline, Advance, Certify, Render, Cancelled, chain, TypeOK
  <1>5. CASE Return(w)
    <2>1. proc' \in [Procs -> Record]
      BY <1>0, <1>5, ReturnType
    <2>2. TypeOK'
      BY <1>0, <1>1, <1>2, <1>3, <1>4, <2>1, StepType, TypeParts
    <2> QED BY <1>1, <1>2, <1>5, <2>2, DoneStep
  <1>6. CASE ~Return(w)
    <2>1. PICK pc \in {"close", "refuse", "certify", "dispatch", "render"} :
              /\ Goto(w, pc)
              /\ pc = "refuse" => At(w, "check") /\ provider[proc[w].env] = "DECLINED"
              /\ pc = "close" => At(w, "refuse")
              /\ pc \in {"certify", "dispatch"} => At(w, "advance")
              /\ pc = "render" => At(w, "certify")
      BY <1>6 DEF Refuse, Close, CheckDecline, Advance, Certify, Render, Cancelled
    <2>2. UNCHANGED certificate
      BY <1>6 DEF Refuse, Close, CheckDecline, Advance, Certify, Render, Cancelled, chain
    <2>3. pc \in Places
      BY DEF Places
    <2>4. /\ pc = "refuse" => proc[w].party \in Party
          /\ pc \in {"refuse", "close"} /\ proc[w].env # None =>
               env[proc[w].env].charged /\ provider[proc[w].env] = "DECLINED"
          /\ pc \in {"certify", "dispatch", "render"} /\ proc[w].env # None =>
               env[proc[w].env].vaulted
      BY <1>0, <2>1 DEF Knows, At
    <2> QED BY <1>1, <1>2, <1>3, <2>1, <2>2, <2>3, <2>4, ForthStep
  <1> QED BY <1>5, <1>6

LEMMA VoidStep ==
    ASSUME IInv, NEW w \in Procs, Void(w)
    PROVE  IInv'
  <1>0. TypeOK
    BY DEF IInv
  <1>1. /\ UNCHANGED <<amended, party, rows, certificate, env, provider, losses>>
        /\ request' = "VOIDED"
    BY DEF Void
  <1> DEFINE T == {<<e, env[e].charged>> : e \in {d \in Env : env[d].status \in InFlight}}
             r == [Idle EXCEPT !.pc = "cancel", !.todo = T]
  <1>2. \A e \in Env : env[e].charged \in BOOLEAN
    BY <1>0, TypeParts DEF Envelope
  <1>3. T \in SUBSET (Env \X BOOLEAN)
    BY <1>2
  <1>4. r \in Record /\ r.pc = "cancel" /\ r.env = None
    BY <1>3 DEF Idle, Record, Places
  <1>5. proc' = [proc EXCEPT ![w] = r]
    BY DEF Void
  <1> HIDE DEF r
  <1>6. /\ proc' \in [Procs -> Record] /\ proc'[w] = r
        /\ \A v \in Procs : v # w => proc'[v] = proc[v]
    BY <1>0, <1>4, <1>5, TypeParts
  <1>7. TypeOK'
    BY <1>0, <1>1, <1>6, StepType, TypeParts
  <1>8. Knows(w)'
    BY <1>4, <1>6 DEF Knows
  <1> QED BY <1>1, <1>4, <1>6, <1>7, <1>8, GoStep

LEMMA DieStep ==
    ASSUME IInv, NEW w \in Procs, Die(w)
    PROVE  IInv'
  <1>1. /\ TypeOK /\ Return(w) /\ UNCHANGED <<chain, env, provider>>
        /\ faults' \in 0 .. MaxFaults
    BY ChainAssumption DEF IInv, TypeOK, Die
  <1>e. proc[w].env \in Env \cup {None} /\ orphaned \subseteq Env
    BY <1>1, TypeParts DEF Record
  <1>o. orphaned' \subseteq Env
    BY <1>e DEF Die
  <1>2. proc' \in [Procs -> Record]
    BY <1>1, ReturnType
  <1>3. TypeOK'
    BY <1>1, <1>o, <1>2, StepType, TypeParts DEF chain
  <1> QED BY <1>1, <1>3, DoneStep DEF chain

-----------------------------------------------------------------------------
(* Processes that move the status of an envelope. *)

\* A claim goes back, if there is one.
LEMMA PutBackType ==
    ASSUME TypeOK, NEW w \in Procs, NEW to \in {"SENT", "FAILED", "CANCELLED"}, PutBack(w, to)
    PROVE  /\ env' \in [Env -> Envelope] /\ Return(w)
           /\ \A e \in Env :
                /\ env'[e].of = env[e].of /\ env'[e].charged = env[e].charged
                /\ env'[e].vaulted = env[e].vaulted
                /\ env'[e].status = "none" <=> env[e].status = "none"
                /\ env'[e].status = "COMPLETED" => env[e].status = "COMPLETED"
           /\ proc[w].env # None => env'[proc[w].env].status # "COMPLETED"
  <1>1. CASE proc[w].env = None
    BY <1>1, TypeParts DEF PutBack
  <1>2. CASE proc[w].env # None
    <2>1. proc[w].env \in Env
      BY <1>2, TypeParts DEF Record
    <2>2. TransitionEnvelope(proc[w].env, {"COMPLETED"}, to) /\ to \in Ended \cup {"SENT", "FAILED"}
      BY <1>2 DEF PutBack, Ended
    <2>3. /\ env' \in [Env -> Envelope]
          /\ \A d \in Env : /\ d # proc[w].env => env'[d] = env[d]
                            /\ env'[d].of = env[d].of
                            /\ env'[d].charged = env[d].charged
                            /\ env'[d].vaulted = env[d].vaulted
          /\ env'[proc[w].env].status = IF env[proc[w].env].status \in {"COMPLETED"} THEN to
                                        ELSE env[proc[w].env].status
      BY <2>1, <2>2, EnvelopeType
    <2> QED BY <2>1, <2>3 DEF PutBack
  <1> QED BY <1>1, <1>2

LEMMA PutBackStep ==
    ASSUME IInv, NEW w \in Procs, NEW to \in {"SENT", "FAILED", "CANCELLED"}, PutBack(w, to),
           request' \in Open \cup {"COMPLETED", "DECLINED", "VOIDED", "EXPIRED", "AMENDED"},
           party' \in [Party -> Unsettled \cup {"SIGNED", "DECLINED"}],
           faults' \in 0 .. MaxFaults, orphaned' \subseteq Env,
           \A p \in Party : party[p] = "SIGNED" => party'[p] = "SIGNED",
           UNCHANGED <<amended, certificate, rows, provider>>
    PROVE  IInv'
  <1>0. TypeOK
    BY DEF IInv
  <1>1. /\ env' \in [Env -> Envelope] /\ Return(w)
        /\ \A e \in Env :
                /\ env'[e].of = env[e].of /\ env'[e].charged = env[e].charged
                /\ env'[e].vaulted = env[e].vaulted
                /\ env'[e].status = "none" <=> env[e].status = "none"
                /\ env'[e].status = "COMPLETED" => env[e].status = "COMPLETED"
    BY <1>0, PutBackType
  <1>2. /\ proc' \in [Procs -> Record]
        /\ proc'[w].pc = "idle" /\ proc'[w].env = None
        /\ \A v \in Procs : v # w => proc'[v] = proc[v]
    BY <1>0, <1>1, ReturnType
  <1>3. TypeOK'
    BY <1>0, <1>1, <1>2, StepType, TypeParts
  <1>4. (\A v \in Procs : Knows(v)') /\ EnvInv'
    <2> DEFINE W == {w}
    <2>1. Knows(w)'
      BY <1>2 DEF Knows
    <2>2. /\ W \in SUBSET Procs /\ \A u, v \in W : u = v
          /\ \A v \in Procs \ W : proc'[v] = proc[v]
          /\ \A v \in W : Knows(v)' /\ proc'[v].pc \notin {"create", "charge"}
      BY <1>2, <2>1
    <2> HIDE DEF W
    <2> QED BY <1>1, <1>3, <2>2, StatusStep
  <1>5. SigInv'
    BY <1>2, <1>3, QuietStep
  <1> QED BY <1>3, <1>4, <1>5 DEF IInv

LEMMA DeliverStep ==
    ASSUME IInv, NEW w \in Procs, NEW e \in Env, Deliver(w, e)
    PROVE  IInv'
  <1>0. TypeOK /\ env[e].status # "none" /\ env[e].of \in Party /\ provider[e] \in Ended
    BY DEF IInv, EnvInv, Deliver
  <1>1. /\ UNCHANGED <<chain, provider, losses>> /\ env[e].charged
        /\ TransitionEnvelope(e, InFlight, provider[e])
    BY DEF Deliver
  <1>2. /\ env' \in [Env -> Envelope]
        /\ \A d \in Env : /\ d # e => env'[d] = env[d]
                          /\ env'[d].of = env[d].of
                          /\ env'[d].charged = env[d].charged
                          /\ env'[d].vaulted = env[d].vaulted
        /\ env'[e].status = IF env[e].status \in InFlight THEN provider[e] ELSE env[e].status
    BY <1>0, <1>1, EnvelopeType
  <1>3. \A d \in Env :
               /\ env'[d].of = env[d].of /\ env'[d].charged = env[d].charged
               /\ env'[d].vaulted = env[d].vaulted
               /\ env'[d].status = "none" <=> env[d].status = "none"
               /\ env'[d].status = "COMPLETED" =>
                      \/ env[d].status = "COMPLETED"
                      \/ env[d].charged /\ provider[d] = "COMPLETED"
    BY <1>0, <1>1, <1>2 DEF Ended, InFlight
  <1>4. /\ proc' \in [Procs -> Record]
        /\ \A v \in Procs : v # w => proc'[v] = proc[v]
        /\ \/ proc'[w] = proc[w] /\ proc[w].pc = "idle"
           \/ /\ proc'[w].pc = "check" /\ proc'[w].party = env[e].of /\ proc'[w].env = e
              /\ provider[e] \in {"COMPLETED", "DECLINED"}
    <2>1. CASE provider[e] = "CANCELLED"
      BY <1>0, <2>1, TypeParts DEF Deliver, At
    <2>2. CASE provider[e] # "CANCELLED"
      BY <1>0, <2>2, BeginType DEF Deliver, Places, Ended
    <2> QED BY <2>1, <2>2
  <1>5. TypeOK'
    BY <1>0, <1>1, <1>2, <1>4, StepType, TypeParts DEF chain
  <1>6. Knows(w)'
    <2>1. CASE proc'[w] = proc[w] /\ proc[w].pc = "idle"
      BY <2>1 DEF Knows, IInv
    <2>2. CASE proc'[w].pc = "check" /\ proc'[w].party = env[e].of /\ proc'[w].env = e
               /\ provider[e] \in {"COMPLETED", "DECLINED"}
      BY <1>0, <1>1, <1>2, <2>2 DEF Knows
    <2> QED BY <1>4, <2>1, <2>2
  <1>7. (\A v \in Procs : Knows(v)') /\ EnvInv'
    <2> DEFINE W == {w}
    <2>1. /\ W \in SUBSET Procs /\ \A u, v \in W : u = v
          /\ \A v \in Procs \ W : proc'[v] = proc[v]
          /\ \A v \in W : Knows(v)' /\ proc'[v].pc \notin {"create", "charge"}
      BY <1>4, <1>6
    <2> HIDE DEF W
    <2> QED BY <1>1, <1>3, <1>5, <2>1, StatusStep
  <1>8. SigInv'
    BY <1>1, <1>4, <1>5, QuietStep DEF chain
  <1> QED BY <1>5, <1>7, <1>8 DEF IInv

LEMMA CheckStep ==
    ASSUME IInv, NEW w \in Procs, Unclaim(w) \/ CheckDocument(w)
    PROVE  IInv'
  <1>0. /\ TypeOK /\ proc[w].env \in Env /\ proc[w].env # None /\ proc[w].party \in Party
        /\ UNCHANGED <<amended, party, rows, certificate, provider>>
    BY DEF IInv, Knows, Unclaim, CheckDocument, At, chain, Env, None
  <1>l. faults' \in 0 .. MaxFaults /\ orphaned' \subseteq Env
    BY <1>0, FaultType, TypeParts DEF Unclaim, CheckDocument
  <1>1. request' \in Open \cup {"COMPLETED", "DECLINED", "VOIDED", "EXPIRED", "AMENDED"}
    BY <1>0, RequestType DEF Unclaim, CheckDocument, OnAmendment, TypeOK, chain
  <1>2. party' \in [Party -> Unsettled \cup {"SIGNED", "DECLINED"}]
    BY <1>0 DEF TypeOK
  <1>3. ASSUME NEW to \in {"FAILED", "CANCELLED"}, Return(w),
               TransitionEnvelope(proc[w].env, {"COMPLETED"}, to)
        PROVE  IInv'
    BY <1>0, <1>l, <1>1, <1>2, <1>3, PutBackStep DEF PutBack
  <1>4. CASE Goto(w, "settle") /\ UNCHANGED env
    BY <1>0, <1>l, <1>1, <1>2, <1>4, ForthStep DEF Places
  <1> QED BY <1>3, <1>4 DEF Unclaim, CheckDocument

LEMMA DispatchStep ==
    ASSUME IInv, NEW w \in Procs, Dispatch(w) \/ StepFails(w)
    PROVE  IInv'
  <1>0. /\ TypeOK
        /\ UNCHANGED <<request, amended, rows, certificate, provider>>
        /\ faults' \in 0 .. MaxFaults /\ orphaned' \subseteq Env
    BY FaultType DEF IInv, Dispatch, StepFails, chain, TypeOK
  <1>1. /\ request' \in Open \cup {"COMPLETED", "DECLINED", "VOIDED", "EXPIRED", "AMENDED"}
        /\ party' \in [Party -> Unsettled \cup {"SIGNED", "DECLINED"}]
        /\ \A p \in Party : party[p] = "SIGNED" => party'[p] = "SIGNED"
    BY <1>0, DispatchType DEF Dispatch, StepFails, chain, TypeOK
  <1>2. CASE \E to \in {"SENT", "FAILED"} : PutBack(w, to)
    BY <1>0, <1>1, <1>2, PutBackStep
  <1>3. CASE Return(w) /\ UNCHANGED env
    <2>1. proc' \in [Procs -> Record]
      BY <1>0, <1>3, ReturnType
    <2>2. TypeOK'
      BY <1>0, <1>1, <1>3, <2>1, StepType, TypeParts
    <2> QED BY <1>0, <1>1, <1>3, <2>2, DoneStep
  <1> QED BY <1>2, <1>3 DEF Dispatch, StepFails

\* The update of the party picks one process: the one that writes the signature.
LEMMA SettleStep ==
    ASSUME IInv, NEW w \in Procs, Settle(w)
    PROVE  IInv'
  <1> DEFINE p == proc[w].party
  <1>0. /\ TypeOK /\ p \in Party /\ SettleParty(p, "SIGNED")
        /\ UNCHANGED <<request, amended, rows, certificate, provider, losses>>
    BY DEF IInv, Knows, Settle, At
  <1>1. /\ party' \in [Party -> Unsettled \cup {"SIGNED", "DECLINED"}]
        /\ \A q \in Party : q # p => party'[q] = party[q]
        /\ party'[p] # party[p] => party[p] \in Unsettled /\ party'[p] = "SIGNED"
        /\ \A q \in Party : party[q] = "SIGNED" => party'[q] = "SIGNED"
    BY <1>0, PartyType
  <1>2. /\ request' \in Open \cup {"COMPLETED", "DECLINED", "VOIDED", "EXPIRED", "AMENDED"}
        /\ faults' \in 0 .. MaxFaults /\ orphaned' \subseteq Env
    BY <1>0 DEF TypeOK
  <1>3. CASE PutBack(w, "CANCELLED")
    BY <1>0, <1>1, <1>2, <1>3, PutBackStep
  <1>4. CASE party'[p] # party[p] /\ Goto(w, "insert") /\ UNCHANGED env
    <2>1. /\ proc' \in [Procs -> Record]
          /\ proc'[w].pc = "insert" /\ proc'[w].party = p /\ proc'[w].env = proc[w].env
          /\ \A v \in Procs : v # w => proc'[v] = proc[v]
      BY <1>0, <1>4, GotoType DEF Places
    <2>2. TypeOK'
      BY <1>0, <1>1, <1>2, <1>4, <2>1, StepType, TypeParts
    <2>3. Knows(w)'
      BY <1>0, <2>1 DEF Knows
    <2>4. (\A v \in Procs : Knows(v)') /\ EnvInv'
      BY <1>0, <1>4, <2>1, <2>2, <2>3, WalkStep
    <2>5. party[p] # "SIGNED" /\ party'[p] = "SIGNED" /\ rows[p] = 0
      <3>1. party[p] # "SIGNED" /\ party'[p] = "SIGNED"
        BY <1>1, <1>4 DEF Unsettled
      <3>2. rows[p] \in Nat /\ rows[p] <= 1 /\ rows[p] # 1
        BY <1>0, <3>1 DEF IInv, SigInv, OneSignature, TypeOK
      <3> QED BY <3>1, <3>2
    <2>6. \A v \in Procs : v # w /\ proc[v].pc = "insert" => proc[v].party # p
      BY <2>5 DEF IInv, SigInv, At
    <2>7. OneSignature'
      BY <1>0, <1>1, <2>5 DEF IInv, SigInv, OneSignature
    <2>8. \A v \in Procs : proc'[v].pc = "insert" =>
              party'[proc'[v].party] = "SIGNED" /\ rows'[proc'[v].party] = 0
      <3> SUFFICES ASSUME NEW v \in Procs, v # w, proc[v].pc = "insert"
                   PROVE  party'[proc[v].party] = "SIGNED" /\ rows[proc[v].party] = 0
        BY <1>0, <2>1, <2>5
      <3>1. proc[v].party \in Party
        BY DEF IInv, Knows
      <3> QED BY <1>1, <3>1 DEF IInv, SigInv, At
    <2>9. \A u, v \in Procs : proc'[u].pc = "insert" /\ proc'[v].pc = "insert"
                                  /\ proc'[u].party = proc'[v].party => u = v
      BY <2>1, <2>6 DEF IInv, SigInv, At
    <2>10. SigInv'
      BY <2>7, <2>8, <2>9 DEF SigInv, At
    <2> QED BY <2>2, <2>4, <2>10 DEF IInv
  <1> QED BY <1>3, <1>4 DEF Settle

LEMMA InsertStep ==
    ASSUME IInv, NEW w \in Procs, Insert(w)
    PROVE  IInv'
  <1> DEFINE p == proc[w].party
             e == proc[w].env
  <1>0. /\ TypeOK /\ p \in Party /\ e \in Env \cup {None}
        /\ proc[w].pc = "insert" /\ Goto(w, "advance")
        /\ UNCHANGED <<request, amended, party, certificate, provider, losses>>
    BY TypeParts DEF IInv, Knows, Insert, At, Record
  <1>1. rows' = [rows EXCEPT ![p] = rows[p] + 1] /\ rows[p] = 0 /\ party[p] = "SIGNED"
    BY <1>0 DEF Insert, IInv, SigInv, At
  <1>2. /\ rows' \in [Party -> Nat] /\ rows'[p] = 1
        /\ \A q \in Party : q # p => rows'[q] = rows[q]
    BY <1>0, <1>1 DEF TypeOK
  <1>3. /\ env' \in [Env -> Envelope]
        /\ \A d \in Env : /\ env'[d].of = env[d].of /\ env'[d].charged = env[d].charged
                          /\ env'[d].status = env[d].status
                          /\ env[d].vaulted => env'[d].vaulted
        /\ e # None => env'[e].vaulted
    <2>1. env \in [Env -> Envelope]
      BY <1>0, TypeParts
    <2>2. CASE e = None
      BY <2>1, <2>2 DEF Insert
    <2>3. CASE e # None
      <3>1. e \in Env /\ env' = [env EXCEPT ![e].vaulted = TRUE]
        BY <1>0, <2>3 DEF Insert
      <3> QED BY <2>1, <3>1 DEF Envelope
    <2> QED BY <2>2, <2>3
  <1>4. /\ proc' \in [Procs -> Record]
        /\ proc'[w].pc = "advance" /\ proc'[w].env = e
        /\ \A v \in Procs : v # w => proc'[v] = proc[v]
    BY <1>0, GotoType DEF Places
  <1>5. TypeOK'
    BY <1>0, <1>2, <1>3, <1>4, StepType, TypeParts
  <1>6. Knows(w)'
    BY <1>3, <1>4 DEF Knows
  <1>7. (\A v \in Procs : Knows(v)') /\ EnvInv'
    <2> DEFINE W == {w}
    <2>1. /\ W \in SUBSET Procs /\ \A u, v \in W : u = v
          /\ \A v \in Procs \ W : proc'[v] = proc[v]
          /\ \A v \in W : Knows(v)'
          /\ \A v \in W : proc'[v].pc \in {"create", "charge"} =>
               \/ proc[v].pc \in {"create", "charge"} /\ proc'[v].env = proc[v].env
               \/ env[proc'[v].env].status = "none"
      BY <1>4, <1>6
    <2>2. \A d \in Env :
            /\ env'[d].status # "none" => env'[d].of \in Party
            /\ env'[d].charged => env'[d].status # "none"
            /\ env'[d].status = "COMPLETED" => env'[d].charged /\ provider'[d] = "COMPLETED"
      BY <1>0, <1>3 DEF IInv, EnvInv
    <2> HIDE DEF W
    <2> QED BY <1>0, <1>3, <1>5, <2>1, <2>2, MoveStep
  <1>8. SigInv'
    <2>1. OneSignature'
      BY <1>0, <1>1, <1>2 DEF IInv, SigInv, OneSignature
    <2>2. \A v \in Procs : proc'[v].pc = "insert" =>
              /\ v # w /\ proc[v].pc = "insert" /\ proc'[v].party = proc[v].party
              /\ proc[v].party \in Party /\ proc[v].party # p
      BY <1>0, <1>4 DEF IInv, SigInv, Knows, At
    <2>3. \A v \in Procs : proc'[v].pc = "insert" =>
              party'[proc'[v].party] = "SIGNED" /\ rows'[proc'[v].party] = 0
      BY <1>0, <1>2, <2>2 DEF IInv, SigInv, At
    <2>4. \A u, v \in Procs : proc'[u].pc = "insert" /\ proc'[v].pc = "insert"
                                  /\ proc'[u].party = proc'[v].party => u = v
      BY <2>2 DEF IInv, SigInv, At
    <2> QED BY <2>1, <2>3, <2>4 DEF SigInv, At
  <1> QED BY <1>5, <1>7, <1>8 DEF IInv

-----------------------------------------------------------------------------
(* The making of an envelope, and its cancelling. *)

\* The rest of a step of one process that no signature hangs on.
LEMMA MakeStep ==
    ASSUME IInv, NEW w \in Procs, UNCHANGED chain,
           faults' \in 0 .. MaxFaults, orphaned' \subseteq Env,
           proc' \in [Procs -> Record], \A v \in Procs : v # w => proc'[v] = proc[v],
           Knows(w)', proc'[w].pc # "insert",
           proc'[w].pc \in {"create", "charge"} =>
               \/ proc[w].pc \in {"create", "charge"} /\ proc'[w].env = proc[w].env
               \/ env[proc'[w].env].status = "none",
           env' \in [Env -> Envelope], provider' \in [Env -> Ended \cup {"none", "open"}],
           \A e \in Env :
               /\ env[e].vaulted => env'[e].vaulted
               /\ env[e].charged => env'[e].charged
               /\ env[e].charged /\ provider[e] \in {"COMPLETED", "DECLINED"} =>
                      provider'[e] = provider[e]
               /\ env[e].status # "none" => env'[e].status # "none",
           \A e \in Env : env'[e].charged /\ ~env[e].charged =>
               proc[w].pc = "charge" /\ proc[w].env = e /\ proc'[w].pc = "idle",
           \A e \in Env :
               /\ env'[e].status # "none" => env'[e].of \in Party
               /\ env'[e].charged => env'[e].status # "none"
               /\ env'[e].status = "COMPLETED" => env'[e].charged /\ provider'[e] = "COMPLETED"
    PROVE  IInv'
  <1>1. TypeOK'
    BY StepType, TypeParts DEF IInv, chain
  <1>2. (\A v \in Procs : Knows(v)') /\ EnvInv'
    <2> DEFINE W == {w}
    <2>1. /\ W \in SUBSET Procs /\ \A u, v \in W : u = v
          /\ \A v \in Procs \ W : proc'[v] = proc[v]
          /\ \A v \in W : Knows(v)'
          /\ \A v \in W : proc'[v].pc \in {"create", "charge"} =>
               \/ proc[v].pc \in {"create", "charge"} /\ proc'[v].env = proc[v].env
               \/ env[proc'[v].env].status = "none"
          /\ \A e \in Env : env'[e].charged /\ ~env[e].charged =>
               \E v \in W : /\ proc[v].pc = "charge" /\ proc[v].env = e
                            /\ proc'[v].pc = "idle"
      OBVIOUS
    <2> HIDE DEF W
    <2> QED BY <1>1, <2>1, MoveStep
  <1>3. SigInv'
    BY <1>1, QuietStep DEF chain
  <1> QED BY <1>1, <1>2, <1>3 DEF IInv

LEMMA HandoffStep ==
    ASSUME IInv, NEW w \in Procs, Handoff(w)
    PROVE  IInv'
  <1> DEFINE p == proc[w].party
             S == {d \in Env : env[d].status = "none"}
             e == Min(S)
  <1>0. /\ TypeOK /\ p \in Party /\ UNCHANGED <<chain, provider, losses>>
        /\ env \in [Env -> Envelope]
        /\ faults' \in 0 .. MaxFaults /\ orphaned' \subseteq Env
    BY TypeParts DEF IInv, Knows, Handoff, At
  <1>1. CASE Return(w) /\ UNCHANGED env
    <2>1. proc' \in [Procs -> Record]
      BY <1>0, <1>1, ReturnType
    <2>2. TypeOK'
      BY <1>0, <1>1, <2>1, StepType, TypeParts DEF chain
    <2> QED BY <1>0, <1>1, <2>2, DoneStep DEF chain
  <1>2. CASE ~(Return(w) /\ UNCHANGED env)
    <2>1. /\ S # {} /\ Begin(w, "create", p, e)
          /\ env' = [env EXCEPT ![e].status = "CREATING", ![e].of = p]
      BY <1>2 DEF Handoff
    <2>2. e \in S
      <3>1. S \in SUBSET Nat
        BY DEF Env
      <3> HIDE DEF S
      <3> QED BY <2>1, <3>1, MinIn
    <2>3. e \in Env /\ env[e].status = "none"
      BY <2>2
    <2> HIDE DEF e, p, S
    <2>4. /\ env' \in [Env -> Envelope]
          /\ env'[e].status = "CREATING" /\ env'[e].of = p
          /\ env'[e].charged = env[e].charged /\ env'[e].vaulted = env[e].vaulted
          /\ \A d \in Env : d # e => env'[d] = env[d]
      BY <1>0, <2>1, <2>3 DEF Envelope, InFlight
    <2>5. ~env[e].charged
      BY <1>0, <2>3 DEF IInv, EnvInv, Envelope
    <2>6. /\ proc' \in [Procs -> Record]
          /\ proc'[w].pc = "create" /\ proc'[w].party = p /\ proc'[w].env = e
          /\ \A v \in Procs : v # w => proc'[v] = proc[v]
      BY <1>0, <2>1, <2>3, BeginType DEF Places
    <2>7. Knows(w)'
      BY <1>0, <2>3, <2>4, <2>5, <2>6 DEF Knows
    <2>8. \A d \in Env :
            /\ env'[d].status # "none" => env'[d].of \in Party
            /\ env'[d].charged => env'[d].status # "none"
            /\ env'[d].status = "COMPLETED" => env'[d].charged /\ provider'[d] = "COMPLETED"
      BY <1>0, <2>4 DEF IInv, EnvInv
    <2>9. /\ provider' \in [Env -> Ended \cup {"none", "open"}] /\ provider' = provider
          /\ \A d \in Env :
               /\ env[d].vaulted => env'[d].vaulted
               /\ env[d].charged => env'[d].charged
               /\ env'[d].charged => env[d].charged
               /\ env[d].status # "none" => env'[d].status # "none"
      BY <1>0, <2>4, TypeParts
    <2> QED BY <1>0, <2>3, <2>4, <2>6, <2>7, <2>8, <2>9, MakeStep
  <1> QED BY <1>1, <1>2

\* What a process that creates an envelope knows of it.
LEMMA HeldEnvelope ==
    ASSUME IInv, NEW w \in Procs, proc[w].pc \in {"create", "charge"}
    PROVE  /\ proc[w].env \in Env /\ proc[w].party \in Party
           /\ ~env[proc[w].env].charged /\ env[proc[w].env].of \in Party
           /\ env[proc[w].env].status \notin {"none", "COMPLETED"}
           /\ env \in [Env -> Envelope] /\ proc[w].env # None
  <1>1. Knows(w) /\ env \in [Env -> Envelope]
    BY TypeParts DEF IInv
  <1> QED BY <1>1 DEF IInv, EnvInv, Knows, Env, None

LEMMA CreateStep ==
    ASSUME IInv, NEW w \in Procs, Create(w) \/ Charge(w)
    PROVE  IInv'
  <1> DEFINE e == proc[w].env
  <1>1. proc[w].pc \in {"create", "charge"}
    BY DEF Create, Charge, At
  <1>2. /\ e \in Env /\ proc[w].party \in Party
        /\ ~env[e].charged /\ env[e].of \in Party /\ e # None
        /\ env[e].status \notin {"none", "COMPLETED"}
        /\ env \in [Env -> Envelope] /\ provider \in [Env -> Ended \cup {"none", "open"}]
        /\ TypeOK
    BY <1>1, HeldEnvelope, TypeParts DEF IInv
  <1>3. faults' \in 0 .. MaxFaults /\ orphaned' \subseteq Env /\ UNCHANGED chain
    BY <1>2, FaultType, ChainAssumption DEF Create, Charge, TypeOK
  <1>4. /\ provider' \in [Env -> Ended \cup {"none", "open"}]
        /\ \A d \in Env : d # e => provider'[d] = provider[d]
    <2>1. \E doc \in Ended \cup {"none", "open"} : provider' = [provider EXCEPT ![e] = doc]
      BY <1>2 DEF Create, Charge, Ended
    <2> QED BY <1>2, <2>1
  <1>5. \/ env' = env /\ proc[w].pc = "create" /\ Goto(w, "charge")
        \/ env' = [env EXCEPT ![e].status = "FAILED"] /\ Return(w)
        \/ /\ env' = [env EXCEPT ![e].status = "SENT", ![e].charged = TRUE]
           /\ proc[w].pc = "charge" /\ Return(w)
    BY DEF Create, Charge, At
  <1>6. /\ env' \in [Env -> Envelope]
        /\ \A d \in Env : d # e => env'[d] = env[d]
        /\ env'[e].of = env[e].of /\ env'[e].vaulted = env[e].vaulted
        /\ env'[e].status \in {"FAILED", "SENT", env[e].status}
        /\ env'[e].charged =>
               proc[w].pc = "charge" /\ Return(w)
    BY <1>2, <1>5 DEF Envelope, InFlight
  <1>7. /\ proc' \in [Procs -> Record]
        /\ \A v \in Procs : v # w => proc'[v] = proc[v]
        /\ \/ proc'[w].pc = "idle" /\ proc'[w].env = None
           \/ /\ proc'[w].pc = "charge" /\ proc'[w].env = e /\ proc'[w].party = proc[w].party
              /\ env' = env
        /\ env'[e].charged => proc'[w].pc = "idle"
    <2>1. CASE Return(w)
      BY <1>2, <2>1, ReturnType
    <2>2. CASE env' = env /\ proc[w].pc = "create" /\ Goto(w, "charge")
      BY <1>2, <2>2, GotoType DEF Places
    <2> QED BY <1>5, <2>1, <2>2
  <1>8. Knows(w)'
    BY <1>2, <1>7 DEF Knows
  <1>9. \A d \in Env :
            /\ env'[d].status # "none" => env'[d].of \in Party
            /\ env'[d].charged => env'[d].status # "none"
            /\ env'[d].status = "COMPLETED" => env'[d].charged /\ provider'[d] = "COMPLETED"
    BY <1>2, <1>4, <1>6 DEF IInv, EnvInv
  <1>10. \A d \in Env :
               /\ env[d].vaulted => env'[d].vaulted
               /\ env[d].charged => env'[d].charged
               /\ env[d].charged /\ provider[d] \in {"COMPLETED", "DECLINED"} =>
                      provider'[d] = provider[d]
               /\ env[d].status # "none" => env'[d].status # "none"
    BY <1>2, <1>4, <1>6
  <1>11. \A d \in Env : env'[d].charged /\ ~env[d].charged =>
               proc[w].pc = "charge" /\ proc[w].env = d /\ proc'[w].pc = "idle"
    BY <1>6, <1>7
  <1>12. /\ proc'[w].pc # "insert"
         /\ proc'[w].pc \in {"create", "charge"} =>
               proc[w].pc \in {"create", "charge"} /\ proc'[w].env = proc[w].env
    BY <1>1, <1>7
  <1> QED BY <1>3, <1>4, <1>6, <1>7, <1>8, <1>9, <1>10, <1>11, <1>12, MakeStep

LEMMA CancelStep ==
    ASSUME IInv, NEW w \in Procs, CancelEnvelope(w)
    PROVE  IInv'
  <1>1. /\ TypeOK /\ UNCHANGED chain /\ proc[w].pc = "cancel"
        /\ provider \in [Env -> Ended \cup {"none", "open"}]
        /\ env \in [Env -> Envelope] /\ proc \in [Procs -> Record] /\ proc[w].env = None
    BY TypeParts DEF IInv, CancelEnvelope, At, Knows
  <1>2. faults' \in 0 .. MaxFaults /\ orphaned' \subseteq Env
    BY <1>1, FaultType DEF CancelEnvelope, TypeOK
  <1>3. PICK listed \in proc[w].todo :
            /\ proc' = [proc EXCEPT ![w].todo = proc[w].todo \ {listed}]
            /\ \/ /\ ~(listed[2] /\ provider[listed[1]] \in {"COMPLETED", "DECLINED"})
                  /\ provider' = IF listed[2] THEN [provider EXCEPT ![listed[1]] = "CANCELLED"]
                                 ELSE provider
                  /\ TransitionEnvelope(listed[1], InFlight, "CANCELLED")
               \/ /\ UNCHANGED provider
                  /\ TransitionEnvelope(listed[1], InFlight, "CANCELLED")
               \/ UNCHANGED <<env, provider>>
    BY DEF CancelEnvelope
  <1> DEFINE e == listed[1]
  <1>4. e \in Env
    BY <1>1, <1>3 DEF Record
  <1>5. /\ proc' \in [Procs -> Record]
        /\ proc'[w].pc = "cancel" /\ proc'[w].env = None
        /\ \A v \in Procs : v # w => proc'[v] = proc[v]
    <2> DEFINE r == [proc[w] EXCEPT !.todo = proc[w].todo \ {listed}]
    <2>1. r \in Record /\ r.pc = proc[w].pc /\ r.env = proc[w].env
      BY <1>1 DEF Record
    <2>2. proc' = [proc EXCEPT ![w] = r]
      BY <1>3
    <2> HIDE DEF r
    <2> QED BY <1>1, <2>1, <2>2
  <1>6. Knows(w)'
    BY <1>5 DEF Knows
  <1>7. /\ provider' \in [Env -> Ended \cup {"none", "open"}]
        /\ \A d \in Env : provider[d] \in {"COMPLETED", "DECLINED"} => provider'[d] = provider[d]
    BY <1>1, <1>3, <1>4 DEF Ended
  <1>8. /\ env' \in [Env -> Envelope]
        /\ \A d \in Env :
             /\ env'[d].of = env[d].of /\ env'[d].charged = env[d].charged
             /\ env'[d].vaulted = env[d].vaulted
             /\ env'[d].status = "none" <=> env[d].status = "none"
             /\ env'[d].status = "COMPLETED" => env[d].status = "COMPLETED"
    <2>1. CASE UNCHANGED env
      BY <1>1, <2>1
    <2>2. CASE TransitionEnvelope(e, InFlight, "CANCELLED")
      <3>1. /\ env' \in [Env -> Envelope]
            /\ \A d \in Env : /\ d # e => env'[d] = env[d]
                              /\ env'[d].of = env[d].of
                              /\ env'[d].charged = env[d].charged
                              /\ env'[d].vaulted = env[d].vaulted
            /\ env'[e].status = IF env[e].status \in InFlight THEN "CANCELLED" ELSE env[e].status
        BY <1>1, <1>4, <2>2, EnvelopeType DEF Ended
      <3> QED BY <1>4, <3>1 DEF InFlight
    <2> QED BY <1>3, <2>1, <2>2
  <1>9. \A d \in Env :
            /\ env'[d].status # "none" => env'[d].of \in Party
            /\ env'[d].charged => env'[d].status # "none"
            /\ env'[d].status = "COMPLETED" => env'[d].charged /\ provider'[d] = "COMPLETED"
    BY <1>7, <1>8 DEF IInv, EnvInv
  <1> QED BY <1>1, <1>2, <1>5, <1>6, <1>7, <1>8, <1>9, MakeStep

-----------------------------------------------------------------------------
LEMMA InitIInv == Init => IInv
  <1> SUFFICES ASSUME Init PROVE IInv
    OBVIOUS
  <1>1. TypeOK
    <2>1. Idle \in Record /\ proc \in [Procs -> Record]
      BY DEF Init, Idle, Record, Places
    <2>2. env \in [Env -> Envelope]
      BY DEF Init, Envelope
    <2>3. /\ party \in [Party -> Unsettled \cup {"SIGNED", "DECLINED"}]
          /\ rows \in [Party -> Nat]
          /\ provider \in [Env -> Ended \cup {"none", "open"}]
          /\ faults \in 0 .. MaxFaults
      BY ChainAssumption DEF Init, Unsettled
    <2> QED BY <2>1, <2>2, <2>3, TypeParts DEF Init, Open
  <1>2. \A w \in Procs : proc[w].pc = "idle" /\ proc[w].env = None
    BY DEF Init, Idle
  <1>3. (\A w \in Procs : Knows(w)) /\ EnvInv
    BY <1>2 DEF Init, Knows, EnvInv
  <1>4. SigInv
    BY <1>2 DEF Init, SigInv, OneSignature, At
  <1> QED BY <1>1, <1>3, <1>4 DEF IInv

LEMMA NextIInv == IInv /\ [Next]_vars => IInv'
  <1> SUFFICES ASSUME IInv, [Next]_vars PROVE IInv'
    OBVIOUS
  <1>1. CASE UNCHANGED vars
    BY <1>1 DEF vars, chain, IInv, TypeOK, Knows, EnvInv, SigInv, OneSignature, At
  <1>2. CASE SendNext \/ Edit \/ Expire
    BY <1>2, PeopleStep
  <1>3. ASSUME NEW e \in Env, ProviderEnds(e) \/ PollUnconfirmed(e) PROVE IInv'
    BY <1>3, ProviderStep
  <1>4. ASSUME NEW w \in Procs,
               (\E p \in Party : Complete(w, p) \/ Decline(w, p)) \/ AskCertificate(w)
        PROVE  IInv'
    BY <1>4, StartStep
  <1>5. ASSUME NEW w \in Procs, NEW e \in Env, Deliver(w, e) PROVE IInv'
    BY <1>5, DeliverStep
  <1>6. ASSUME NEW w \in Procs, Void(w) PROVE IInv'
    BY <1>6, VoidStep
  <1>7. ASSUME NEW w \in Procs, Handoff(w) \/ Create(w) \/ Charge(w) \/ CancelEnvelope(w)
        PROVE  IInv'
    BY <1>7, HandoffStep, CreateStep, CancelStep
  <1>8. ASSUME NEW w \in Procs,
               \/ Refuse(w) \/ Close(w) \/ CheckDecline(w) \/ Advance(w)
               \/ Certify(w) \/ Render(w) \/ Cancelled(w)
        PROVE  IInv'
    BY <1>8, WalkOnStep
  <1>9. ASSUME NEW w \in Procs, Unclaim(w) \/ CheckDocument(w) \/ Settle(w) \/ Insert(w)
        PROVE  IInv'
    BY <1>9, CheckStep, SettleStep, InsertStep
  <1>10. ASSUME NEW w \in Procs, Dispatch(w) \/ StepFails(w) \/ Die(w)
         PROVE  IInv'
    BY <1>10, DispatchStep, DieStep
  <1> QED BY <1>1, <1>2, <1>3, <1>4, <1>5, <1>6, <1>7, <1>8, <1>9, <1>10 DEF Next, Continue

THEOREM Invariance == Spec => []IInv
  BY InitIInv, NextIInv, PTL DEF Spec

\* The request, its parties, the envelopes and the processes keep their types.
THEOREM TypeCorrect == Spec => []TypeOK
  <1>1. IInv => TypeOK
    BY DEF IInv
  <1> QED BY <1>1, Invariance, PTL

\* However often and late the provider's answer comes, and whatever a party does
\* with its code meanwhile, its signature is written once (completedEnvelope,
\* settleParty).
THEOREM SignedOnce == Spec => []OneSignature
  <1>1. IInv => OneSignature
    BY DEF IInv, SigInv
  <1> QED BY <1>1, Invariance, PTL

-----------------------------------------------------------------------------
(* What counts as signed without a signature.  Only a fault takes a process   *)
(* away from a party or an envelope it has claimed and not yet written.       *)

LEMMA Finite ==
    ASSUME NEW S \in SUBSET Party
    PROVE  IsFiniteSet(S) /\ Cardinality(S) \in Nat
  <1>1. IsFiniteSet(Party)
    BY FS_Interval, ChainAssumption DEF Party
  <1> QED BY <1>1, FS_Subset, FS_CardinalityType

\* A set that gains one element at most gains one at most.
LEMMA Gain ==
    ASSUME NEW S, IsFiniteSet(S), NEW x, NEW T \in SUBSET (S \cup {x})
    PROVE  Cardinality(T) <= Cardinality(S) + 1 /\ Cardinality(T) \in Nat
  <1>1. /\ IsFiniteSet(S \cup {x})
        /\ Cardinality(S \cup {x}) = IF x \in S THEN Cardinality(S) ELSE Cardinality(S) + 1
    BY FS_AddElement
  <1>2. Cardinality(S) \in Nat
    BY FS_CardinalityType
  <1>3. IsFiniteSet(T) /\ Cardinality(T) <= Cardinality(S \cup {x})
    BY <1>1, FS_Subset
  <1>4. Cardinality(T) \in Nat
    BY <1>3, FS_CardinalityType
  <1> QED BY <1>1, <1>2, <1>3, <1>4

LEMMA DebtType ==
    ASSUME IInv
    PROVE  /\ faults \in Nat
           /\ Unwritten \in SUBSET Party /\ Unwritten' \in SUBSET Party
           /\ IsFiniteSet(Unwritten)
           /\ Cardinality(Unwritten) \in Nat /\ Cardinality(Unwritten') \in Nat
  <1>1. Unwritten \in SUBSET Party /\ Unwritten' \in SUBSET Party
    BY DEF Unwritten
  <1>2. faults \in Nat
    BY ChainAssumption DEF IInv, TypeOK
  <1> QED BY <1>1, <1>2, Finite

LEMMA NoNewDebt ==
    ASSUME IInv, EmptyHandsNeedFaults, faults' = faults,
           Unwritten' \subseteq Unwritten, Hollow' \subseteq orphaned'
    PROVE  EmptyHandsNeedFaults'
  <1>1. Cardinality(Unwritten') <= Cardinality(Unwritten)
    BY DebtType, FS_Subset
  <1> QED BY <1>1, DebtType DEF EmptyHandsNeedFaults

LEMMA OneNewDebt ==
    ASSUME IInv, EmptyHandsNeedFaults, faults' = faults + 1, NEW p,
           Unwritten' \subseteq Unwritten \cup {p}, Hollow' \subseteq orphaned'
    PROVE  EmptyHandsNeedFaults'
  <1>1. Cardinality(Unwritten') <= Cardinality(Unwritten) + 1
    BY DebtType, Gain
  <1> QED BY <1>1, DebtType DEF EmptyHandsNeedFaults

\* A step of one process, which leaves what it holds to itself, to the row it
\* writes, or to a fault.
LEMMA DebtStep ==
    ASSUME IInv, IInv', EmptyHandsNeedFaults, NEW w \in Procs,
           \A v \in Procs : v # w => proc'[v] = proc[v],
           \A p \in Party : party'[p] = "SIGNED" /\ party[p] # "SIGNED" =>
               proc'[w].pc = "insert" /\ proc'[w].party = p,
           \A p \in Party : rows[p] # 0 => rows'[p] # 0,
           \A e \in Env : env'[e].status = "COMPLETED" /\ ~env'[e].vaulted =>
               \/ env[e].status = "COMPLETED" /\ ~env[e].vaulted
               \/ proc'[w].env = e,
           orphaned \subseteq orphaned',
           proc[w].env # None => \/ proc'[w].env = proc[w].env
                                 \/ env'[proc[w].env].status # "COMPLETED"
                                 \/ env'[proc[w].env].vaulted
                                 \/ proc[w].env \in orphaned',
           \/ faults' = faults /\ (proc[w].pc = "insert" => rows'[proc[w].party] # 0)
           \/ faults' = faults + 1
    PROVE  EmptyHandsNeedFaults'
  <1>1. Unwritten' \subseteq Unwritten \cup {proc[w].party}
    BY DEF Unwritten, At
  <1>2. Hollow' \subseteq orphaned'
    <2> SUFFICES ASSUME NEW e \in Hollow' PROVE e \in orphaned'
      OBVIOUS
    <2>1. /\ e \in Env /\ env'[e].status = "COMPLETED" /\ ~env'[e].vaulted
          /\ \A v \in Procs : proc'[v].env # e
      BY DEF Hollow
    <2>2. env[e].status = "COMPLETED" /\ ~env[e].vaulted
      BY <2>1
    <2>3. CASE \A v \in Procs : proc[v].env # e
      BY <2>1, <2>2, <2>3 DEF Hollow, EmptyHandsNeedFaults
    <2>4. CASE proc[w].env = e
      BY <2>1, <2>4 DEF Env, None
    <2> QED BY <2>1, <2>3, <2>4
  <1>3. CASE faults' = faults + 1
    BY <1>1, <1>2, <1>3, OneNewDebt
  <1>4. CASE faults' = faults /\ (proc[w].pc = "insert" => rows'[proc[w].party] # 0)
    <2>1. Unwritten' \subseteq Unwritten
      BY <1>4 DEF Unwritten, At
    <2> QED BY <1>2, <1>4, <2>1, NoNewDebt
  <1> QED BY <1>3, <1>4

\* A process that holds no envelope, or one whose fate is written.
LEMMA WalkDebt ==
    ASSUME IInv, IInv', EmptyHandsNeedFaults, NEW w \in Procs,
           \/ \E p \in Party : Complete(w, p) \/ Decline(w, p)
           \/ AskCertificate(w) \/ Void(w)
           \/ Refuse(w) \/ Close(w) \/ CheckDecline(w) \/ Advance(w)
           \/ Certify(w) \/ Render(w) \/ Cancelled(w)
    PROVE  EmptyHandsNeedFaults'
  <1>0. TypeOK /\ Knows(w) /\ proc[w].env \in Env \cup {None} /\ proc \in [Procs -> Record]
    BY TypeParts DEF IInv, Record
  <1>1. UNCHANGED <<rows, env, provider, losses>> /\ proc[w].pc # "insert"
    BY DEF Complete, Decline, AskCertificate, Void, Refuse, Close, CheckDecline, Advance,
           Certify, Render, Cancelled, chain, At
  <1>2. \A v \in Procs : v # w => proc'[v] = proc[v]
    BY <1>0 DEF Complete, Decline, AskCertificate, Void, Refuse, Close, CheckDecline, Advance,
                Certify, Render, Cancelled, Begin, Goto, Return
  <1>3. \A p \in Party : party'[p] = "SIGNED" => party[p] = "SIGNED"
    <2>1. CASE Refuse(w)
      <3>1. proc[w].party \in Party /\ SettleParty(proc[w].party, "DECLINED")
        BY <1>0, <2>1 DEF Refuse, Knows, At
      <3> QED BY <1>0, <3>1, PartyType
    <2>2. CASE party' = party
      BY <2>2
    <2> QED BY <2>1, <2>2 DEF Complete, Decline, AskCertificate, Void, Close, CheckDecline,
                              Advance, Certify, Render, Cancelled, chain
  <1>4. proc[w].env # None => \/ proc'[w].env = proc[w].env
                              \/ env[proc[w].env].status # "COMPLETED"
                              \/ env[proc[w].env].vaulted
    <2> SUFFICES ASSUME proc[w].env # None, env[proc[w].env].status = "COMPLETED",
                        ~env[proc[w].env].vaulted
                 PROVE  proc'[w].env = proc[w].env
      OBVIOUS
    <2>1. proc[w].env \in Env /\ provider[proc[w].env] = "COMPLETED"
      BY <1>0 DEF IInv, EnvInv
    <2>2. proc[w].pc \notin {"idle", "refuse", "close", "advance", "certify", "render", "cancel"}
      BY <1>0, <2>1 DEF Knows
    <2>3. FALSE
      BY <2>1, <2>2 DEF Complete, Decline, AskCertificate, Void, Refuse, Close, CheckDecline,
                        Advance, Certify, Render, Cancelled, At
    <2> QED BY <2>3
  <1> QED BY <1>1, <1>2, <1>3, <1>4, DebtStep

LEMMA ClaimDebt ==
    ASSUME IInv, IInv', EmptyHandsNeedFaults, NEW w \in Procs,
           \/ \E e \in Env : Deliver(w, e)
           \/ Unclaim(w) \/ CheckDocument(w) \/ Settle(w) \/ Dispatch(w)
    PROVE  EmptyHandsNeedFaults'
  <1>0. TypeOK /\ Knows(w) /\ proc[w].env \in Env \cup {None} /\ proc \in [Procs -> Record]
    BY TypeParts DEF IInv, Record
  <1>1. /\ rows' = rows /\ faults \in Nat /\ faults' \in {faults, faults + 1}
        /\ orphaned' = orphaned /\ proc[w].pc # "insert"
    BY <1>0, ChainAssumption DEF Deliver, Unclaim, CheckDocument, Settle, Dispatch, chain, At,
                                 Fault, TypeOK
  <1>2. \A v \in Procs : v # w => proc'[v] = proc[v]
    BY <1>0 DEF Deliver, Unclaim, CheckDocument, Settle, Dispatch, Begin, Goto, Return, PutBack
  <1>3. ASSUME NEW e \in Env, Deliver(w, e) PROVE EmptyHandsNeedFaults'
    <2>1. /\ provider[e] \in Ended /\ party' = party /\ faults' = faults
          /\ TransitionEnvelope(e, InFlight, provider[e]) /\ proc[w].env = None
      BY <1>0, <1>3 DEF Deliver, chain, Knows, At
    <2>2. /\ \A d \in Env : d # e => env'[d] = env[d]
          /\ \A d \in Env : env'[d].vaulted = env[d].vaulted
          /\ env'[e].status = IF env[e].status \in InFlight THEN provider[e] ELSE env[e].status
      BY <1>0, <2>1, EnvelopeType
    <2>3. provider[e] # "CANCELLED" => proc'[w].env = e
      <3> SUFFICES ASSUME provider[e] # "CANCELLED" PROVE proc'[w].env = e
        OBVIOUS
      <3>1. Begin(w, "check", env[e].of, e)
        BY <1>3 DEF Deliver
      <3>2. env[e].of \in Party \cup {None} /\ "check" \in Places
        BY <1>0, TypeParts DEF Envelope, Places
      <3> QED BY <1>0, <3>1, <3>2, BeginType
    <2>4. \A d \in Env : env'[d].status = "COMPLETED" /\ ~env'[d].vaulted =>
              \/ env[d].status = "COMPLETED" /\ ~env[d].vaulted
              \/ proc'[w].env = d
      BY <2>2, <2>3
    <2> QED BY <1>1, <1>2, <2>1, <2>4, DebtStep
  <1>4. ASSUME NEW to \in {"SENT", "FAILED", "CANCELLED"}, PutBack(w, to),
               \A p \in Party : party'[p] = "SIGNED" => party[p] = "SIGNED"
        PROVE  EmptyHandsNeedFaults'
    <2>1. /\ \A e \in Env :
                /\ env'[e].vaulted = env[e].vaulted
                /\ env'[e].status = "COMPLETED" => env[e].status = "COMPLETED"
          /\ proc[w].env # None => env'[proc[w].env].status # "COMPLETED"
      BY <1>0, <1>4, PutBackType
    <2> QED BY <1>1, <1>2, <1>4, <2>1, DebtStep
  <1>5. CASE Unclaim(w) \/ CheckDocument(w)
    <2>1. party' = party /\ proc[w].env # None
      BY <1>0, <1>5 DEF Unclaim, CheckDocument, chain, Knows, At, Env, None
    <2>2. CASE \E to \in {"FAILED", "CANCELLED"} :
                   TransitionEnvelope(proc[w].env, {"COMPLETED"}, to) /\ Return(w)
      BY <1>4, <2>1, <2>2 DEF PutBack
    <2>3. CASE Goto(w, "settle") /\ UNCHANGED env
      <3>1. proc'[w].env = proc[w].env
        BY <1>0, <2>3, GotoType DEF Places
      <3> QED BY <1>1, <1>2, <2>1, <2>3, <3>1, DebtStep
    <2> QED BY <1>5, <2>2, <2>3 DEF Unclaim, CheckDocument
  <1>6. CASE Settle(w)
    <2> DEFINE p == proc[w].party
    <2>1. p \in Party /\ SettleParty(p, "SIGNED") /\ faults' = faults
      BY <1>0, <1>6 DEF Settle, Knows, At
    <2>2. /\ \A q \in Party : q # p => party'[q] = party[q]
          /\ party'[p] # party[p] => party[p] \in Unsettled /\ party'[p] = "SIGNED"
      BY <1>0, <2>1, PartyType
    <2>3. CASE party'[p] = party[p]
      BY <1>4, <1>6, <2>2, <2>3 DEF Settle
    <2>4. CASE party'[p] # party[p]
      <3>1. Goto(w, "insert") /\ UNCHANGED env
        BY <1>6, <2>4 DEF Settle
      <3>2. proc'[w].pc = "insert" /\ proc'[w].party = p /\ proc'[w].env = proc[w].env
        BY <1>0, <3>1, GotoType DEF Places
      <3> QED BY <1>1, <1>2, <2>1, <2>2, <3>1, <3>2, DebtStep
    <2> QED BY <2>3, <2>4
  <1>7. CASE Dispatch(w)
    <2>1. \A p \in Party : party'[p] = "SIGNED" => party[p] = "SIGNED"
      BY <1>0, <1>7, DispatchType DEF Dispatch
    <2>2. CASE PutBack(w, "SENT")
      BY <1>4, <2>1, <2>2
    <2>3. CASE UNCHANGED <<env, losses>>
      <3>1. proc[w].env # None => env[proc[w].env].vaulted
        BY <1>0, <1>7 DEF Dispatch, Knows, At
      <3> QED BY <1>1, <1>2, <2>1, <2>3, <3>1, DebtStep
    <2> QED BY <1>7, <2>2, <2>3 DEF Dispatch
  <1> QED BY <1>3, <1>5, <1>6, <1>7

LEMMA InsertDebt ==
    ASSUME IInv, IInv', EmptyHandsNeedFaults, NEW w \in Procs, Insert(w)
    PROVE  EmptyHandsNeedFaults'
  <1> DEFINE p == proc[w].party
             e == proc[w].env
  <1>0. /\ TypeOK /\ p \in Party /\ e \in Env \cup {None} /\ rows[p] = 0
        /\ Goto(w, "advance") /\ UNCHANGED losses /\ party' = party
        /\ rows' = [rows EXCEPT ![p] = rows[p] + 1]
        /\ env \in [Env -> Envelope]
    BY TypeParts DEF IInv, Knows, SigInv, Insert, At, Record
  <1>1. rows'[p] = 1 /\ \A q \in Party : q # p => rows'[q] = rows[q]
    BY <1>0 DEF TypeOK
  <1>2. \A d \in Env : env'[d].status = "COMPLETED" /\ ~env'[d].vaulted =>
            env[d].status = "COMPLETED" /\ ~env[d].vaulted
    BY <1>0 DEF Insert, Envelope
  <1>3. proc'[w].env = e /\ \A v \in Procs : v # w => proc'[v] = proc[v]
    BY <1>0, GotoType DEF Places
  <1> QED BY <1>0, <1>1, <1>2, <1>3, DebtStep

\* The steps that make an envelope or cancel it end in no envelope COMPLETED.
LEMMA MakeDebt ==
    ASSUME IInv, IInv', EmptyHandsNeedFaults, NEW w \in Procs,
           Handoff(w) \/ Create(w) \/ Charge(w) \/ CancelEnvelope(w)
    PROVE  EmptyHandsNeedFaults'
  <1>0. /\ TypeOK /\ Knows(w) /\ proc \in [Procs -> Record] /\ env \in [Env -> Envelope]
        /\ UNCHANGED chain /\ proc[w].pc # "insert"
        /\ faults \in Nat /\ faults' \in {faults, faults + 1} /\ orphaned' = orphaned
    BY TypeParts, ChainAssumption DEF IInv, Handoff, Create, Charge, CancelEnvelope, At, Fault,
                                      TypeOK
  <1>1. \A v \in Procs : v # w => proc'[v] = proc[v]
    BY <1>0 DEF Handoff, Create, Charge, CancelEnvelope, Begin, Goto, Return
  <1>2. \A d \in Env : env'[d].status = "COMPLETED" =>
            env[d].status = "COMPLETED" /\ env'[d].vaulted = env[d].vaulted
    <2>1. CASE Handoff(w)
      <3>1. UNCHANGED env \/ \E e \in Nat, p \in Party :
                env' = [env EXCEPT ![e].status = "CREATING", ![e].of = p]
        <4>1. proc[w].party \in Party
          BY <1>0, <2>1 DEF Handoff, Knows, At
        <4>2. CASE {d \in Env : env[d].status = "none"} = {}
          BY <2>1, <4>2 DEF Handoff
        <4>3. CASE {d \in Env : env[d].status = "none"} # {}
          <5>1. Min({d \in Env : env[d].status = "none"}) \in Nat
            BY <4>3, MinIn DEF Env
          <5> QED BY <2>1, <4>1, <5>1 DEF Handoff
        <4> QED BY <4>2, <4>3
      <3> QED BY <1>0, <3>1 DEF Envelope
    <2>2. CASE Create(w) \/ Charge(w)
      <3>1. \/ UNCHANGED env
            \/ env' = [env EXCEPT ![proc[w].env].status = "FAILED"]
            \/ env' = [env EXCEPT ![proc[w].env].status = "SENT", ![proc[w].env].charged = TRUE]
        BY <2>2 DEF Create, Charge
      <3> QED BY <1>0, <3>1 DEF Envelope
    <2>3. CASE CancelEnvelope(w)
      <3>1. PICK listed \in proc[w].todo :
                UNCHANGED env \/ TransitionEnvelope(listed[1], InFlight, "CANCELLED")
        BY <2>3 DEF CancelEnvelope
      <3>2. listed[1] \in Env
        BY <1>0, <3>1 DEF Record
      <3> QED BY <1>0, <3>1, <3>2, EnvelopeType DEF Ended
    <2> QED BY <2>1, <2>2, <2>3
  <1>3. proc[w].env # None => env'[proc[w].env].status # "COMPLETED"
    <2> SUFFICES ASSUME proc[w].env # None PROVE env'[proc[w].env].status # "COMPLETED"
      OBVIOUS
    <2>1. proc[w].pc \in {"create", "charge"}
      BY <1>0 DEF Handoff, Create, Charge, CancelEnvelope, At, Knows
    <2>2. proc[w].env \in Env /\ env[proc[w].env].status # "COMPLETED"
      BY <2>1, HeldEnvelope
    <2> QED BY <1>2, <2>2
  <1> QED BY <1>0, <1>1, <1>2, <1>3, DebtStep DEF chain

LEMMA FaultDebt ==
    ASSUME IInv, IInv', EmptyHandsNeedFaults, NEW w \in Procs, StepFails(w) \/ Die(w)
    PROVE  EmptyHandsNeedFaults'
  <1>0. /\ TypeOK /\ UNCHANGED chain /\ faults' = faults + 1
        /\ orphaned \subseteq orphaned' /\ proc[w].env \in Env \cup {None}
    BY FaultType, TypeParts DEF IInv, StepFails, Die, Record
  <1>1. \A v \in Procs : v # w => proc'[v] = proc[v]
    BY <1>0, ReturnType DEF StepFails, Die, PutBack
  <1>2. \A d \in Env : env'[d].status = "COMPLETED" /\ ~env'[d].vaulted =>
            env[d].status = "COMPLETED" /\ ~env[d].vaulted
    <2>1. CASE UNCHANGED env
      BY <2>1
    <2>2. CASE \E to \in {"SENT", "FAILED"} : PutBack(w, to)
      BY <1>0, <2>2, PutBackType
    <2> QED BY <2>1, <2>2 DEF StepFails, Die
  <1>3. proc[w].env # None =>
            env'[proc[w].env].status # "COMPLETED" \/ proc[w].env \in orphaned'
    <2>1. CASE Die(w)
      BY <1>0, <2>1 DEF Die
    <2>2. CASE \E to \in {"SENT", "FAILED"} : PutBack(w, to)
      BY <1>0, <2>2, PutBackType
    <2> QED BY <2>1, <2>2 DEF StepFails
  <1> QED BY <1>0, <1>1, <1>2, <1>3, DebtStep DEF chain

LEMMA WorldDebt ==
    ASSUME IInv, EmptyHandsNeedFaults,
           \/ SendNext \/ Edit \/ Expire \/ UNCHANGED vars
           \/ \E e \in Env : ProviderEnds(e) \/ PollUnconfirmed(e)
    PROVE  EmptyHandsNeedFaults'
  <1>0. TypeOK /\ UNCHANGED <<rows, proc, losses>>
    BY DEF IInv, SendNext, Edit, Expire, ProviderEnds, PollUnconfirmed, vars, chain
  <1>1. \A p \in Party : party'[p] = "SIGNED" => party[p] = "SIGNED"
    BY <1>0, DispatchType DEF SendNext, Edit, Expire, ProviderEnds, PollUnconfirmed, vars, chain
  <1>2. \A d \in Env : env'[d].status = "COMPLETED" =>
            env[d].status = "COMPLETED" /\ env'[d].vaulted = env[d].vaulted
    <2>1. ASSUME NEW e \in Env, PollUnconfirmed(e)
          PROVE  \A d \in Env : env'[d].status = "COMPLETED" =>
                     env[d].status = "COMPLETED" /\ env'[d].vaulted = env[d].vaulted
      BY <1>0, <2>1, EnvelopeType DEF PollUnconfirmed
    <2> QED BY <2>1 DEF SendNext, Edit, Expire, ProviderEnds, vars
  <1>3. Unwritten' \subseteq Unwritten /\ Hollow' \subseteq Hollow
    BY <1>0, <1>1, <1>2 DEF Unwritten, Hollow, At
  <1> QED BY <1>0, <1>3, NoNewDebt DEF EmptyHandsNeedFaults

\* No status means "we think it is signed": parties that count as signed without
\* a signature are no more than the steps that failed and the processes that died,
\* and every envelope COMPLETED without one, by itself, has lost its process
\* (completedEnvelope and its unclaim).
THEOREM EmptyHandsBounded == Spec => []EmptyHandsNeedFaults
  <1>1. Init => EmptyHandsNeedFaults
    <2> SUFFICES ASSUME Init PROVE EmptyHandsNeedFaults
      OBVIOUS
    <2>1. Unwritten = {} /\ Hollow = {}
      BY DEF Init, Unwritten, Hollow
    <2> QED BY <2>1, FS_EmptySet DEF Init, EmptyHandsNeedFaults
  <1>2. ASSUME IInv, IInv', EmptyHandsNeedFaults, [Next]_vars PROVE EmptyHandsNeedFaults'
    <2>1. CASE \/ SendNext \/ Edit \/ Expire \/ UNCHANGED vars
               \/ \E e \in Env : ProviderEnds(e) \/ PollUnconfirmed(e)
      BY <1>2, <2>1, WorldDebt
    <2>2. ASSUME NEW w \in Procs,
                 \/ \E p \in Party : Complete(w, p) \/ Decline(w, p)
                 \/ AskCertificate(w) \/ Void(w)
                 \/ Refuse(w) \/ Close(w) \/ CheckDecline(w) \/ Advance(w)
                 \/ Certify(w) \/ Render(w) \/ Cancelled(w)
          PROVE  EmptyHandsNeedFaults'
      BY <1>2, <2>2, WalkDebt
    <2>3. ASSUME NEW w \in Procs,
                 \/ \E e \in Env : Deliver(w, e)
                 \/ Unclaim(w) \/ CheckDocument(w) \/ Settle(w) \/ Dispatch(w)
          PROVE  EmptyHandsNeedFaults'
      BY <1>2, <2>3, ClaimDebt
    <2>4. ASSUME NEW w \in Procs, Insert(w) PROVE EmptyHandsNeedFaults'
      BY <1>2, <2>4, InsertDebt
    <2>5. ASSUME NEW w \in Procs,
                 Handoff(w) \/ Create(w) \/ Charge(w) \/ CancelEnvelope(w)
          PROVE  EmptyHandsNeedFaults'
      BY <1>2, <2>5, MakeDebt
    <2>6. ASSUME NEW w \in Procs, StepFails(w) \/ Die(w) PROVE EmptyHandsNeedFaults'
      BY <1>2, <2>6, FaultDebt
    <2> QED BY <1>2, <2>1, <2>2, <2>3, <2>4, <2>5, <2>6 DEF Next, Continue
  <1>3. Spec => [](IInv /\ EmptyHandsNeedFaults)
    BY <1>1, <1>2, InitIInv, NextIInv, PTL DEF Spec
  <1> QED BY <1>3, PTL
-----------------------------------------------------------------------------
(* Completion.  Nobody who has answered is asked again, and a process renders *)
(* a certificate only of a completed request, which stays completed.          *)

\* The part of CompletesOnceAnswered that holds of every state.
DoneWhenAnswered ==
    /\ request = "COMPLETED" => \A p \in Party : party[p] \notin Unsettled
    /\ certificate => request = "COMPLETED"

RenderInv == \A w \in Procs : At(w, "render") => request = "COMPLETED"

\* What every step but the completion itself preserves.
LEMMA DoneKept ==
    ASSUME IInv, DoneWhenAnswered, RenderInv,
           request = "COMPLETED" => request' = "COMPLETED",
           request' = "COMPLETED" => request = "COMPLETED",
           \A p \in Party : party[p] \notin Unsettled => party'[p] \notin Unsettled,
           certificate' => certificate \/ request = "COMPLETED",
           \A w \in Procs : At(w, "render")' => At(w, "render") \/ request = "COMPLETED"
    PROVE  DoneWhenAnswered' /\ RenderInv'
  BY DEF DoneWhenAnswered, RenderInv

LEMMA AskedOnce ==
    ASSUME TypeOK, {p \in Party : party[p] = "PENDING"} # {},
           party' = [party EXCEPT ![Min({p \in Party : party[p] = "PENDING"})] = "SENT"]
    PROVE  \A p \in Party : party[p] \notin Unsettled => party'[p] \notin Unsettled
  <1> DEFINE S == {p \in Party : party[p] = "PENDING"}
  <1>1. Min(S) \in S
    BY MinIn DEF Party
  <1> QED BY <1>1 DEF TypeOK, Unsettled

\* Only Certify sends a process to render.
LEMMA NotRendering ==
    ASSUME TypeOK, NEW w \in Procs, Return(w) \/ \E pc \in Places \ {"render"} : Goto(w, pc)
    PROVE  \A v \in Procs : At(v, "render")' => At(v, "render")
  <1>1. CASE Return(w)
    BY <1>1, TypeParts DEF Return, Idle, At
  <1>2. ASSUME NEW pc \in Places \ {"render"}, Goto(w, pc)
        PROVE  \A v \in Procs : At(v, "render")' => At(v, "render")
    BY <1>2, GotoType DEF At
  <1> QED BY <1>1, <1>2

LEMMA NextDone ==
    ASSUME IInv, DoneWhenAnswered, RenderInv, [Next]_vars
    PROVE  DoneWhenAnswered' /\ RenderInv'
  <1>t. TypeOK
    BY DEF IInv
  <1>p. proc \in [Procs -> Record]
    BY <1>t, TypeParts
  <1>1. CASE UNCHANGED vars
    BY <1>1, DoneKept DEF vars, chain, At
  <1>2. CASE SendNext
    BY <1>2, <1>t, AskedOnce, DoneKept DEF SendNext, TransitionRequest, Open, At
  <1>3. CASE Edit \/ Expire \/ \E e \in Env : ProviderEnds(e) \/ PollUnconfirmed(e)
    BY <1>3, DoneKept DEF Edit, Expire, ProviderEnds, PollUnconfirmed, chain, At
  <1>4. ASSUME NEW w \in Procs, NEW p \in Party, Complete(w, p) \/ Decline(w, p)
        PROVE  DoneWhenAnswered' /\ RenderInv'
    <2>1. /\ UNCHANGED <<party, certificate>>
          /\ request' = request \/ (request \in Open /\ request' = "AMENDED")
          /\ proc' = proc \/ \E pc \in {"settle", "handoff", "refuse"} : Begin(w, pc, p, None)
      BY <1>4 DEF Complete, Decline, OnAmendment, TransitionRequest, chain
    <2>2. \A v \in Procs : At(v, "render")' => At(v, "render")
      BY <1>p, <2>1 DEF Begin, At
    <2> QED BY <2>1, <2>2, DoneKept DEF Open
  <1>5. ASSUME NEW w \in Procs,
               (\E e \in Env : Deliver(w, e)) \/ AskCertificate(w) \/ Handoff(w)
        PROVE  DoneWhenAnswered' /\ RenderInv'
    <2>1. /\ UNCHANGED <<request, party, certificate>>
          /\ \/ proc' = proc \/ Return(w)
             \/ \E pc \in {"check", "certify", "create"} : \E q, e \in {0} \cup Nat \cup Party \cup Env :
                    Begin(w, pc, q, e)
             \/ \A v \in Procs : proc'[v].pc # "render" \/ proc'[v].pc = proc[v].pc
      BY <1>5, <1>p DEF Deliver, AskCertificate, Handoff, chain, Begin
    <2>2. \A v \in Procs : At(v, "render")' => At(v, "render")
      BY <1>p, <2>1 DEF Begin, Return, Idle, At
    <2> QED BY <2>1, <2>2, DoneKept
  <1>6. ASSUME NEW w \in Procs, Create(w) \/ Charge(w) \/ CancelEnvelope(w) \/ Cancelled(w)
        PROVE  DoneWhenAnswered' /\ RenderInv'
    <2>1. /\ UNCHANGED <<request, party, certificate>>
          /\ proc[w].pc # "render"
      BY <1>6 DEF Create, Charge, CancelEnvelope, Cancelled, chain, At
    <2>2. \A v \in Procs : At(v, "render")' => At(v, "render")
      <3>1. CASE CancelEnvelope(w)
        <4>1. \E S \in {proc'[w].todo} : proc' = [proc EXCEPT ![w].todo = S]
          BY <3>1, <1>p DEF CancelEnvelope, Record
        <4> QED BY <4>1, <1>p DEF At, Record
      <3>2. CASE Create(w) \/ Charge(w) \/ Cancelled(w)
        BY <3>2, <1>t, NotRendering DEF Create, Charge, Cancelled, Places
      <3> QED BY <1>6, <3>1, <3>2
    <2> QED BY <2>1, <2>2, DoneKept
  <1>7. ASSUME NEW w \in Procs, Refuse(w) \/ Close(w) \/ CheckDecline(w)
        PROVE  DoneWhenAnswered' /\ RenderInv'
    <2>1. /\ certificate' = certificate
          /\ request' = request \/ (request \in Open /\ request' = "DECLINED")
          /\ Return(w) \/ \E pc \in {"close", "refuse"} : Goto(w, pc)
      BY <1>7 DEF Refuse, Close, CheckDecline, TransitionRequest, chain
    <2>2. \A v \in Procs : At(v, "render")' => At(v, "render")
      BY <1>t, <2>1, NotRendering DEF Places
    <2>3. \A q \in Party : party[q] \notin Unsettled => party'[q] \notin Unsettled
      BY <1>7, <1>t DEF Refuse, Close, CheckDecline, SettleParty, chain, TypeOK, Unsettled
    <2> QED BY <2>1, <2>2, <2>3, DoneKept DEF Open
  <1>8. ASSUME NEW w \in Procs, Unclaim(w) \/ CheckDocument(w) \/ Settle(w) \/ Insert(w)
        PROVE  DoneWhenAnswered' /\ RenderInv'
    <2>1. /\ certificate' = certificate
          /\ request' = request \/ (request \in Open /\ request' = "AMENDED")
          /\ Return(w) \/ \E pc \in {"settle", "insert", "advance"} : Goto(w, pc)
      BY <1>8 DEF Unclaim, CheckDocument, Settle, Insert, OnAmendment, TransitionRequest, PutBack, chain
    <2>2. \A v \in Procs : At(v, "render")' => At(v, "render")
      BY <1>t, <2>1, NotRendering DEF Places
    <2>3. \A q \in Party : party[q] \notin Unsettled => party'[q] \notin Unsettled
      BY <1>8, <1>t DEF Unclaim, CheckDocument, Settle, Insert, SettleParty, chain, TypeOK, Unsettled
    <2> QED BY <2>1, <2>2, <2>3, DoneKept DEF Open
  <1>9. ASSUME NEW w \in Procs, Advance(w)
        PROVE  DoneWhenAnswered' /\ RenderInv'
    <2>1. /\ UNCHANGED <<party, certificate>>
          /\ Return(w) \/ \E pc \in {"certify", "dispatch"} : Goto(w, pc)
      BY <1>9 DEF Advance
    <2>2. \A v \in Procs : At(v, "render")' => At(v, "render")
      BY <1>t, <2>1, NotRendering DEF Places
    <2>3. /\ request = "COMPLETED" => request' = "COMPLETED"
          /\ request' = "COMPLETED" => request = "COMPLETED" \/ Remaining = {}
      BY <1>9 DEF Advance, TransitionRequest, Open
    <2> QED BY <2>1, <2>2, <2>3 DEF DoneWhenAnswered, RenderInv, Remaining
  <1>10. ASSUME NEW w \in Procs, Dispatch(w)
         PROVE  DoneWhenAnswered' /\ RenderInv'
    <2>1. UNCHANGED <<request, certificate>> /\ Return(w)
      BY <1>10 DEF Dispatch, PutBack
    <2>2. \A v \in Procs : At(v, "render")' => At(v, "render")
      BY <1>p, <2>1 DEF Return, Idle, At
    <2>3. \A q \in Party : party[q] \notin Unsettled => party'[q] \notin Unsettled
      BY <1>10, <1>t, AskedOnce DEF Dispatch
    <2> QED BY <2>1, <2>2, <2>3, DoneKept
  <1>11. ASSUME NEW w \in Procs, Certify(w) \/ Render(w)
         PROVE  DoneWhenAnswered' /\ RenderInv'
    <2>1. /\ UNCHANGED <<request, party>>
          /\ \/ Return(w) \/ (Goto(w, "render") /\ request = "COMPLETED")
          /\ certificate' => certificate \/ At(w, "render")
      BY <1>11 DEF Certify, Render, chain
    <2>2. \A v \in Procs : At(v, "render")' => At(v, "render") \/ request = "COMPLETED"
      BY <1>p, <2>1 DEF Goto, Return, Idle, At
    <2> QED BY <2>1, <2>2, DoneKept DEF RenderInv
  <1>12. ASSUME NEW w \in Procs, Void(w)
         PROVE  DoneWhenAnswered' /\ RenderInv'
    <2>1. /\ UNCHANGED <<party, certificate>> /\ request # "COMPLETED" /\ request' # "COMPLETED"
      BY <1>12 DEF Void, Open
    <2>2. \A v \in Procs : At(v, "render")' => At(v, "render")
      BY <1>12, <1>p DEF Void, Idle, At
    <2> QED BY <2>1, <2>2, DoneKept
  <1>13. ASSUME NEW w \in Procs, StepFails(w) \/ Die(w)
         PROVE  DoneWhenAnswered' /\ RenderInv'
    <2>1. UNCHANGED <<request, party, certificate>> /\ Return(w)
      BY <1>13 DEF StepFails, Die, PutBack, chain
    <2>2. \A v \in Procs : At(v, "render")' => At(v, "render")
      BY <1>p, <2>1 DEF Return, Idle, At
    <2> QED BY <2>1, <2>2, DoneKept
  <1> QED BY <1>1, <1>2, <1>3, <1>4, <1>5, <1>6, <1>7, <1>8, <1>9, <1>10, <1>11, <1>12, <1>13
          DEF Next, Continue

\* A request completes, and has its certificate, only when every party has
\* answered, however dispatch, decline, webhook and poll interleave and fail.
THEOREM AnsweredFirst == Spec => []DoneWhenAnswered
  <1>1. Init => DoneWhenAnswered /\ RenderInv
    BY DEF Init, Idle, At, DoneWhenAnswered, RenderInv
  <1>2. IInv /\ DoneWhenAnswered /\ RenderInv /\ [Next]_vars => DoneWhenAnswered' /\ RenderInv'
    BY NextDone
  <1> QED BY <1>1, <1>2, Invariance, PTL DEF Spec
-----------------------------------------------------------------------------
(* Nobody hangs. *)

\* A process that has settled a party and has yet to tell the request.
Telling(w) == proc[w].pc \in {"insert", "advance", "close"}

\* Everybody has answered, the request is still open, and nobody will tell it.
Hanging == Remaining = {} /\ request \in Open /\ ~\E w \in Procs : Telling(w)

\* The part of CompletesOnceAnswered's second half that holds of every state.
NobodyHangs == faults = 0 => ~Hanging

\* What every step preserves that takes no answer and ends no telling.
LEMMA HangKept ==
    ASSUME NobodyHangs,
           faults' = 0 => faults = 0,
           request' \in Open => request \in Open,
           \A p \in Party : party[p] \in Unsettled => party'[p] \in Unsettled,
           \A w \in Procs : Telling(w) => Telling(w)'
    PROVE  NobodyHangs'
  <1> SUFFICES ASSUME faults' = 0, Hanging'
               PROVE  FALSE
    BY DEF NobodyHangs
  <1>1. faults = 0 /\ request \in Open /\ ~\E w \in Procs : Telling(w)
    BY DEF Hanging
  <1>2. Remaining = {}
    BY DEF Hanging, Remaining
  <1> QED BY <1>1, <1>2 DEF NobodyHangs, Hanging

\* The request stays open or not, and the parties are let be, while one process
\* that was telling nothing moves.
LEMMA HangMove ==
    ASSUME TypeOK, NobodyHangs, NEW w \in Procs, ~Telling(w),
           UNCHANGED party, faults' = 0 => faults = 0,
           request' \in Open => request \in Open,
           \A v \in Procs : v # w => proc'[v] = proc[v]
    PROVE  NobodyHangs'
  <1>1. \A v \in Procs : Telling(v) => Telling(v)'
    BY DEF Telling
  <1> QED BY <1>1, HangKept

LEMMA AskedStays ==
    ASSUME TypeOK, {p \in Party : party[p] = "PENDING"} # {},
           party' = [party EXCEPT ![Min({p \in Party : party[p] = "PENDING"})] = "SENT"]
    PROVE  \A p \in Party : party[p] \in Unsettled => party'[p] \in Unsettled
  BY DEF TypeOK, Unsettled

\* The answer of a party is taken together with the duty to tell the request.
LEMMA AnswerTold ==
    ASSUME TypeOK, NobodyHangs, NEW w \in Procs, NEW to \in {"SIGNED", "DECLINED"},
           NEW pc \in {"insert", "close"}, ~Telling(w), proc[w].party \in Party,
           SettleParty(proc[w].party, to), UNCHANGED <<request, losses>>,
           IF party'[proc[w].party] # party[proc[w].party] THEN Goto(w, pc) ELSE Return(w)
    PROVE  NobodyHangs'
  <1> DEFINE p == proc[w].party
  <1>1. CASE party'[p] # party[p]
    <2>1. proc'[w].pc = pc
      BY <1>1, GotoType DEF Places
    <2> QED BY <2>1 DEF NobodyHangs, Hanging, Telling
  <1>2. CASE party'[p] = party[p]
    <2>1. party' = party
      BY <1>2 DEF SettleParty, TypeOK, Unsettled
    <2>2. \A v \in Procs : v # w => proc'[v] = proc[v]
      BY <1>2, TypeParts DEF Return
    <2> QED BY <2>1, <2>2, HangMove
  <1> QED BY <1>1, <1>2

LEMMA NextHang ==
    ASSUME IInv, NobodyHangs, [Next]_vars
    PROVE  NobodyHangs'
  <1>t. TypeOK
    BY DEF IInv
  <1>p. proc \in [Procs -> Record]
    BY <1>t, TypeParts
  <1>f. faults \in Nat
    BY <1>t DEF TypeOK
  <1>1. CASE UNCHANGED vars
    BY <1>1, HangKept DEF vars, chain, Telling
  <1>2. CASE SendNext
    <2>1. \A p \in Party : party[p] \in Unsettled => party'[p] \in Unsettled
      BY <1>2, <1>t, AskedStays DEF SendNext
    <2> QED BY <1>2, <2>1, HangKept DEF SendNext, Telling
  <1>3. CASE Edit \/ Expire \/ \E e \in Env : ProviderEnds(e) \/ PollUnconfirmed(e)
    <2>1. UNCHANGED <<party, proc, losses>> /\ (request' \in Open => request \in Open)
      BY <1>3 DEF Edit, Expire, ProviderEnds, PollUnconfirmed, chain, Open
    <2> QED BY <2>1, HangKept DEF Telling
  <1>4. ASSUME NEW w \in Procs,
               (\E p \in Party : Complete(w, p) \/ Decline(w, p)) \/ (\E e \in Env : Deliver(w, e))
               \/ AskCertificate(w) \/ Void(w)
        PROVE  NobodyHangs'
    <2>1. /\ UNCHANGED <<party, losses>> /\ proc[w].pc = "idle"
          /\ request' \in Open => request \in Open
      BY <1>4 DEF Complete, Decline, Deliver, AskCertificate, Void, OnAmendment,
                  TransitionRequest, chain, At, Open
    <2>2. \A v \in Procs : v # w => proc'[v] = proc[v]
      BY <1>4, <1>p DEF Complete, Decline, Deliver, AskCertificate, Void, Begin
    <2> QED BY <1>t, <2>1, <2>2, HangMove DEF Telling
  <1>5. ASSUME NEW w \in Procs,
               Handoff(w) \/ Create(w) \/ Charge(w) \/ CheckDecline(w) \/ Unclaim(w)
               \/ CheckDocument(w) \/ Certify(w) \/ Render(w)
        PROVE  NobodyHangs'
    <2>1. UNCHANGED party /\ ~Telling(w) /\ (request' \in Open => request \in Open)
      BY <1>5 DEF Handoff, Create, Charge, CheckDecline, Unclaim, CheckDocument, Certify, Render,
                  OnAmendment, TransitionRequest, chain, At, Telling
    <2>2. faults' = 0 => faults = 0
      <3>1. faults' \in {faults, faults + 1}
        <4>1. CASE Handoff(w) \/ CheckDecline(w) \/ Unclaim(w) \/ Certify(w) \/ Render(w)
          BY <4>1 DEF Handoff, CheckDecline, Unclaim, Certify, Render
        <4>2. CASE Create(w)
          BY <4>2 DEF Create, Fault
        <4>3. CASE Charge(w)
          BY <4>3 DEF Charge
        <4>4. CASE CheckDocument(w)
          BY <4>4 DEF CheckDocument, Fault
        <4> QED BY <1>5, <4>1, <4>2, <4>3, <4>4
      <3> QED BY <3>1, <1>f
    <2>3. \A v \in Procs : v # w => proc'[v] = proc[v]
      BY <1>5, <1>p DEF Handoff, Create, Charge, CheckDecline, Unclaim, CheckDocument, Certify,
                        Render, Goto, Return, Begin
    <2> QED BY <1>t, <2>1, <2>2, <2>3, HangMove
  <1>6. ASSUME NEW w \in Procs, CancelEnvelope(w) \/ Cancelled(w)
        PROVE  NobodyHangs'
    <2>1. UNCHANGED <<request, party>> /\ ~Telling(w)
      BY <1>6 DEF CancelEnvelope, Cancelled, chain, At, Telling
    <2>2. faults' = 0 => faults = 0
      BY <1>6, <1>f DEF CancelEnvelope, Cancelled, Fault
    <2>3. \A v \in Procs : v # w => proc'[v] = proc[v]
      BY <1>6, <1>p DEF CancelEnvelope, Cancelled, Return
    <2> QED BY <1>t, <2>1, <2>2, <2>3, HangMove
  <1>7. ASSUME NEW w \in Procs, Refuse(w) \/ Settle(w)
        PROVE  NobodyHangs'
    <2>1. ~Telling(w) /\ proc[w].party \in Party
      BY <1>7 DEF Refuse, Settle, At, Telling, IInv, Knows
    <2>2. CASE Refuse(w)
      BY <2>1, <2>2, <1>t, AnswerTold DEF Refuse
    <2>3. CASE Settle(w)
      BY <2>1, <2>3, <1>t, AnswerTold DEF Settle, PutBack
    <2> QED BY <1>7, <2>2, <2>3
  <1>8. ASSUME NEW w \in Procs, Insert(w)
        PROVE  NobodyHangs'
    <2>1. /\ proc'[w].pc = "advance" /\ \A v \in Procs : v # w => proc'[v] = proc[v]
          /\ UNCHANGED <<request, party, losses>>
      BY <1>8, <1>t, GotoType DEF Insert, Places
    <2> QED BY <2>1, HangKept DEF Telling
  <1>9. ASSUME NEW w \in Procs, Advance(w)
        PROVE  NobodyHangs'
    <2>1. CASE Remaining = {}
      BY <1>9, <2>1 DEF Advance, TransitionRequest, Open, NobodyHangs, Hanging
    <2>2. CASE Remaining # {}
      BY <1>9, <2>2 DEF Advance, NobodyHangs, Hanging, Remaining
    <2> QED BY <2>1, <2>2
  <1>10. ASSUME NEW w \in Procs, Close(w)
         PROVE  NobodyHangs'
    BY <1>10 DEF Close, TransitionRequest, Open, NobodyHangs, Hanging
  <1>11. ASSUME NEW w \in Procs, Dispatch(w)
         PROVE  NobodyHangs'
    <2>1. UNCHANGED request /\ proc[w].pc = "dispatch" /\ Return(w)
      BY <1>11 DEF Dispatch, PutBack, At
    <2>2. faults' = 0 => faults = 0
      BY <1>11, <1>f DEF Dispatch, Fault
    <2>3. \A p \in Party : party[p] \in Unsettled => party'[p] \in Unsettled
      BY <1>11, <1>t, AskedStays DEF Dispatch
    <2>4. \A v \in Procs : Telling(v) => Telling(v)'
      BY <2>1, <1>p DEF Return, Telling
    <2> QED BY <2>1, <2>2, <2>3, <2>4, HangKept
  <1>12. ASSUME NEW w \in Procs, StepFails(w) \/ Die(w)
         PROVE  NobodyHangs'
    <2>1. faults' = faults + 1
      BY <1>12 DEF StepFails, Die, Fault
    <2> QED BY <2>1, <1>f DEF NobodyHangs
  <1> QED BY <1>1, <1>2, <1>3, <1>4, <1>5, <1>6, <1>7, <1>8, <1>9, <1>10, <1>11, <1>12
          DEF Next, Continue

\* While no step has failed, a request that everybody has answered has closed, or
\* a process is on its way to close it: of webhook, poll, code and decline, whoever
\* takes the last answer is bound to tell the request, whatever the others do.
THEOREM NobodyLeftHanging == Spec => []NobodyHangs
  <1>1. Init => NobodyHangs
    <2> SUFFICES ASSUME Init
                 PROVE  1 \in Remaining
      BY DEF NobodyHangs, Hanging
    <2> QED BY ChainAssumption DEF Init, Remaining, Party, Unsettled
  <1>2. IInv /\ NobodyHangs /\ [Next]_vars => NobodyHangs'
    BY NextHang
  <1> QED BY <1>1, <1>2, Invariance, PTL DEF Spec
=============================================================================
