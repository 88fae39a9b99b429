-------------------------------- MODULE Gate --------------------------------
(***************************************************************************)
(* What stands between a request and its handler: the signature check of   *)
(* the write routes (aiter-server/src/auth.rs, aiter-core/src/signing.rs)  *)
(* and the two tiers of rate limiting (aiter-server/src/rate_limit.rs),    *)
(* stacked as router() in aiter-server/src/lib.rs stacks them.             *)
(*                                                                         *)
(* A request is a task that gives up control at each await: before the     *)
(* registry's lock, before its body has arrived and before the limiter's   *)
(* lock.  In between, the clock moves, agents are registered and other     *)
(* requests are served; a client that hangs up drops the task.             *)
(***************************************************************************)
EXTENDS Integers, Sequences, Store

CONSTANTS
  Requests,    \* the requests that reach the router
  Agents,      \* agent ids
  SigningKeys, \* key pairs of agents
  Unsigned,    \* stands for a signature that fits no key or another request
  DemoAgent,   \* the agent AppState::new registers
  DemoKey,
  Clients,     \* addresses read requests come from
  WriteLimit,  \* RATE_LIMIT_WRITES_PER_MIN
  ReadLimit,   \* RATE_LIMIT_READS_PER_MIN
  Window,      \* WINDOW_SECS
  MaxAge,      \* MAX_SIGNATURE_AGE_SECS
  MaxClock     \* bound: the last second of a behaviour

ASSUME GateAssumption ==
  /\ DemoAgent \in Agents
  /\ DemoKey \in SigningKeys
  /\ Unsigned \notin SigningKeys
  /\ WriteLimit \in Nat
  /\ ReadLimit \in Nat
  /\ Window \in Nat \ {0}
  /\ MaxAge \in Nat
  /\ MaxClock \in Nat

VARIABLES
  clock,    \* now_secs()
  registry, \* AppState::agents: agent id -> key of its identity
  tasks,    \* where each request is, with what its future holds
  windows,  \* both limiters: key -> current window
  held,     \* history: the keys each agent was ever registered with
  admitted  \* history: when each limiter key was let through, in order

vars == <<clock, registry, tasks, windows, held, admitted>>

WriteKeys == {"w"} \X Agents
LimiterKeys == WriteKeys \cup ({"r"} \X Clients)

\* What an x-request-signature header says, and the key it was made with.
Envelope == [agent_id : Agents, signer : SigningKeys \cup {Unsigned}]

\* A request that was answered 401 or 403, or was hung up on, is over.
Task ==
       [at : {"idle", "over", "throttled", "handled"}]
  \cup [at : {"registry"}, agent : Agents, signature : Envelope]
  \cup [at : {"body"}, agent : Agents, signature : Envelope, identity : SigningKeys]
  \cup [at : {"limiter"}, key : LimiterKeys, now : 0 .. MaxClock,
        signer : SigningKeys \cup {Unsigned}]

Move(r, task) == tasks' = [tasks EXCEPT ![r] = task]
-----------------------------------------------------------------------------
(* The signature check                                                     *)

Init ==
  /\ clock = 0
  /\ registry = Put(EmptyStore, DemoAgent, DemoKey)
  /\ tasks = [r \in Requests |-> [at |-> "idle"]]
  /\ windows = EmptyStore
  /\ held = [a \in Agents |-> IF a = DemoAgent THEN {DemoKey} ELSE {}]
  /\ admitted = [k \in LimiterKeys |-> << >>]

\* abs_diff within MAX_SIGNATURE_AGE_SECS
Fresh(timestamp, now) ==
  now - timestamp \in -MaxAge .. MaxAge

\* require_signed up to the registry's lock: the headers name an agent and a
\* signature that is fresh.
ReceiveWrite(r, agent, signature, timestamp) ==
  /\ tasks[r].at = "idle"
  /\ Fresh(timestamp, clock)
  /\ Move(r, [at |-> "registry", agent |-> agent, signature |-> signature])
  /\ UNCHANGED <<clock, registry, windows, held, admitted>>

\* 401: a header is missing or malformed, or the signature is not fresh.
RefuseHeaders(r) ==
  /\ tasks[r].at = "idle"
  /\ Move(r, [at |-> "over"])
  /\ UNCHANGED <<clock, registry, windows, held, admitted>>

\* The identity is copied under the lock, which is then given up.
FindAgent(r) ==
  /\ tasks[r].at = "registry"
  /\ Has(registry, tasks[r].agent)
  /\ Move(r, [at |-> "body", agent |-> tasks[r].agent,
              signature |-> tasks[r].signature,
              identity |-> registry[tasks[r].agent]])
  /\ UNCHANGED <<clock, registry, windows, held, admitted>>

\* 403: the agent is not registered.
UnknownAgent(r) ==
  /\ tasks[r].at = "registry"
  /\ ~Has(registry, tasks[r].agent)
  /\ Move(r, [at |-> "over"])
  /\ UNCHANGED <<clock, registry, windows, held, admitted>>

\* Mutant: the signature is not checked against the agent's key.
VerifiesEnvelope(task) == task.signature.agent_id = task.agent

\* verify_request, once the body has arrived
Verifies(task) ==
  /\ task.signature.agent_id = task.agent
  /\ task.signature.signer = task.identity

\* The request is tagged as VerifiedAgent; limit_writes takes the time and
\* goes for the limiter's lock.
VerifyBody(r) ==
  /\ tasks[r].at = "body"
  /\ Verifies(tasks[r])
  /\ Move(r, [at |-> "limiter", key |-> <<"w", tasks[r].agent>>, now |-> clock,
              signer |-> tasks[r].signature.signer])
  /\ UNCHANGED <<clock, registry, windows, held, admitted>>

\* 401: the signature does not verify, or the body cannot be read or is too
\* long.
RefuseBody(r) ==
  /\ tasks[r].at = "body"
  /\ Move(r, [at |-> "over"])
  /\ UNCHANGED <<clock, registry, windows, held, admitted>>
-----------------------------------------------------------------------------
(* The limiters                                                            *)

\* limit_reads takes the time and goes for the limiter's lock.
ReceiveRead(r, client) ==
  /\ tasks[r].at = "idle"
  /\ Move(r, [at |-> "limiter", key |-> <<"r", client>>, now |-> clock,
              signer |-> Unsigned])
  /\ UNCHANGED <<clock, registry, windows, held, admitted>>

Limit(key) == IF key \in WriteKeys THEN WriteLimit ELSE ReadLimit

\* Mutants: every new second opens a window; a window ends one second late.
OverEachSecond(key, now) == now > windows[key].start
OverLate(key, now) == now > windows[key].start + Window

Over(key, now) == now >= windows[key].start + Window

\* The window a hit at time now falls in, before it is counted.
WindowAt(key, now) ==
  IF Has(windows, key) /\ ~Over(key, now)
    THEN windows[key]
    ELSE [start |-> now, hits |-> 0]

\* Mutant: one request beyond the limit is let through.
OneMoreWithin(key, hits) == hits <= Limit(key) + 1

WithinQuota(key, hits) == hits <= Limit(key)

\* RateLimiter::check, its lock taken, and the answer 429 or the handler.
Count(r) ==
  /\ tasks[r].at = "limiter"
  /\ LET key  == tasks[r].key
         open == WindowAt(key, tasks[r].now)
         hits == open.hits + 1
     IN /\ windows' = Put(windows, key, [start |-> open.start, hits |-> hits])
        /\ \/ /\ WithinQuota(key, hits)
              /\ Move(r, [at |-> "handled"])
              /\ admitted' = [admitted EXCEPT ![key] = Append(@, clock)]
           \/ /\ ~WithinQuota(key, hits)
              /\ Move(r, [at |-> "throttled"])
              /\ UNCHANGED admitted
  /\ UNCHANGED <<clock, registry, held>>
-----------------------------------------------------------------------------
(* What happens in between                                                 *)

\* The client hangs up; the task is dropped where it waits.
HangUp(r) ==
  /\ tasks[r].at \in {"registry", "body", "limiter"}
  /\ Move(r, [at |-> "over"])
  /\ UNCHANGED <<clock, registry, windows, held, admitted>>

\* register_agent, for a new agent or one that has another key by now
Register(agent, key) ==
  /\ registry' = Put(registry, agent, key)
  /\ held' = [held EXCEPT ![agent] = @ \cup {key}]
  /\ UNCHANGED <<clock, tasks, windows, admitted>>

Tick ==
  /\ clock < MaxClock
  /\ clock' = clock + 1
  /\ UNCHANGED <<registry, tasks, windows, held, admitted>>

Serve(r) ==
  \/ \E agent \in Agents, signature \in Envelope, timestamp \in 0 .. MaxClock :
       ReceiveWrite(r, agent, signature, timestamp)
  \/ \E client \in Clients : ReceiveRead(r, client)
  \/ RefuseHeaders(r)
  \/ FindAgent(r)
  \/ UnknownAgent(r)
  \/ VerifyBody(r)
  \/ RefuseBody(r)
  \/ Count(r)
  \/ HangUp(r)

Next ==
  \/ \E r \in Requests : Serve(r)
  \/ \E agent \in Agents, key \in SigningKeys : Register(agent, key)
  \/ Tick

Spec == Init /\ [][Next]_vars
-----------------------------------------------------------------------------
(* Properties                                                              *)

\* Every variable stays in its type.
TypeOK ==
  /\ clock \in 0 .. MaxClock
  /\ DOMAIN registry \subseteq Agents
  /\ \A a \in DOMAIN registry : registry[a] \in SigningKeys
  /\ tasks \in [Requests -> Task]
  /\ DOMAIN windows \subseteq LimiterKeys
  /\ \A k \in DOMAIN windows : windows[k] \in [start : 0 .. MaxClock, hits : Nat]
  /\ held \in [Agents -> SUBSET SigningKeys]
  /\ admitted \in [LimiterKeys -> Seq(0 .. MaxClock)]

\* Over any stretch from the start, no agent and no client has more requests
\* handled than its limit for each window that fits in, and one more: hits
\* counted late, under a time read before the lock was free, open no extra
\* window.
LongRunRate ==
  \A k \in LimiterKeys : Len(admitted[k]) <= Limit(k) * (clock \div Window + 1)

\* A request is throttled only if the full quota of its own agent or client
\* was let through less than a window before it asked: the limiter owes
\* nothing to windows long gone or to other callers.
Throttles(r) == tasks[r].at = "limiter" /\ tasks[r]'.at = "throttled"
SpentSince(k, time) ==
  LET n == Len(admitted[k])
  IN Limit(k) > 0 =>
       /\ n >= Limit(k)
       /\ admitted[k][n - Limit(k) + 1] > time
ThrottledWithCause ==
  [][\A r \in Requests :
       Throttles(r) => SpentSince(tasks[r].key, tasks[r].now - Window)]_vars

\* An agent's quota is spent only by requests signed with a key the agent was
\* registered with ("unsigned garbage never burns a real quota", module
\* documentation of lib.rs), though the key may be another by now.
Spends(r, k) == tasks[r].at = "limiter" /\ tasks[r].key = k /\ tasks[r]' # tasks[r]
QuotaSpentByItsAgent ==
  [][\A k \in WriteKeys :
       (k \in DOMAIN windows' /\ (k \in DOMAIN windows => windows'[k] # windows[k]))
         => \E r \in Requests : Spends(r, k) /\ tasks[r].signer \in held[k[2]]]_vars
-----------------------------------------------------------------------------
(* The inductive invariant                                                 *)

\* What the future of a request holds was true when it was stored: a key read
\* from the registry is one the agent was registered with, and a write that
\* waits for the limiter was signed with such a key.
TasksTrusted ==
  /\ \A a \in DOMAIN registry : registry[a] \in held[a]
  /\ \A r \in Requests :
       /\ tasks[r].at = "body" => tasks[r].identity \in held[tasks[r].agent]
       /\ tasks[r].at = "limiter" /\ tasks[r].key \in WriteKeys
            => tasks[r].signer \in held[tasks[r].key[2]]
       /\ tasks[r].at = "limiter" => tasks[r].now <= clock

\* The window of a limiter key began at a time the clock has reached; its hits
\* beyond the limit were throttled, the others are the latest entries of
\* `admitted`, made since it began; and the earlier ones fill the windows that
\* fitted in before it.
WindowOK(k) ==
  LET start == windows[k].start
      used  == IF WithinQuota(k, windows[k].hits) THEN windows[k].hits ELSE Limit(k)
      n     == Len(admitted[k])
  IN /\ start <= clock
     /\ used <= n
     /\ n - used <= Limit(k) * (start \div Window)
     /\ \A i \in n - used + 1 .. n : admitted[k][i] >= start

IInv ==
  /\ TypeOK
  /\ TasksTrusted
  /\ \A k \in DOMAIN windows : WindowOK(k)
  /\ \A k \in LimiterKeys \ DOMAIN windows : admitted[k] = << >>
=============================================================================
