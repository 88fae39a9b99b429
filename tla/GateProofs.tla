----------------------------- MODULE GateProofs -----------------------------
(***************************************************************************)
(* Safety of the gate for every value of the constants.                    *)
(***************************************************************************)
EXTENDS Gate, TLAPS

-----------------------------------------------------------------------------
(* Arithmetic of windows                                                   *)

\* The number of whole windows in a time grows with the time.
LEMMA WindowsGrow ==
  ASSUME NEW s \in Nat, NEW t \in Nat, s <= t
  PROVE  /\ s \div Window \in Nat /\ t \div Window \in Nat
         /\ s \div Window <= t \div Window
  BY GateAssumption

\* A window later, one more has passed.
LEMMA OneMoreWindow ==
  ASSUME NEW s \in Nat, NEW t \in Nat, t >= s + Window
  PROVE  s \div Window + 1 <= t \div Window
  BY GateAssumption

\* A quota multiplied by more windows is no smaller.
LEMMA QuotaGrows ==
  ASSUME NEW limit \in Nat, NEW m \in Nat, NEW n \in Nat, m <= n
  PROVE  limit * m \in Nat /\ limit * n \in Nat /\ limit * m <= limit * n
  OBVIOUS

\* One more window is worth one more quota.
LEMMA QuotaOfOneMore ==
  ASSUME NEW limit \in Nat, NEW m \in Nat
  PROVE  limit * (m + 1) = limit * m + limit
  OBVIOUS

\* Quotas are natural numbers.
LEMMA LimitType ==
  ASSUME NEW k \in LimiterKeys
  PROVE  Limit(k) \in Nat
  BY GateAssumption DEF Limit
-----------------------------------------------------------------------------
(* Types                                                                   *)

\* What the future of a request holds at each stage.
LEMMA TaskFields ==
  ASSUME NEW task \in Task
  PROVE  /\ task.at = "registry" => task.agent \in Agents /\ task.signature \in Envelope
         /\ task.at = "body" =>
              /\ task.agent \in Agents /\ task.signature \in Envelope
              /\ task.identity \in SigningKeys
         /\ task.at = "limiter" =>
              /\ task.key \in LimiterKeys /\ task.now \in 0 .. MaxClock
              /\ task.signer \in SigningKeys \cup {Unsigned}
  BY DEF Task

\* Taking the place of one task with a task keeps the table of tasks typed.
LEMMA MoveType ==
  ASSUME tasks \in [Requests -> Task], NEW r \in Requests, NEW task \in Task,
         Move(r, task)
  PROVE  /\ tasks' \in [Requests -> Task]
         /\ tasks'[r] = task
         /\ \A q \in Requests \ {r} : tasks'[q] = tasks[q]
  BY DEF Move

\* The steps of a request that concern no window.
Passes(r) ==
  \/ \E agent \in Agents, signature \in Envelope, timestamp \in 0 .. MaxClock :
       ReceiveWrite(r, agent, signature, timestamp)
  \/ \E client \in Clients : ReceiveRead(r, client)
  \/ RefuseHeaders(r)
  \/ FindAgent(r)
  \/ UnknownAgent(r)
  \/ VerifyBody(r)
  \/ RefuseBody(r)
  \/ HangUp(r)

\* The steps of the gate: those, the limiter's, and what happens in between.
LEMMA NextCases ==
  Next <=> \/ \E r \in Requests : Passes(r)
           \/ \E r \in Requests : Count(r)
           \/ \E agent \in Agents, key \in SigningKeys : Register(agent, key)
           \/ Tick
  BY DEF Next, Serve, Passes

\* They change no more than their own task.
LEMMA PassesUnchanged ==
  ASSUME NEW r \in Requests, Passes(r)
  PROVE  UNCHANGED <<clock, registry, windows, held, admitted>>
  BY DEF Passes, ReceiveWrite, ReceiveRead, RefuseHeaders, FindAgent, UnknownAgent,
     VerifyBody, RefuseBody, HangUp

\* What such a step stores is a task, and one that can be trusted.
LEMMA PassesTask ==
  ASSUME TypeOK, TasksTrusted, NEW r \in Requests, Passes(r)
  PROVE  \E task \in Task :
           /\ Move(r, task)
           /\ task.at = "body" => task.identity \in held[task.agent]
           /\ task.at = "limiter" /\ task.key \in WriteKeys
                => task.signer \in held[task.key[2]]
           /\ task.at = "limiter" => task.now <= clock
  <1> DEFINE over == [at |-> "over"]
             Good(task) ==
               /\ task \in Task
               /\ Move(r, task)
               /\ task.at = "body" => task.identity \in held[task.agent]
               /\ task.at = "limiter" /\ task.key \in WriteKeys
                    => task.signer \in held[task.key[2]]
               /\ task.at = "limiter" => task.now <= clock
  <1> SUFFICES \E task : Good(task)
    OBVIOUS
  <1>0. tasks[r] \in Task /\ clock \in 0 .. MaxClock
    BY DEF TypeOK
  <1>1. ASSUME Move(r, over) PROVE Good(over)
    BY <1>1 DEF Task
  <1>2. ASSUME NEW agent \in Agents, NEW signature \in Envelope, NEW timestamp,
               ReceiveWrite(r, agent, signature, timestamp)
        PROVE  Good([at |-> "registry", agent |-> agent, signature |-> signature])
    BY <1>2 DEF ReceiveWrite, Task
  <1>3. ASSUME NEW client \in Clients, ReceiveRead(r, client)
        PROVE  Good([at |-> "limiter", key |-> <<"r", client>>, now |-> clock,
                     signer |-> Unsigned])
    <2>1. <<"r", client>> \in LimiterKeys /\ <<"r", client>> \notin WriteKeys
      BY DEF LimiterKeys, WriteKeys
    <2> QED BY <1>0, <1>3, <2>1 DEF ReceiveRead, Task
  <1>4. ASSUME FindAgent(r)
        PROVE  Good([at |-> "body", agent |-> tasks[r].agent,
                     signature |-> tasks[r].signature,
                     identity |-> registry[tasks[r].agent]])
    <2>1. tasks[r].agent \in Agents /\ tasks[r].signature \in Envelope
      BY <1>0, <1>4, TaskFields DEF FindAgent
    <2>2. /\ registry[tasks[r].agent] \in SigningKeys
          /\ registry[tasks[r].agent] \in held[tasks[r].agent]
      BY <1>4 DEF FindAgent, Has, TypeOK, TasksTrusted
    <2> QED BY <1>4, <2>1, <2>2 DEF FindAgent, Task
  <1>5. ASSUME VerifyBody(r)
        PROVE  Good([at |-> "limiter", key |-> <<"w", tasks[r].agent>>, now |-> clock,
                     signer |-> tasks[r].signature.signer])
    <2>1. /\ tasks[r].agent \in Agents /\ tasks[r].signature \in Envelope
          /\ tasks[r].at = "body"
      BY <1>0, <1>5, TaskFields DEF VerifyBody
    <2>2. /\ <<"w", tasks[r].agent>> \in LimiterKeys
          /\ <<"w", tasks[r].agent>>[2] = tasks[r].agent
      BY <2>1 DEF LimiterKeys, WriteKeys
    <2>3. tasks[r].signature.signer \in held[tasks[r].agent]
      BY <1>5, <2>1 DEF VerifyBody, Verifies, TasksTrusted
    <2>4. tasks[r].signature.signer \in SigningKeys \cup {Unsigned}
      BY <2>1 DEF Envelope
    <2> QED BY <1>0, <1>5, <2>2, <2>3, <2>4 DEF VerifyBody, Task
  <1> QED
    BY <1>1, <1>2, <1>3, <1>4, <1>5
    DEF Passes, RefuseHeaders, UnknownAgent, RefuseBody, HangUp
-----------------------------------------------------------------------------
(* The limiter                                                             *)

\* The window a hit falls in is a window.
LEMMA WindowAtType ==
  ASSUME TypeOK, NEW k \in LimiterKeys, NEW now \in 0 .. MaxClock
  PROVE  WindowAt(k, now) \in [start : 0 .. MaxClock, hits : Nat]
  BY DEF WindowAt, Has, TypeOK

\* The window a request is counted in, once it is counted.
Counted(r) ==
  LET open == WindowAt(tasks[r].key, tasks[r].now)
  IN [start |-> open.start, hits |-> open.hits + 1]

Admits(r) == WithinQuota(tasks[r].key, Counted(r).hits)

\* What counting a request does.
LEMMA CountEffect ==
  ASSUME NEW r \in Requests, Count(r)
  PROVE  /\ tasks[r].at = "limiter"
         /\ windows' = Put(windows, tasks[r].key, Counted(r))
         /\ \/ /\ Admits(r)
               /\ Move(r, [at |-> "handled"])
               /\ admitted' = [admitted EXCEPT ![tasks[r].key] = Append(@, clock)]
            \/ /\ ~Admits(r)
               /\ Move(r, [at |-> "throttled"])
               /\ admitted' = admitted
         /\ UNCHANGED <<clock, registry, held>>
  BY DEF Count, Counted, Admits

\* Counting keeps types and ends the request.
LEMMA CountType ==
  ASSUME TypeOK, NEW r \in Requests, Count(r)
  PROVE  /\ TypeOK'
         /\ tasks'[r].at \in {"handled", "throttled"}
         /\ \A q \in Requests \ {r} : tasks'[q] = tasks[q]
  <1>1. tasks[r].key \in LimiterKeys /\ tasks[r].now \in 0 .. MaxClock
    BY TaskFields, CountEffect DEF TypeOK
  <1>2. Counted(r) \in [start : 0 .. MaxClock, hits : Nat]
    BY <1>1, WindowAtType DEF Counted
  <1>3. windows' = Put(windows, tasks[r].key, Counted(r))
    BY CountEffect
  <1>4. \E at \in {"handled", "throttled"} : Move(r, [at |-> at])
    BY CountEffect
  <1>5. \A at \in {"handled", "throttled"} : [at |-> at] \in Task
    BY DEF Task
  <1>6. admitted' \in [LimiterKeys -> Seq(0 .. MaxClock)]
    <2>1. admitted \in [LimiterKeys -> Seq(0 .. MaxClock)] /\ clock \in 0 .. MaxClock
      BY DEF TypeOK
    <2>2. Append(admitted[tasks[r].key], clock) \in Seq(0 .. MaxClock)
      BY <1>1, <2>1
    <2> QED BY <2>1, <2>2, CountEffect
  <1>7. /\ DOMAIN windows' \subseteq LimiterKeys
        /\ \A k \in DOMAIN windows' : windows'[k] \in [start : 0 .. MaxClock, hits : Nat]
    BY <1>1, <1>2, <1>3 DEF Put, TypeOK
  <1>8. UNCHANGED <<clock, registry, held>>
    BY CountEffect
  <1>9. tasks \in [Requests -> Task]
    BY DEF TypeOK
  <1>10. /\ tasks' \in [Requests -> Task]
         /\ tasks'[r].at \in {"handled", "throttled"}
         /\ \A q \in Requests \ {r} : tasks'[q] = tasks[q]
    BY <1>4, <1>5, <1>9, MoveType
  <1> QED BY <1>6, <1>7, <1>8, <1>10 DEF TypeOK
-----------------------------------------------------------------------------
(* Windows                                                                 *)

\* How many of the hits of a window were let through.
Used(limit, hits) == IF hits <= limit THEN hits ELSE limit

\* WindowOK of a window that began at `start`, given what was admitted by now.
Fits(limit, start, hits, times, now) ==
  /\ start <= now
  /\ Used(limit, hits) <= Len(times)
  /\ Len(times) - Used(limit, hits) <= limit * (start \div Window)
  /\ \A i \in Len(times) - Used(limit, hits) + 1 .. Len(times) : times[i] >= start

\* The two say the same.
LEMMA WindowOKFits ==
  ASSUME NEW k
  PROVE  WindowOK(k) <=>
           Fits(Limit(k), windows[k].start, windows[k].hits, admitted[k], clock)
  BY DEF WindowOK, Fits, Used, WithinQuota

\* A hit in a window that is open.
LEMMA HitFits ==
  ASSUME NEW limit \in Nat, NEW start \in Nat, NEW hits \in Nat, NEW now \in Nat,
         NEW times \in Seq(Nat), Fits(limit, start, hits, times, now)
  PROVE  IF hits + 1 <= limit
           THEN Fits(limit, start, hits + 1, Append(times, now), now)
           ELSE Fits(limit, start, hits + 1, times, now)
  <1>1. CASE hits + 1 <= limit
    <2>1. Used(limit, hits) = hits /\ Used(limit, hits + 1) = hits + 1
      BY <1>1 DEF Used
    <2>2. /\ Len(Append(times, now)) = Len(times) + 1
          /\ Append(times, now)[Len(times) + 1] = now
          /\ \A i \in 1 .. Len(times) : Append(times, now)[i] = times[i]
      OBVIOUS
    <2>3. ASSUME NEW i \in Len(times) - hits + 1 .. Len(times) + 1
          PROVE  Append(times, now)[i] >= start
      BY <2>1, <2>2, <2>3 DEF Fits
    <2>4. /\ start <= now /\ hits <= Len(times)
          /\ Len(times) - hits <= limit * (start \div Window)
      BY <2>1 DEF Fits
    <2>5. (Len(times) + 1) - (hits + 1) = Len(times) - hits
      OBVIOUS
    <2>6. hits + 1 <= Len(times) + 1
      BY <2>4
    <2>7. Fits(limit, start, hits + 1, Append(times, now), now)
      BY <2>1, <2>2, <2>3, <2>4, <2>5, <2>6 DEF Fits
    <2> QED BY <1>1, <2>7
  <1>2. CASE ~(hits + 1 <= limit)
    <2>1. Used(limit, hits) = limit /\ Used(limit, hits + 1) = limit
      BY <1>2 DEF Used
    <2> QED BY <1>2, <2>1 DEF Fits
  <1> QED BY <1>1, <1>2

\* The first hit of a window, when all before it fills the earlier windows.
LEMMA FirstHitFits ==
  ASSUME NEW limit \in Nat, NEW start \in Nat, NEW now \in Nat, start <= now,
         NEW times \in Seq(Nat), Len(times) <= limit * (start \div Window)
  PROVE  IF 1 <= limit
           THEN Fits(limit, start, 1, Append(times, now), now)
           ELSE Fits(limit, start, 1, times, now)
  <1>1. CASE 1 <= limit
    <2>1. Used(limit, 1) = 1
      BY <1>1 DEF Used
    <2>2. /\ Len(Append(times, now)) = Len(times) + 1
          /\ Append(times, now)[Len(times) + 1] = now
      OBVIOUS
    <2>3. (Len(times) + 1) - 1 = Len(times) /\ 1 <= Len(times) + 1
      OBVIOUS
    <2>4. \A i \in Len(times) + 1 .. Len(times) + 1 : Append(times, now)[i] >= start
      BY <2>2
    <2>5. Fits(limit, start, 1, Append(times, now), now)
      BY <2>1, <2>2, <2>3, <2>4 DEF Fits
    <2> QED BY <1>1, <2>5
  <1>2. CASE ~(1 <= limit)
    <2>1. Used(limit, 1) = 0 /\ limit = 0
      BY <1>2 DEF Used
    <2> QED BY <1>2, <2>1 DEF Fits
  <1> QED BY <1>1, <1>2

\* When a window is over, all that was admitted fills the windows up to the
\* new one.
LEMMA OverFits ==
  ASSUME NEW limit \in Nat, NEW start \in Nat, NEW hits \in Nat, NEW now \in Nat,
         NEW times \in Seq(Nat), Fits(limit, start, hits, times, now),
         NEW next \in Nat, next >= start + Window
  PROVE  Len(times) <= limit * (next \div Window)
  <1>1. Used(limit, hits) <= limit /\ Used(limit, hits) \in Nat
    BY DEF Used
  <1>2. /\ start \div Window \in Nat /\ next \div Window \in Nat
        /\ start \div Window + 1 <= next \div Window
    <2>1. Window \in Nat /\ start <= next
      BY GateAssumption
    <2> QED BY <2>1, OneMoreWindow, WindowsGrow
  <1>3. limit * (start \div Window + 1) = limit * (start \div Window) + limit
    BY <1>2, QuotaOfOneMore
  <1>4. limit * (start \div Window + 1) <= limit * (next \div Window)
    <2>1. start \div Window + 1 \in Nat
      BY <1>2
    <2> QED BY <1>2, <2>1, QuotaGrows
  <1>5. Len(times) - Used(limit, hits) <= limit * (start \div Window)
    BY DEF Fits
  <1>6. limit * (start \div Window) \in Nat /\ limit * (next \div Window) \in Nat
    BY <1>2, QuotaGrows
  <1> QED BY <1>1, <1>3, <1>4, <1>5, <1>6

\* Counting a request keeps the account of its limiter key.
LEMMA CountFits ==
  ASSUME IInv, NEW r \in Requests, Count(r), NEW k, k = tasks[r].key
  PROVE  WindowOK(k)'
  <1> DEFINE now == tasks[r].now
             limit == Limit(k)
             times == admitted[k]
  <1>1. /\ k \in LimiterKeys /\ now \in 0 .. MaxClock /\ now <= clock
        /\ clock \in Nat /\ now \in Nat
    BY TaskFields, CountEffect, GateAssumption DEF IInv, TypeOK, TasksTrusted
  <1>2. limit \in Nat
    BY <1>1, LimitType
  <1>3. times \in Seq(Nat) /\ admitted \in [LimiterKeys -> Seq(0 .. MaxClock)]
    BY <1>1, GateAssumption DEF IInv, TypeOK
  <1>4. windows'[k] = Counted(r)
    BY CountEffect DEF Put
  <1>5. admitted'[k] = IF Counted(r).hits <= limit THEN Append(times, clock) ELSE times
    BY <1>1, <1>3, CountEffect DEF Admits, WithinQuota
  <1>6. clock' = clock
    BY CountEffect
  <1>7. Fits(limit, Counted(r).start, Counted(r).hits, admitted'[k], clock)
    <2>1. CASE Has(windows, k) /\ ~Over(k, now)
      <3>1. /\ Counted(r).start = windows[k].start
            /\ Counted(r).hits = windows[k].hits + 1
        BY <2>1 DEF Counted, WindowAt
      <3>2. windows[k].start \in Nat /\ windows[k].hits \in Nat
        BY <2>1, GateAssumption DEF Has, IInv, TypeOK
      <3>3. Fits(limit, windows[k].start, windows[k].hits, times, clock)
        BY <2>1, WindowOKFits DEF Has, IInv
      <3>4. IF windows[k].hits + 1 <= limit
              THEN Fits(limit, windows[k].start, windows[k].hits + 1,
                        Append(times, clock), clock)
              ELSE Fits(limit, windows[k].start, windows[k].hits + 1, times, clock)
        BY <1>1, <1>2, <1>3, <3>2, <3>3, HitFits
      <3> QED BY <1>5, <3>1, <3>4
    <2>2. CASE ~(Has(windows, k) /\ ~Over(k, now))
      <3>1. Counted(r).start = now /\ Counted(r).hits = 1
        BY <2>2 DEF Counted, WindowAt
      <3>2. Len(times) <= limit * (now \div Window)
        <4>1. CASE ~Has(windows, k)
          <5>1. Len(times) = 0
            BY <1>1, <4>1 DEF Has, IInv
          <5>2. now \div Window \in Nat
            BY <1>1, WindowsGrow
          <5>3. limit * (now \div Window) \in Nat
            BY <1>2, <5>2, QuotaGrows
          <5> QED BY <5>1, <5>3
        <4>2. CASE Has(windows, k) /\ Over(k, now)
          <5>1. windows[k].start \in Nat /\ windows[k].hits \in Nat
            BY <4>2, GateAssumption DEF Has, IInv, TypeOK
          <5>2. Fits(limit, windows[k].start, windows[k].hits, times, clock)
            BY <4>2, WindowOKFits DEF Has, IInv
          <5>3. now >= windows[k].start + Window
            BY <4>2 DEF Over
          <5> QED BY <1>1, <1>2, <1>3, <5>1, <5>2, <5>3, OverFits
        <4> QED BY <2>2, <4>1, <4>2
      <3>3. IF 1 <= limit
              THEN Fits(limit, now, 1, Append(times, clock), clock)
              ELSE Fits(limit, now, 1, times, clock)
        BY <1>1, <1>2, <1>3, <3>2, FirstHitFits
      <3> QED BY <1>5, <3>1, <3>3
    <2> QED BY <2>1, <2>2
  <1>8. WindowOK(k)' <=> Fits(limit, windows'[k].start, windows'[k].hits, admitted'[k], clock')
    BY DEF WindowOK, Fits, Used, WithinQuota
  <1> QED BY <1>4, <1>6, <1>7, <1>8

\* As time passes an account stays right.
LEMMA TickFits ==
  ASSUME IInv, NEW k \in DOMAIN windows,
         clock' \in Nat, clock <= clock', UNCHANGED <<windows, admitted>>
  PROVE  WindowOK(k)'
  <1>1. WindowOK(k) /\ clock \in Nat /\ windows[k].start \in Nat
    BY GateAssumption DEF IInv, TypeOK
  <1>2. WindowOK(k)' <=>
          Fits(Limit(k), windows'[k].start, windows'[k].hits, admitted'[k], clock')
    BY DEF WindowOK, Fits, Used, WithinQuota
  <1>3. Fits(Limit(k), windows[k].start, windows[k].hits, admitted[k], clock)
    BY <1>1, WindowOKFits
  <1>4. Fits(Limit(k), windows[k].start, windows[k].hits, admitted[k], clock')
    BY <1>1, <1>3 DEF Fits
  <1> QED BY <1>2, <1>4
-----------------------------------------------------------------------------
(* The inductive invariant                                                 *)

\* The accounts are right at the start.
LEMMA InvInit == Init => IInv
  <1> SUFFICES ASSUME Init PROVE IInv
    OBVIOUS
  <1>1. TypeOK
    <2>1. clock \in 0 .. MaxClock
      BY GateAssumption DEF Init
    <2>2. /\ DOMAIN registry \subseteq Agents
          /\ \A a \in DOMAIN registry : registry[a] \in SigningKeys
      BY GateAssumption DEF Init, Put, EmptyStore
    <2>3. tasks \in [Requests -> Task]
      BY DEF Init, Task
    <2>4. DOMAIN windows = {}
      BY DEF Init, EmptyStore
    <2>5. held \in [Agents -> SUBSET SigningKeys]
      BY GateAssumption DEF Init
    <2>6. admitted \in [LimiterKeys -> Seq(0 .. MaxClock)]
      BY DEF Init
    <2> QED BY <2>1, <2>2, <2>3, <2>4, <2>5, <2>6 DEF TypeOK
  <1>2. TasksTrusted
    BY GateAssumption DEF Init, TasksTrusted, Put, EmptyStore
  <1>3. DOMAIN windows = {} /\ \A k \in LimiterKeys : admitted[k] = << >>
    BY DEF Init, EmptyStore
  <1> QED BY <1>1, <1>2, <1>3 DEF IInv

\* Every step keeps the accounts right: one step of the proof per action.
LEMMA InvNext == IInv /\ [Next]_vars => IInv'
  <1> SUFFICES ASSUME IInv, [Next]_vars PROVE IInv'
    OBVIOUS
  <1>0. TypeOK /\ TasksTrusted
    BY DEF IInv
  <1>1. ASSUME NEW r \in Requests, Passes(r) PROVE IInv'
    <2>1. UNCHANGED <<clock, registry, windows, held, admitted>>
      BY <1>1, PassesUnchanged
    <2>2. PICK task \in Task :
            /\ Move(r, task)
            /\ task.at = "body" => task.identity \in held[task.agent]
            /\ task.at = "limiter" /\ task.key \in WriteKeys
                 => task.signer \in held[task.key[2]]
            /\ task.at = "limiter" => task.now <= clock
      BY <1>0, <1>1, PassesTask
    <2>3. /\ tasks' \in [Requests -> Task]
          /\ tasks'[r] = task
          /\ \A q \in Requests \ {r} : tasks'[q] = tasks[q]
      BY <1>0, <2>2, MoveType DEF TypeOK
    <2>4. TypeOK'
      BY <1>0, <2>1, <2>3 DEF TypeOK
    <2>5. TasksTrusted'
      BY <1>0, <2>1, <2>2, <2>3 DEF TasksTrusted
    <2>6. \A k \in DOMAIN windows : WindowOK(k)'
      BY <1>0, <2>1, TickFits, GateAssumption DEF TypeOK
    <2> QED BY <2>1, <2>4, <2>5, <2>6 DEF IInv
  <1>2. ASSUME NEW r \in Requests, Count(r) PROVE IInv'
    <2>1. /\ TypeOK'
          /\ tasks'[r].at \in {"handled", "throttled"}
          /\ \A q \in Requests \ {r} : tasks'[q] = tasks[q]
      BY <1>0, <1>2, CountType
    <2>2. UNCHANGED <<clock, registry, held>>
      BY <1>2, CountEffect
    <2>3. TasksTrusted'
      BY <1>0, <2>1, <2>2 DEF TasksTrusted
    <2>4. PICK k : k = tasks[r].key
      OBVIOUS
    <2>5. k \in LimiterKeys
      BY <1>0, <1>2, <2>4, TaskFields, CountEffect DEF TypeOK
    <2>6. WindowOK(k)'
      BY <1>2, <2>4, CountFits
    <2>7. /\ windows' = Put(windows, k, Counted(r))
          /\ \A j \in LimiterKeys \ {k} : admitted'[j] = admitted[j]
      BY <1>0, <1>2, <2>4, CountEffect DEF TypeOK
    <2>8. /\ DOMAIN windows' = DOMAIN windows \cup {k}
          /\ \A j \in DOMAIN windows \ {k} : windows'[j] = windows[j]
      BY <2>7 DEF Put
    <2>9. ASSUME NEW j \in DOMAIN windows' PROVE WindowOK(j)'
      <3>1. CASE j = k
        BY <2>6, <3>1
      <3>2. CASE j # k
        <4>1. j \in DOMAIN windows /\ j \in LimiterKeys
          BY <1>0, <2>8, <3>2 DEF TypeOK
        <4>2. /\ windows'[j] = windows[j] /\ admitted'[j] = admitted[j]
              /\ clock' = clock /\ WindowOK(j)
          BY <2>2, <2>7, <2>8, <3>2, <4>1 DEF IInv
        <4> QED BY <4>2 DEF WindowOK, WithinQuota
      <3> QED BY <3>1, <3>2
    <2>10. \A j \in LimiterKeys \ DOMAIN windows' : admitted'[j] = << >>
      BY <2>7, <2>8 DEF IInv
    <2> QED BY <2>1, <2>3, <2>9, <2>10 DEF IInv
  <1>3. ASSUME NEW agent \in Agents, NEW key \in SigningKeys, Register(agent, key)
        PROVE  IInv'
    <2>1. /\ registry' = Put(registry, agent, key)
          /\ held' = [held EXCEPT ![agent] = @ \cup {key}]
          /\ UNCHANGED <<clock, tasks, windows, admitted>>
      BY <1>3 DEF Register
    <2>2. held' \in [Agents -> SUBSET SigningKeys]
      BY <1>0, <2>1 DEF TypeOK
    <2>3. \A a \in Agents : held[a] \subseteq held'[a]
      BY <1>0, <2>1 DEF TypeOK
    <2>4. key \in held'[agent]
      BY <1>0, <2>1 DEF TypeOK
    <2>5. /\ DOMAIN registry' \subseteq Agents
          /\ \A a \in DOMAIN registry' : registry'[a] \in SigningKeys
      BY <1>0, <2>1 DEF TypeOK, Put
    <2>6. TypeOK'
      BY <1>0, <2>1, <2>2, <2>5 DEF TypeOK
    <2>7. \A a \in DOMAIN registry' : registry'[a] \in held'[a]
      BY <1>0, <2>1, <2>3, <2>4 DEF TypeOK, TasksTrusted, Put
    <2>8. TasksTrusted'
      <3> SUFFICES ASSUME NEW r \in Requests
                   PROVE  /\ tasks[r].at = "body" => tasks[r].identity \in held'[tasks[r].agent]
                          /\ tasks[r].at = "limiter" /\ tasks[r].key \in WriteKeys
                               => tasks[r].signer \in held'[tasks[r].key[2]]
                          /\ tasks[r].at = "limiter" => tasks[r].now <= clock
        BY <2>1, <2>7 DEF TasksTrusted
      <3>1. tasks[r] \in Task
        BY <1>0 DEF TypeOK
      <3>2. ASSUME tasks[r].at = "body"
            PROVE  tasks[r].identity \in held'[tasks[r].agent]
        BY <1>0, <2>3, <3>1, <3>2, TaskFields DEF TasksTrusted
      <3>3. ASSUME tasks[r].at = "limiter", tasks[r].key \in WriteKeys
            PROVE  tasks[r].signer \in held'[tasks[r].key[2]]
        <4>1. tasks[r].key[2] \in Agents
          BY <3>3 DEF WriteKeys
        <4> QED BY <1>0, <2>3, <3>3, <4>1 DEF TasksTrusted
      <3> QED BY <1>0, <3>2, <3>3 DEF TasksTrusted
    <2>9. \A k \in DOMAIN windows : WindowOK(k)'
      BY <1>0, <2>1, TickFits, GateAssumption DEF TypeOK
    <2> QED BY <2>1, <2>6, <2>8, <2>9 DEF IInv
  <1>4. ASSUME Tick PROVE IInv'
    <2>1. /\ clock \in Nat /\ clock' = clock + 1 /\ clock' \in 0 .. MaxClock
          /\ UNCHANGED <<registry, tasks, windows, held, admitted>>
      BY <1>0, <1>4, GateAssumption DEF Tick, TypeOK
    <2>2. TypeOK'
      BY <1>0, <2>1 DEF TypeOK
    <2>3. TasksTrusted'
      <3>1. \A r \in Requests : tasks[r].at = "limiter" => tasks[r].now \in Nat
        BY <1>0, TaskFields, GateAssumption DEF TypeOK
      <3> QED BY <1>0, <2>1, <3>1 DEF TasksTrusted
    <2>4. \A k \in DOMAIN windows : WindowOK(k)'
      BY <2>1, TickFits
    <2> QED BY <2>1, <2>2, <2>3, <2>4 DEF IInv
  <1>5. CASE UNCHANGED vars
    BY <1>5 DEF vars, IInv, TypeOK, TasksTrusted, WindowOK, WithinQuota
  <1> QED BY <1>1, <1>2, <1>3, <1>4, <1>5, NextCases

\* The account of every limiter key is right in every state.
THEOREM Inductive == Spec => []IInv
  BY InvInit, InvNext, PTL DEF Spec

-----------------------------------------------------------------------------
(* What follows                                                            *)

\* Every variable stays in its type.
THEOREM Typed == Spec => []TypeOK
  <1>1. IInv => TypeOK
    BY DEF IInv
  <1> QED BY <1>1, Inductive, PTL

\* A caller's handled requests never outgrow one quota for each window since
\* the start and one more, however late hits are counted (rate_limit.rs:84-93).
THEOREM RateHolds == Spec => []LongRunRate
  <1>1. ASSUME IInv PROVE LongRunRate
    <2> SUFFICES ASSUME NEW k \in LimiterKeys
                 PROVE  Len(admitted[k]) <= Limit(k) * (clock \div Window + 1)
      BY DEF LongRunRate
    <2>1. clock \in Nat /\ Limit(k) \in Nat /\ clock \div Window \in Nat
      <3>1. clock \in Nat
        BY <1>1, GateAssumption DEF IInv, TypeOK
      <3> QED BY <3>1, LimitType, WindowsGrow
    <2>2. /\ Limit(k) * (clock \div Window) \in Nat
          /\ Limit(k) * (clock \div Window + 1) = Limit(k) * (clock \div Window) + Limit(k)
      BY <2>1, QuotaGrows, QuotaOfOneMore
    <2>3. CASE k \notin DOMAIN windows
      <3>1. Len(admitted[k]) = 0
        BY <1>1, <2>3 DEF IInv
      <3> QED BY <2>1, <2>2, <3>1
    <2>4. CASE k \in DOMAIN windows
      <3>1. Fits(Limit(k), windows[k].start, windows[k].hits, admitted[k], clock)
        BY <1>1, <2>4, WindowOKFits DEF IInv
      <3>2. windows[k].start \in Nat /\ windows[k].hits \in Nat
        BY <1>1, <2>4, GateAssumption DEF IInv, TypeOK
      <3>3. Used(Limit(k), windows[k].hits) \in Nat
            /\ Used(Limit(k), windows[k].hits) <= Limit(k)
        BY <2>1, <3>2 DEF Used
      <3>4. Limit(k) * (windows[k].start \div Window) \in Nat
            /\ Limit(k) * (windows[k].start \div Window) <= Limit(k) * (clock \div Window)
        <4>1. windows[k].start <= clock
          BY <3>1 DEF Fits
        <4>2. /\ windows[k].start \div Window \in Nat
              /\ windows[k].start \div Window <= clock \div Window
          BY <2>1, <3>2, <4>1, WindowsGrow
        <4> QED BY <2>1, <4>2, QuotaGrows
      <3>5. /\ Len(admitted[k]) \in Nat
            /\ Len(admitted[k]) - Used(Limit(k), windows[k].hits)
                 <= Limit(k) * (windows[k].start \div Window)
        BY <1>1, <3>1 DEF Fits, IInv, TypeOK
      <3> QED BY <2>1, <2>2, <3>3, <3>4, <3>5
    <2> QED BY <2>3, <2>4
  <1> QED BY <1>1, Inductive, PTL

\* A request is throttled by being counted, and only when the quota is used up.
LEMMA OnlyCountsThrottle ==
  ASSUME IInv, NEW r \in Requests, Throttles(r), [Next]_vars
  PROVE  Count(r) /\ ~Admits(r)
  <1>0. tasks \in [Requests -> Task] /\ TypeOK /\ TasksTrusted
    BY DEF IInv, TypeOK
  <1>1. tasks'[r] # tasks[r]
    BY DEF Throttles
  <1>2. ASSUME NEW q \in Requests, Passes(q) PROVE FALSE
    <2>1. tasks'[q].at \in {"over", "registry", "body", "limiter"}
      BY <1>0, <1>2 DEF Passes, ReceiveWrite, ReceiveRead, RefuseHeaders, FindAgent,
         UnknownAgent, VerifyBody, RefuseBody, HangUp, Move
    <2>2. \A p \in Requests \ {q} : tasks'[p] = tasks[p]
      BY <1>0, <1>2 DEF Passes, ReceiveWrite, ReceiveRead, RefuseHeaders, FindAgent,
         UnknownAgent, VerifyBody, RefuseBody, HangUp, Move
    <2> QED BY <1>1, <2>1, <2>2 DEF Throttles
  <1>3. ASSUME NEW q \in Requests, Count(q) PROVE q = r
    BY <1>0, <1>1, <1>3, CountType
  <1>4. Count(r)
    BY <1>1, <1>2, <1>3, NextCases DEF Register, Tick, vars
  <1>5. ~Admits(r)
    BY <1>0, <1>4, CountEffect DEF Throttles, Move
  <1> QED BY <1>4, <1>5

\* A request is throttled only after the full quota of its own agent or client
\* was let through less than a window before it asked (rate_limit.rs:84-93).
THEOREM ThrottlingHasCause == Spec => ThrottledWithCause
  <1> DEFINE Caused == \A r \in Requests :
               Throttles(r) => SpentSince(tasks[r].key, tasks[r].now - Window)
  <1>1. ASSUME IInv, [Next]_vars, NEW r \in Requests, Throttles(r)
        PROVE  SpentSince(tasks[r].key, tasks[r].now - Window)
    <2> DEFINE k == tasks[r].key
               now == tasks[r].now
               limit == Limit(k)
               n == Len(admitted[k])
    <2>1. Count(r) /\ ~Admits(r)
      BY <1>1, OnlyCountsThrottle
    <2>2. k \in LimiterKeys /\ now \in Nat
      BY <1>1, <2>1, TaskFields, CountEffect, GateAssumption DEF IInv, TypeOK
    <2>3. limit \in Nat /\ n \in Nat /\ Window \in Nat \ {0}
      BY <1>1, <2>2, LimitType, GateAssumption DEF IInv, TypeOK
    <2>4. ~(Counted(r).hits <= limit)
      BY <2>1 DEF Admits, WithinQuota
    <2> SUFFICES ASSUME limit > 0
                 PROVE  n >= limit /\ admitted[k][n - limit + 1] > now - Window
      BY DEF SpentSince
    <2>5. Has(windows, k) /\ ~Over(k, now) /\ Counted(r).hits = windows[k].hits + 1
      BY <2>3, <2>4 DEF Counted, WindowAt
    <2>6. windows[k].start \in Nat /\ windows[k].hits \in Nat
      BY <1>1, <2>5, GateAssumption DEF Has, IInv, TypeOK
    <2>7. now < windows[k].start + Window
      BY <2>2, <2>3, <2>5, <2>6 DEF Over
    <2>8. Used(limit, windows[k].hits) = limit
      BY <2>3, <2>4, <2>5, <2>6 DEF Used
    <2>9. Fits(limit, windows[k].start, windows[k].hits, admitted[k], clock)
      BY <1>1, <2>5, WindowOKFits DEF Has, IInv
    <2>10. limit <= n /\ \A i \in n - limit + 1 .. n : admitted[k][i] >= windows[k].start
      BY <2>8, <2>9 DEF Fits
    <2>11. n - limit + 1 \in n - limit + 1 .. n
      BY <2>3
    <2>12. admitted[k][n - limit + 1] >= windows[k].start
      BY <2>10, <2>11
    <2>13. admitted[k][n - limit + 1] \in Nat
      <3>1. admitted[k] \in Seq(0 .. MaxClock)
        BY <1>1, <2>2 DEF IInv, TypeOK
      <3>2. n - limit + 1 \in 1 .. n
        BY <2>3, <2>10
      <3> QED BY <3>1, <3>2, GateAssumption
    <2>14. \A e, s, t \in Nat : e >= s /\ t < s + Window => e > t - Window
      BY <2>3
    <2>15. admitted[k][n - limit + 1] > now - Window
      BY <2>2, <2>6, <2>7, <2>12, <2>13, <2>14
    <2>16. n >= limit
      BY <2>3, <2>10
    <2> QED BY <2>15, <2>16
  <1>2. IInv /\ [Next]_vars => [Caused]_vars
    BY <1>1
  <1> QED BY <1>2, Inductive, PTL DEF Spec, ThrottledWithCause

\* An agent's quota is spent only by requests signed with a key that was once
\* registered for it (lib.rs:51-52, auth.rs:88-115).
THEOREM QuotaIsOwn == Spec => QuotaSpentByItsAgent
  <1> DEFINE Own == \A k \in WriteKeys :
               (k \in DOMAIN windows' /\ (k \in DOMAIN windows => windows'[k] # windows[k]))
                 => \E r \in Requests : Spends(r, k) /\ tasks[r].signer \in held[k[2]]
  <1>1. ASSUME IInv, [Next]_vars, NEW k \in WriteKeys, k \in DOMAIN windows',
               k \in DOMAIN windows => windows'[k] # windows[k]
        PROVE  \E r \in Requests : Spends(r, k) /\ tasks[r].signer \in held[k[2]]
    <2>1. windows' # windows
      BY <1>1
    <2>2. PICK r \in Requests : Count(r)
      BY <1>1, <2>1, NextCases, PassesUnchanged DEF Register, Tick, vars
    <2>3. tasks[r].at = "limiter" /\ windows' = Put(windows, tasks[r].key, Counted(r))
      BY <2>2, CountEffect
    <2>4. tasks[r].key = k
      BY <1>1, <2>3 DEF Put
    <2>5. tasks'[r] # tasks[r]
      BY <1>1, <2>2, <2>3, CountType DEF IInv
    <2>6. tasks[r].signer \in held[k[2]]
      BY <1>1, <2>3, <2>4 DEF IInv, TasksTrusted
    <2> QED BY <2>3, <2>4, <2>5, <2>6 DEF Spends
  <1>2. IInv /\ [Next]_vars => [Own]_vars
    BY <1>1
  <1> QED BY <1>2, Inductive, PTL DEF Spec, QuotaSpentByItsAgent
=============================================================================
