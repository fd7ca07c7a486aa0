------------------------- MODULE JsonRpcServersProofs -------------------------
(***************************************************************************)
(* The life of the listener, for any number of calls of start() and of     *)
(* stop(), in any order and at any of their awaits. The argument: what     *)
(* this.server is known to be (HeldOK), what a server that is let go of    *)
(* leaves behind in the promises of stop() (LooseOK), and what one that    *)
(* does not listen leaves in those of start() (AwaitedOK).                 *)
(*                                                                         *)
(* What is asked and what is told, over either transport. The argument: a  *)
(* request only goes on from where it is (Successor, LineGoesOn), what it  *)
(* has been given by then fits it (RequestOK, HandlersOK, OutputOK), and   *)
(* those that were served are those that went on from the router           *)
(* (ServedInv). What a client can see of that is RequestReply, one step    *)
(* for one step.                                                           *)
(***************************************************************************)
EXTENDS JsonRpcServers, SequenceTheorems, TLAPS

ListenerStates == {"binding", "listening", "failed", "closing", "closed"}

Promises == [phase : {"pending", "resolved", "rejected"}, server : Nat]

LifeType ==
    /\ server \in Nat
    /\ listeners \in Seq(ListenerStates)
    /\ starts \in Seq(Promises)
    /\ stops \in Seq(Promises)

\* Among the promises ps there is one about server s in that phase.
Some(ps, phase, s) == \E k \in DOMAIN ps : ps[k] = [phase |-> phase, server |-> s]

\* this.server was not closed.
HeldOK ==
    server # NoServer =>
        /\ server \in DOMAIN listeners
        /\ listeners[server] \in {"binding", "listening", "failed"}

\* A server that listens, or may yet, and is not this.server: its stop() has failed.
LooseOK ==
    \A s \in DOMAIN listeners : listeners[s] \in {"binding", "listening"} =>
        server = s \/ Some(stops, "rejected", s)

\* A server that does not listen yet, or never will: its start() waits, or has failed.
AwaitedOK ==
    \A s \in DOMAIN listeners :
        /\ listeners[s] = "binding" => Some(starts, "pending", s)
        /\ listeners[s] = "failed" => Some(starts, "rejected", s)

LifeInv == LifeType /\ HeldOK /\ LooseOK /\ AwaitedOK

\* The steps that have to do with the listener.
LifeStep ==
    \/ Start
    \/ Stop
    \/ \E s \in DOMAIN listeners : OnError(s) \/ OnListening(s) \/ Closed(s)

lifeVars == <<server, listeners, starts, stops>>

-----------------------------------------------------------------------------
(* Promises *)

\* What becomes of promise p.
Outcome(p, s, phase) ==
    IF p = [phase |-> "pending", server |-> s] THEN [phase |-> phase, server |-> s] ELSE p

LEMMA SettledPromises ==
  ASSUME NEW ps \in Seq(Promises), NEW s \in Nat, NEW phase \in {"resolved", "rejected"}
  PROVE  /\ Settled(ps, s, phase) \in Seq(Promises)
         /\ DOMAIN Settled(ps, s, phase) = DOMAIN ps
         /\ \A k \in DOMAIN ps : Settled(ps, s, phase)[k] = Outcome(ps[k], s, phase)
  <1>1. ps = [k \in 1..Len(ps) |-> ps[k]] /\ \A k \in 1..Len(ps) : ps[k] \in Promises
    BY LenProperties
  <1>2. \A k \in DOMAIN ps : Settled(ps, s, phase)[k] = Outcome(ps[k], s, phase)
    BY <1>1 DEF Settled, Promises, Outcome
  <1>3. \A k \in 1..Len(ps) : Settled(ps, s, phase)[k] \in Promises
    BY <1>1, <1>2 DEF Promises, Outcome
  <1>4. DOMAIN Settled(ps, s, phase) = 1..Len(ps)
    BY <1>1 DEF Settled
  <1>5. Settled(ps, s, phase) = [k \in 1..Len(ps) |-> Settled(ps, s, phase)[k]]
    BY <1>4 DEF Settled
  <1> QED
    BY <1>1, <1>2, <1>3, <1>4, <1>5, IsASeq, LenProperties

\* What is settled is settled for the server it is about, and stays so.
LEMMA SettledKeeps ==
  ASSUME NEW ps \in Seq(Promises), NEW s \in Nat, NEW phase \in {"resolved", "rejected"}
  PROVE  /\ Some(ps, "pending", s) => Some(Settled(ps, s, phase), phase, s)
         /\ \A t \in Nat :
              Some(ps, "rejected", t) => Some(Settled(ps, s, phase), "rejected", t)
         /\ \A t \in Nat \ {s} :
              Some(ps, "pending", t) => Some(Settled(ps, s, phase), "pending", t)
  <1>1. /\ DOMAIN Settled(ps, s, phase) = DOMAIN ps
        /\ \A k \in DOMAIN ps : Settled(ps, s, phase)[k] = Outcome(ps[k], s, phase)
    BY SettledPromises
  <1>2. ASSUME NEW k \in DOMAIN ps, NEW other, NEW t \in Nat,
               ps[k] = [phase |-> other, server |-> t],
               other # "pending" \/ t # s
        PROVE  Settled(ps, s, phase)[k] = ps[k]
    <2>1. ps[k].phase = other /\ ps[k].server = t
      BY <1>2
    <2>2. ps[k] # [phase |-> "pending", server |-> s]
      BY <1>2, <2>1
    <2> QED
      BY <1>1, <2>2 DEF Outcome
  <1>3. Some(ps, "pending", s) => Some(Settled(ps, s, phase), phase, s)
    BY <1>1 DEF Some, Outcome
  <1>4. \A t \in Nat : Some(ps, "rejected", t) => Some(Settled(ps, s, phase), "rejected", t)
    BY <1>1, <1>2 DEF Some
  <1>5. \A t \in Nat \ {s} :
          Some(ps, "pending", t) => Some(Settled(ps, s, phase), "pending", t)
    BY <1>1, <1>2 DEF Some
  <1> QED
    BY <1>3, <1>4, <1>5

LEMMA AppendKeeps ==
  ASSUME NEW ps \in Seq(Promises), NEW p \in Promises
  PROVE  /\ Append(ps, p) \in Seq(Promises)
         /\ DOMAIN Append(ps, p) = DOMAIN ps \cup {Len(ps) + 1}
         /\ Append(ps, p)[Len(ps) + 1] = p
         /\ \A k \in DOMAIN ps : Append(ps, p)[k] = ps[k]
         /\ Some(Append(ps, p), p.phase, p.server)
         /\ \A phase, t : Some(ps, phase, t) => Some(Append(ps, p), phase, t)
  <1>1. /\ Append(ps, p) \in Seq(Promises)
        /\ DOMAIN Append(ps, p) = DOMAIN ps \cup {Len(ps) + 1}
        /\ Append(ps, p)[Len(ps) + 1] = p
        /\ \A k \in DOMAIN ps : Append(ps, p)[k] = ps[k]
    BY AppendProperties, LenProperties
  <1>2. p = [phase |-> p.phase, server |-> p.server]
    BY DEF Promises
  <1> QED
    BY <1>1, <1>2 DEF Some

-----------------------------------------------------------------------------
(* The steps *)

LEMMA StartInv ==
  ASSUME LifeInv, Start
  PROVE  LifeInv'
  <1>1. stops' = stops
    BY DEF Start
  <1>2. CASE /\ server # NoServer
             /\ starts' = Append(starts, [phase |-> "resolved", server |-> server])
             /\ UNCHANGED <<server, listeners>>
    <2>1. [phase |-> "resolved", server |-> server] \in Promises
      BY DEF LifeInv, LifeType, Promises
    <2>2. starts' \in Seq(Promises)
      BY <1>2, <2>1, AppendKeeps DEF LifeInv, LifeType
    <2>3. \A phase, t : Some(starts, phase, t) => Some(starts', phase, t)
      BY <1>2, <2>1, AppendKeeps DEF LifeInv, LifeType
    <2> QED
      BY <1>1, <1>2, <2>2, <2>3 DEF LifeInv, LifeType, HeldOK, LooseOK, AwaitedOK
  <1>3. CASE /\ server = NoServer
             /\ server' = Len(listeners) + 1
             /\ listeners' = Append(listeners, "binding")
             /\ starts' = Append(starts, [phase |-> "pending", server |-> server'])
    <2>1. /\ listeners \in Seq(ListenerStates) /\ starts \in Seq(Promises)
          /\ Len(listeners) \in Nat /\ DOMAIN listeners = 1..Len(listeners)
      BY LenProperties DEF LifeInv, LifeType
    <2>2. [phase |-> "pending", server |-> server'] \in Promises
      BY <1>3, <2>1 DEF Promises
    <2>3. /\ starts' \in Seq(Promises) /\ Some(starts', "pending", server')
          /\ \A phase, t : Some(starts, phase, t) => Some(starts', phase, t)
      BY <1>3, <2>1, <2>2, AppendKeeps
    <2>4. /\ listeners' \in Seq(ListenerStates)
          /\ DOMAIN listeners' = DOMAIN listeners \cup {server'}
          /\ listeners'[server'] = "binding"
          /\ \A s \in DOMAIN listeners : listeners'[s] = listeners[s]
      BY <1>3, <2>1, AppendProperties, LenProperties DEF ListenerStates
    <2>5. LifeType' /\ HeldOK'
      BY <1>1, <1>3, <2>1, <2>3, <2>4 DEF LifeInv, LifeType, HeldOK
    <2>6. LooseOK'
      <3> SUFFICES ASSUME NEW s \in DOMAIN listeners', s # server',
                          listeners'[s] \in {"binding", "listening"}
                   PROVE  Some(stops', "rejected", s)
        BY DEF LooseOK
      <3>1. s \in DOMAIN listeners /\ server # s
        BY <1>3, <2>1, <2>4 DEF NoServer
      <3> QED
        BY <1>1, <2>4, <3>1 DEF LifeInv, LooseOK
    <2>7. AwaitedOK'
      BY <2>3, <2>4 DEF LifeInv, AwaitedOK
    <2> QED
      BY <2>5, <2>6, <2>7 DEF LifeInv
  <1> QED
    BY <1>2, <1>3 DEF Start

\* A listener changes its state.
LEMMA ListenerGoesOn ==
  ASSUME LifeInv, NEW s \in DOMAIN listeners, NEW state \in ListenerStates,
         listeners' = [listeners EXCEPT ![s] = state]
  PROVE  /\ listeners' \in Seq(ListenerStates) /\ DOMAIN listeners' = DOMAIN listeners
         /\ listeners'[s] = state
         /\ \A t \in DOMAIN listeners \ {s} : listeners'[t] = listeners[t]
         /\ s \in Nat \ {NoServer}
  BY LenProperties, ExceptSeq DEF LifeInv, LifeType, NoServer

LEMMA StopInv ==
  ASSUME LifeInv, Stop
  PROVE  LifeInv'
  <1> DEFINE listening == server # NoServer /\ listeners[server] = "listening"
             phase == IF server = NoServer THEN "resolved"
                      ELSE IF listening THEN "pending" ELSE "rejected"
  <1>1. /\ server' = NoServer /\ starts' = starts
        /\ stops' = Append(stops, [phase |-> phase, server |-> server])
        /\ listeners' = IF listening THEN [listeners EXCEPT ![server] = "closing"]
                        ELSE listeners
    BY DEF Stop
  <1>2. [phase |-> phase, server |-> server] \in Promises
    BY DEF LifeInv, LifeType, Promises
  <1>3. /\ stops' \in Seq(Promises) /\ Some(stops', phase, server)
        /\ \A ph, t : Some(stops, ph, t) => Some(stops', ph, t)
    BY <1>1, <1>2, AppendKeeps DEF LifeInv, LifeType
  <1> HIDE DEF phase
  <1>4. CASE listening
    <2>1. /\ listeners' \in Seq(ListenerStates) /\ DOMAIN listeners' = DOMAIN listeners
          /\ listeners'[server] = "closing"
          /\ \A t \in DOMAIN listeners \ {server} : listeners'[t] = listeners[t]
      BY <1>1, <1>4, ListenerGoesOn DEF LifeInv, HeldOK, ListenerStates
    <2>2. LifeType' /\ HeldOK'
      BY <1>1, <1>3, <2>1 DEF LifeInv, LifeType, HeldOK, NoServer
    <2>3. LooseOK'
      BY <1>1, <1>3, <2>1 DEF LifeInv, LooseOK
    <2>4. AwaitedOK'
      BY <1>1, <2>1 DEF LifeInv, AwaitedOK
    <2> QED
      BY <2>2, <2>3, <2>4 DEF LifeInv
  <1>5. CASE ~ listening
    <2>1. LifeType' /\ HeldOK' /\ AwaitedOK'
      BY <1>1, <1>3, <1>5 DEF LifeInv, LifeType, HeldOK, AwaitedOK, NoServer
    <2>2. LooseOK'
      <3> SUFFICES ASSUME NEW s \in DOMAIN listeners,
                          listeners[s] \in {"binding", "listening"}
                   PROVE  Some(stops', "rejected", s)
        BY <1>1, <1>5 DEF LooseOK
      <3>1. CASE s = server
        <4>1. phase = "rejected"
          BY <1>5, <3>1, LenProperties DEF phase, NoServer, LifeInv, LifeType
        <4> QED
          BY <1>3, <3>1, <4>1
      <3>2. CASE s # server
        BY <1>3, <3>2 DEF LifeInv, LooseOK
      <3> QED
        BY <3>1, <3>2
    <2> QED
      BY <2>1, <2>2 DEF LifeInv
  <1> QED
    BY <1>4, <1>5

\* The listener is bound, or fails to be.
LEMMA BoundInv ==
  ASSUME LifeInv, NEW s \in DOMAIN listeners, OnError(s) \/ OnListening(s)
  PROVE  LifeInv'
  <1> DEFINE state == IF OnError(s) THEN "failed" ELSE "listening"
             phase == IF OnError(s) THEN "rejected" ELSE "resolved"
  <1>1. /\ listeners[s] = "binding"
        /\ listeners' = [listeners EXCEPT ![s] = state]
        /\ starts' = Settled(starts, s, phase)
        /\ UNCHANGED <<server, stops>>
    BY DEF OnError, OnListening
  <1>2. \/ state = "failed" /\ phase = "rejected"
        \/ state = "listening" /\ phase = "resolved"
    <2>1. CASE OnError(s)
      BY <2>1
    <2>2. CASE ~ OnError(s)
      BY <2>2
    <2> QED
      BY <2>1, <2>2
  <1> HIDE DEF state, phase
  <1>3. /\ listeners' \in Seq(ListenerStates) /\ DOMAIN listeners' = DOMAIN listeners
        /\ listeners'[s] = state /\ s \in Nat
        /\ \A t \in DOMAIN listeners \ {s} : listeners'[t] = listeners[t]
    BY <1>1, <1>2, ListenerGoesOn DEF ListenerStates
  <1>4. starts \in Seq(Promises) /\ DOMAIN listeners \subseteq Nat
    BY LenProperties DEF LifeInv, LifeType
  <1>5. starts' \in Seq(Promises)
    BY <1>1, <1>2, <1>3, <1>4, SettledPromises
  <1>6. LifeType' /\ HeldOK' /\ LooseOK'
    BY <1>1, <1>2, <1>3, <1>5 DEF LifeInv, LifeType, HeldOK, LooseOK
  <1>7. AwaitedOK'
    <2> SUFFICES ASSUME NEW t \in DOMAIN listeners
                 PROVE  /\ listeners'[t] = "binding" => Some(starts', "pending", t)
                        /\ listeners'[t] = "failed" => Some(starts', "rejected", t)
      BY <1>3 DEF AwaitedOK
    <2>1. CASE t = s
      <3>1. Some(starts, "pending", s)
        BY <1>1 DEF LifeInv, AwaitedOK
      <3> QED
        BY <1>1, <1>2, <1>3, <1>4, <2>1, <3>1, SettledKeeps
    <2>2. CASE t # s
      BY <1>1, <1>2, <1>3, <1>4, <2>2, SettledKeeps DEF LifeInv, AwaitedOK
    <2> QED
      BY <2>1, <2>2
  <1> QED
    BY <1>6, <1>7 DEF LifeInv

LEMMA ClosedInv ==
  ASSUME LifeInv, NEW s \in DOMAIN listeners, Closed(s)
  PROVE  LifeInv'
  <1>1. /\ listeners[s] = "closing"
        /\ listeners' = [listeners EXCEPT ![s] = "closed"]
        /\ stops' = Settled(stops, s, "resolved")
        /\ UNCHANGED <<server, starts>>
    BY DEF Closed
  <1>2. /\ listeners' \in Seq(ListenerStates) /\ DOMAIN listeners' = DOMAIN listeners
        /\ listeners'[s] = "closed" /\ s \in Nat
        /\ \A t \in DOMAIN listeners \ {s} : listeners'[t] = listeners[t]
    BY <1>1, ListenerGoesOn DEF ListenerStates
  <1>3. stops \in Seq(Promises) /\ DOMAIN listeners \subseteq Nat
    BY LenProperties DEF LifeInv, LifeType
  <1>4. /\ stops' \in Seq(Promises)
        /\ \A t \in Nat : Some(stops, "rejected", t) => Some(stops', "rejected", t)
    BY <1>1, <1>2, <1>3, SettledPromises, SettledKeeps
  <1>5. LifeType' /\ HeldOK' /\ AwaitedOK'
    BY <1>1, <1>2, <1>4 DEF LifeInv, LifeType, HeldOK, AwaitedOK
  <1>6. LooseOK'
    BY <1>1, <1>2, <1>3, <1>4 DEF LifeInv, LooseOK
  <1> QED
    BY <1>5, <1>6 DEF LifeInv

\* No other step has to do with the listener.
LEMMA StepsOfLife ==
  ASSUME [ServersNext]_serversVars
  PROVE  LifeStep \/ UNCHANGED lifeVars
  <1>1. CASE transport = "stdio" /\ StdioNext /\ UNCHANGED <<httpVars, transport>>
    BY <1>1 DEF httpVars, lifeVars
  <1>2. CASE HttpNext
    <2>1. ASSUME NEW request \in HttpRequests, NEW s, OnRequest(request, s)
          PROVE  UNCHANGED lifeVars
      BY <2>1 DEF OnRequest, lifeVars
    <2>2. ASSUME NEW c, OnData(c) \/ OnEnd(c) \/ ClientLeaves(c)
          PROVE  UNCHANGED lifeVars
      BY <2>2 DEF OnData, OnEnd, ClientLeaves, lifeVars
    <2>3. ASSUME NEW c, AfterBody(c)
          PROVE  UNCHANGED lifeVars
      BY <2>3 DEF AfterBody, lifeVars
    <2>4. ASSUME NEW c, RequestApplied(c) \/ WriteJson(c)
          PROVE  UNCHANGED lifeVars
      BY <2>4 DEF RequestApplied, WriteJson, lifeVars
    <2> QED
      BY <1>2, <2>1, <2>2, <2>3, <2>4 DEF HttpNext, LifeStep
  <1>3. CASE UNCHANGED serversVars
    BY <1>3 DEF serversVars, httpVars, lifeVars
  <1> QED
    BY <1>1, <1>2, <1>3 DEF ServersNext

LEMMA LifeInvariant == ServersSpec => []LifeInv
  <1>1. ServersInit => LifeInv
    BY EmptySeq DEF ServersInit, HttpInit, LifeInv, LifeType, HeldOK, LooseOK, AwaitedOK,
                    NoServer
  <1>2. LifeInv /\ [ServersNext]_serversVars => LifeInv'
    <2> SUFFICES ASSUME LifeInv, [ServersNext]_serversVars PROVE LifeInv'
      OBVIOUS
    <2>1. CASE LifeStep
      BY <2>1, StartInv, StopInv, BoundInv, ClosedInv DEF LifeStep
    <2>2. CASE UNCHANGED lifeVars
      BY <2>2 DEF lifeVars, LifeInv, LifeType, HeldOK, LooseOK, AwaitedOK, Some
    <2> QED
      BY <2>1, <2>2, StepsOfLife
  <1> QED
    BY <1>1, <1>2, PTL DEF ServersSpec

\* A server that listens is the one stop() would close, or one whose stop() came before it
\* was bound and was told so (stop, server.close).
THEOREM NoListenerLost == ServersSpec => []ListenersAreHeld
  <1>1. LifeInv => ListenersAreHeld
    BY DEF LifeInv, LooseOK, ListenersAreHeld, Some
  <1> QED
    BY <1>1, LifeInvariant, PTL

-----------------------------------------------------------------------------
(* What start() promises *)

\* A promise of start() is fulfilled as the server is bound, or because there is one that
\* is being bound, listens, or has failed and told so (start).
THEOREM StartKeepsItsPromise == ServersSpec => StartTellsTheTruth
  <1> DEFINE Truthful ==
        \A k \in DOMAIN starts' :
          LET s == starts'[k].server
          IN  /\ starts'[k].phase = "resolved"
              /\ k \in DOMAIN starts => starts[k].phase # "resolved"
              => \/ listeners'[s] = "listening"
                 \/ \E j \in 1..(k - 1) : starts[j] \in [phase : {"pending", "rejected"},
                                                         server : {s}]
  <1>1. LifeInv /\ [ServersNext]_serversVars => Truthful
    <2> SUFFICES ASSUME LifeInv, [ServersNext]_serversVars,
                        NEW k \in DOMAIN starts',
                        starts'[k].phase = "resolved",
                        k \in DOMAIN starts => starts[k].phase # "resolved"
                 PROVE  \/ listeners'[starts'[k].server] = "listening"
                        \/ \E j \in 1..(k - 1) :
                             starts[j] \in [phase : {"pending", "rejected"},
                                            server : {starts'[k].server}]
      OBVIOUS
    <2>1. /\ starts \in Seq(Promises) /\ server \in Nat
          /\ listeners \in Seq(ListenerStates) /\ DOMAIN listeners \subseteq Nat
      BY LenProperties DEF LifeInv, LifeType
    <2>2. CASE Start
      <3>1. CASE /\ server # NoServer
                 /\ starts' = Append(starts, [phase |-> "resolved", server |-> server])
                 /\ UNCHANGED <<server, listeners>>
        <4>1. [phase |-> "resolved", server |-> server] \in Promises
          BY <2>1 DEF Promises
        <4>2. k = Len(starts) + 1 /\ starts'[k] = [phase |-> "resolved", server |-> server]
          BY <2>1, <3>1, <4>1, AppendKeeps
        <4>3. /\ server \in DOMAIN listeners
              /\ listeners[server] \in {"binding", "listening", "failed"}
          BY <3>1 DEF LifeInv, HeldOK
        <4>4. CASE listeners[server] = "listening"
          BY <3>1, <4>2, <4>4
        <4>5. CASE listeners[server] # "listening"
          <5>1. PICK phase \in {"pending", "rejected"} : Some(starts, phase, server)
            BY <4>3, <4>5 DEF LifeInv, AwaitedOK
          <5>2. PICK j \in DOMAIN starts : starts[j] = [phase |-> phase, server |-> server]
            BY <5>1 DEF Some
          <5>3. j \in 1..(k - 1)
            BY <2>1, <4>2, <5>2, LenProperties
          <5> QED
            BY <4>2, <5>2, <5>3
        <4> QED
          BY <4>4, <4>5
      <3>2. CASE /\ server = NoServer
                 /\ server' = Len(listeners) + 1
                 /\ starts' = Append(starts, [phase |-> "pending", server |-> server'])
        <4>1. [phase |-> "pending", server |-> server'] \in Promises
          BY <2>1, <3>2, LenProperties DEF Promises
        <4> QED
          BY <2>1, <3>2, <4>1, AppendKeeps
      <3> QED
        BY <2>2, <3>1, <3>2 DEF Start
    <2>3. ASSUME NEW s \in DOMAIN listeners, NEW phase \in {"resolved", "rejected"},
                 starts' = Settled(starts, s, phase)
          PROVE  starts'[k] = [phase |-> phase, server |-> s]
      <3>1. s \in Nat
        BY <2>1
      <3>2. /\ k \in DOMAIN starts
            /\ starts'[k] = Outcome(starts[k], s, phase)
        BY <2>1, <2>3, <3>1, SettledPromises
      <3> QED
        BY <3>2 DEF Outcome
    <2>4. ASSUME NEW s \in DOMAIN listeners, OnError(s)
          PROVE  FALSE
      <3>1. starts'[k] = [phase |-> "rejected", server |-> s]
        BY <2>3, <2>4 DEF OnError
      <3> QED
        BY <3>1
    <2>5. ASSUME NEW s \in DOMAIN listeners, OnListening(s)
          PROVE  listeners'[starts'[k].server] = "listening"
      <3>1. listeners' = [listeners EXCEPT ![s] = "listening"]
        BY <2>5 DEF OnListening
      <3>2. starts'[k] = [phase |-> "resolved", server |-> s]
        BY <2>3, <2>5 DEF OnListening
      <3>3. listeners'[s] = "listening"
        BY <3>1, ListenerGoesOn DEF ListenerStates
      <3> QED
        BY <3>2, <3>3
    <2>6. starts' # starts
      OBVIOUS
    <2> QED
      BY <2>2, <2>4, <2>5, <2>6, StepsOfLife DEF LifeStep, lifeVars, Stop, Closed
  <1>2. LifeInv /\ [ServersNext]_serversVars => [Truthful]_serversVars
    BY <1>1
  <1> QED
    BY <1>2, LifeInvariant, PTL DEF ServersSpec, StartTellsTheTruth

-----------------------------------------------------------------------------
(* Replies *)

MessageOK(m) == m.form = "request" /\ m.id \in Ids

LEMMA IdsOfMessages ==
  /\ NullId \in Ids
  /\ \A line \in LineMessages : line.id \in Ids
  /\ \A request \in HttpRequests : request.message.id \in Ids
  BY DEF Ids

\* What the router says without waiting is a reply to what it was given.
LEMMA AtOnceFits ==
  ASSUME NEW m, MessageOK(m), NEW reply \in RepliesAtOnce(m)
  PROVE  reply \in Replies /\ FitsMessage(m, reply)
  <1>1. CASE m.method \in {"initialize", "tools/list"}
    <2>1. reply = Result(m.id)
      BY <1>1 DEF RepliesAtOnce, CallsTool
    <2> QED
      BY <1>1, <2>1 DEF MessageOK, Result, Replies, FitsMessage
  <1>2. CASE m.method = "tools/call" /\ m.tool = BadParams
    <2>1. reply = InternalError(m.id)
      BY <1>2, ClientsAssumption DEF RepliesAtOnce, CallsTool
    <2> QED
      BY <1>2, <2>1 DEF MessageOK, InternalError, ErrorReply, Replies, FitsMessage
  <1>3. CASE CallsTool(m)
    <2>1. PICK status \in {"SUCCESS", "FAILED"} : reply = Payload(m.id, status)
      BY <1>3, ClientsAssumption DEF RepliesAtOnce, CallsTool, ToolStatuses
    <2> QED
      BY <1>3, <2>1 DEF MessageOK, CallsTool, Payload, Replies, FitsMessage
  <1>4. CASE m.method = "tools/call" /\ m.tool \notin Tools \cup {BadParams}
    <2>1. reply = Payload(m.id, "FAILED")
      BY <1>4 DEF RepliesAtOnce, CallsTool
    <2> QED
      BY <1>4, <2>1 DEF MessageOK, Payload, Replies, FitsMessage
  <1>5. CASE m.method \notin {"initialize", "tools/list", "tools/call"}
    <2>1. reply = ErrorReply(m.id, -32601)
      BY <1>5 DEF RepliesAtOnce, CallsTool
    <2> QED
      BY <1>5, <2>1 DEF MessageOK, ErrorReply, Replies, FitsMessage
  <1> QED
    BY <1>1, <1>2, <1>3, <1>4, <1>5 DEF CallsTool

LEMMA AppliedFits ==
  ASSUME NEW m, MessageOK(m), Waits(m), NEW reply \in RepliesOfApply(m)
  PROVE  reply \in Replies /\ FitsMessage(m, reply)
  <1>1. PICK status \in {"SUCCESS", "PARTIAL_SUCCESS", "FAILED"} :
          reply = Payload(m.id, status)
    BY DEF RepliesOfApply
  <1> QED
    BY <1>1 DEF MessageOK, Waits, CallsTool, Tools, Payload, Replies, FitsMessage

LEMMA RefusalsFit ==
  /\ ParseError \in Replies /\ InvalidRequest \in Replies
  /\ \A m : m.form = "unparsable" => FitsMessage(m, ParseError)
  /\ \A m : m.form = "invalid" => FitsMessage(m, InvalidRequest)
  BY IdsOfMessages DEF ParseError, InvalidRequest, ErrorReply, Replies, FitsMessage

\* How far a message has come, as a handler of either server knows it.
Underway(m, phase, reply) ==
    /\ phase = "applying" => m.form = "request" /\ Waits(m)
    /\ phase = "replying" => reply \in Replies /\ FitsMessage(m, reply)

LEMMA HandledIsUnderway ==
  ASSUME NEW m, MessageOK(m), NEW from, NEW phase, NEW reply, Handle(m, from, phase, reply)
  PROVE  /\ phase \in {"replying", "applying"}
         /\ reply \in Replies \cup {NoReply}
         /\ Underway(m, phase, reply)
         /\ served' = IF CallsTool(m) THEN Append(served, from) ELSE served
  <1>1. served' = IF CallsTool(m) THEN Append(served, from) ELSE served
    BY DEF Handle, Serve
  <1>2. CASE phase = "replying" /\ reply \in RepliesAtOnce(m)
    BY <1>1, <1>2, AtOnceFits DEF Underway
  <1>3. CASE phase = "applying" /\ reply = NoReply /\ Waits(m)
    BY <1>1, <1>3 DEF Underway, MessageOK
  <1> QED
    BY <1>2, <1>3 DEF Handle

-----------------------------------------------------------------------------
(* The lines of stdin *)

HandlerRecords ==
    [phase : {"unread", "replying", "applying", "done"}, reply : Replies \cup {NoReply}]

OutputRecords == [line : Nat, reply : Replies]

LinesType ==
    /\ input \in Inputs
    /\ read \in 0..Len(input)
    /\ handlers \in [Lines -> HandlerRecords]
    /\ output \in Seq(OutputRecords)

HandlersOK ==
    \A n \in Lines :
        /\ handlers[n].phase = "unread" <=> n > read
        /\ Underway(input[n], handlers[n].phase, handlers[n].reply)

OutputOK ==
    /\ \A k \in DOMAIN output :
          output[k].line \in Lines /\ handlers[output[k].line].phase = "done"
    /\ \A j, k \in DOMAIN output : output[j].line = output[k].line => j = k

LinesInv == LinesType /\ HandlersOK /\ OutputOK

\* What the steps of a line have in common.
LineGoesOn(n) ==
    /\ n \in Lines /\ UNCHANGED input
    /\ \E h \in HandlerRecords :
          /\ handlers' = [handlers EXCEPT ![n] = h]
          /\ h.phase # "unread" /\ Underway(input[n], h.phase, h.reply)
          /\ \/ UNCHANGED output
             \/ /\ h.phase = "done"
                /\ \E reply \in Replies : /\ FitsMessage(input[n], reply)
                                          /\ output' = Append(output, [line |-> n,
                                                                       reply |-> reply])
    /\ handlers[n].phase # "done"
    /\ \/ read' = read /\ n <= read
       \/ read' = n /\ n = read + 1

LEMMA LinesOfInput ==
  ASSUME LinesType
  PROVE  /\ Lines = 1..Len(input) /\ Len(input) \in 0..MaxClients
         /\ read \in Nat /\ MaxClients \in Nat
         /\ \A n \in Lines : input[n] \in LineMessages /\ input[n].id \in Ids
         /\ DOMAIN handlers = Lines
  <1>1. input \in Seq(LineMessages) /\ Len(input) <= MaxClients /\ MaxClients \in Nat
    BY ClientsAssumption DEF LinesType
  <1>2. Lines = 1..Len(input) /\ Len(input) \in Nat
    BY <1>1, LenProperties DEF Lines
  <1>3. \A n \in Lines : input[n] \in LineMessages
    BY <1>1, <1>2, ElementOfSeq
  <1> QED
    BY <1>1, <1>2, <1>3, IdsOfMessages DEF LinesType

LEMMA OnLineGoesOn ==
  ASSUME LinesInv, NEW n \in Lines, OnLine(n)
  PROVE  /\ LineGoesOn(n) /\ read' = n /\ n = read + 1
         /\ served' = IF input[n].form = "request" /\ CallsTool(input[n])
                      THEN Append(served, n) ELSE served
  <1> DEFINE line == input[n]
             done == [handlers[n] EXCEPT !.phase = "done"]
  <1>1. n = read + 1 /\ read' = n /\ UNCHANGED input
    BY DEF OnLine
  <1>2. /\ line.id \in Ids /\ read \in Nat
        /\ handlers[n] \in HandlerRecords /\ handlers[n].phase # "done"
    <2>1. handlers[n].phase = "unread"
      BY <1>1, LinesOfInput DEF LinesInv, HandlersOK
    <2> QED
      BY <2>1, LinesOfInput DEF LinesInv, LinesType
  <1>3. done \in HandlerRecords /\ done.phase = "done"
    BY <1>2 DEF HandlerRecords
  <1>4. Underway(line, "done", done.reply)
    BY DEF Underway
  <1>5. ASSUME NEW reply \in Replies, FitsMessage(line, reply),
               handlers' = [handlers EXCEPT ![n].phase = "done"],
               \/ UNCHANGED output
               \/ output' = Append(output, [line |-> n, reply |-> reply])
        PROVE  LineGoesOn(n)
    <2>1. handlers' = [handlers EXCEPT ![n] = done]
      BY <1>5
    <2> QED
      BY <1>1, <1>2, <1>3, <1>4, <1>5, <2>1 DEF LineGoesOn
  <1>6. CASE /\ line.form = "blank"
             /\ handlers' = [handlers EXCEPT ![n].phase = "done"]
             /\ UNCHANGED <<output, served>>
    <2>1. handlers' = [handlers EXCEPT ![n] = done]
      BY <1>6
    <2> QED
      BY <1>1, <1>2, <1>3, <1>4, <1>6, <2>1 DEF LineGoesOn
  <1>7. CASE /\ line.form = "unparsable"
             /\ handlers' = [handlers EXCEPT ![n].phase = "done"]
             /\ output' = Append(output, [line |-> n, reply |-> ParseError])
             /\ UNCHANGED served
    BY <1>1, <1>5, <1>7, RefusalsFit
  <1>8. CASE /\ line.form = "invalid"
             /\ handlers' = [handlers EXCEPT ![n].phase = "done"]
             /\ output' = Append(output, [line |-> n, reply |-> InvalidRequest])
             /\ UNCHANGED served
    BY <1>1, <1>5, <1>8, RefusalsFit
  <1>9. ASSUME line.form = "request", NEW phase, NEW reply, Handle(line, n, phase, reply),
               handlers' = [handlers EXCEPT ![n] = [phase |-> phase, reply |-> reply]],
               UNCHANGED output
        PROVE  /\ LineGoesOn(n)
               /\ served' = IF CallsTool(line) THEN Append(served, n) ELSE served
    <2>1. /\ phase \in {"replying", "applying"} /\ reply \in Replies \cup {NoReply}
          /\ Underway(line, phase, reply)
          /\ served' = IF CallsTool(line) THEN Append(served, n) ELSE served
      BY <1>2, <1>9, HandledIsUnderway DEF MessageOK
    <2> DEFINE h == [phase |-> phase, reply |-> reply]
    <2>2. h \in HandlerRecords /\ h.phase = phase /\ h.reply = reply
      BY <2>1 DEF HandlerRecords
    <2> HIDE DEF h
    <2>3. handlers' = [handlers EXCEPT ![n] = h]
      BY <1>9 DEF h
    <2> QED
      BY <1>1, <1>2, <1>9, <2>1, <2>2, <2>3 DEF LineGoesOn
  <1> HIDE DEF done
  <1> QED
    BY <1>1, <1>6, <1>7, <1>8, <1>9 DEF OnLine

LEMMA LineStepGoesOn ==
  ASSUME LinesInv, NEW n \in Lines, LineApplied(n) \/ Write(n)
  PROVE  LineGoesOn(n) /\ UNCHANGED <<served, read>>
  <1>1. UNCHANGED <<served, read, input>>
    BY DEF LineApplied, Write
  <1>2. /\ handlers[n] \in HandlerRecords /\ input[n].id \in Ids /\ read \in Nat /\ n \in Nat
        /\ Underway(input[n], handlers[n].phase, handlers[n].reply)
    BY LinesOfInput DEF LinesInv, LinesType, HandlersOK
  <1>3. handlers[n].phase # "unread" => n <= read
    BY <1>2 DEF LinesInv, HandlersOK
  <1>4. CASE LineApplied(n)
    <2>1. PICK reply \in RepliesOfApply(input[n]) :
            handlers' = [handlers EXCEPT ![n] = [phase |-> "replying", reply |-> reply]]
      BY <1>4 DEF LineApplied
    <2>2. handlers[n].phase = "applying" /\ UNCHANGED output
      BY <1>4 DEF LineApplied
    <2>3. Waits(input[n]) /\ input[n].form = "request"
      BY <1>2, <2>2 DEF Underway
    <2>4. reply \in Replies /\ FitsMessage(input[n], reply)
      BY <1>2, <2>3, AppliedFits DEF MessageOK
    <2> DEFINE h == [phase |-> "replying", reply |-> reply]
    <2>5. h \in HandlerRecords /\ h.phase = "replying" /\ h.reply = reply
      BY <2>4 DEF HandlerRecords
    <2>6. Underway(input[n], h.phase, h.reply)
      BY <2>4, <2>5 DEF Underway
    <2> HIDE DEF h
    <2> QED
      BY <1>1, <1>3, <2>1, <2>2, <2>5, <2>6 DEF LineGoesOn, h
  <1>5. CASE Write(n)
    <2> DEFINE h == [handlers[n] EXCEPT !.phase = "done"]
    <2>1. /\ handlers[n].phase = "replying"
          /\ handlers' = [handlers EXCEPT ![n] = h]
          /\ output' = Append(output, [line |-> n, reply |-> handlers[n].reply])
      BY <1>5 DEF Write
    <2>2. h \in HandlerRecords /\ h.phase = "done"
      BY <1>2 DEF HandlerRecords
    <2>3. Underway(input[n], h.phase, h.reply)
      BY <2>2 DEF Underway
    <2>4. handlers[n].reply \in Replies /\ FitsMessage(input[n], handlers[n].reply)
      BY <1>2, <2>1 DEF Underway
    <2> HIDE DEF h
    <2> QED
      BY <1>1, <1>3, <2>1, <2>2, <2>3, <2>4 DEF LineGoesOn
  <1> QED
    BY <1>1, <1>4, <1>5

LEMMA LineKeeps ==
  ASSUME LinesInv, NEW n \in Lines, LineGoesOn(n)
  PROVE  LinesInv'
  <1>1. PICK h \in HandlerRecords :
          /\ handlers' = [handlers EXCEPT ![n] = h]
          /\ h.phase # "unread" /\ Underway(input[n], h.phase, h.reply)
          /\ \/ UNCHANGED output
             \/ /\ h.phase = "done"
                /\ \E reply \in Replies :
                     output' = Append(output, [line |-> n, reply |-> reply])
    BY DEF LineGoesOn
  <1>2. /\ input' = input /\ handlers[n].phase # "done" /\ Lines' = Lines
        /\ \/ read' = read /\ n <= read
           \/ read' = n /\ n = read + 1
    BY DEF LineGoesOn, Lines
  <1>3. /\ Lines = 1..Len(input) /\ DOMAIN handlers = Lines /\ read \in Nat
        /\ Len(input) \in Nat
    BY LinesOfInput DEF LinesInv
  <1>4. /\ handlers' \in [Lines -> HandlerRecords]
        /\ handlers'[n] = h
        /\ \A k \in Lines \ {n} : handlers'[k] = handlers[k]
    BY <1>1, <1>3 DEF LinesInv, LinesType
  <1>5. output \in Seq(OutputRecords)
    BY DEF LinesInv, LinesType
  <1>6. \A k \in DOMAIN output : output[k].line \in Lines \ {n}
    BY <1>2 DEF LinesInv, OutputOK
  <1>7. HandlersOK'
    BY <1>1, <1>2, <1>3, <1>4 DEF LinesInv, HandlersOK
  <1>8. read' \in 0..Len(input)
    BY <1>2, <1>3 DEF LinesInv, LinesType
  <1>9. CASE UNCHANGED output
    BY <1>2, <1>4, <1>5, <1>6, <1>7, <1>8, <1>9 DEF LinesInv, LinesType, OutputOK
  <1>10. ASSUME h.phase = "done", NEW reply \in Replies,
                output' = Append(output, [line |-> n, reply |-> reply])
         PROVE  LinesInv'
    <2> DEFINE out == [line |-> n, reply |-> reply]
    <2>1. out \in OutputRecords /\ out.line = n
      BY <1>3 DEF OutputRecords
    <2> HIDE DEF out
    <2>2. output' = Append(output, out)
      BY <1>10 DEF out
    <2>3. /\ output' \in Seq(OutputRecords)
          /\ DOMAIN output' = DOMAIN output \cup {Len(output) + 1}
          /\ output'[Len(output) + 1] = out
          /\ \A k \in DOMAIN output : output'[k] = output[k]
      BY <1>5, <2>1, <2>2, AppendProperties, LenProperties
    <2>4. OutputOK'
      BY <1>2, <1>4, <1>6, <1>10, <2>1, <2>3 DEF LinesInv, OutputOK
    <2> QED
      BY <1>2, <1>4, <1>7, <1>8, <2>3, <2>4 DEF LinesInv, LinesType
  <1> QED
    BY <1>1, <1>9, <1>10

-----------------------------------------------------------------------------
(* The requests over HTTP *)

RequestRecords ==
    [phase : {"reading", "read", "applying", "replying", "answered"},
     request : HttpRequests, server : Nat, bytes : Nat,
     body : {"none", "whole", "too large", "broken"}, connected : BOOLEAN,
     reply : Replies \cup HttpReplies \cup {NoReply}]

ByPost(r) == r.request.path = "/mcp" /\ r.request.method = "POST"

WholeBody(r) ==
    /\ r.body = "whole" /\ ByPost(r)
    /\ r.bytes = r.request.length /\ r.request.length <= MaxBodyUnits

RequestOK(r) ==
    /\ r.phase # "answered" => ByPost(r)
    /\ r.phase = "reading" => r.bytes <= MaxBodyUnits
    /\ r.body \in {"too large", "broken"} => ~ r.connected
    /\ r.body = "whole" => WholeBody(r)
    /\ r.phase \in {"applying", "replying"} =>
         r.body = "whole" /\ r.request.message.form = "request"
    /\ Underway(r.request.message, r.phase, r.reply)

RequestsInv ==
    /\ requests \in Seq(RequestRecords)
    /\ Len(requests) <= MaxRequests
    /\ \A c \in DOMAIN requests : RequestOK(requests[c])

\* What may become of request r: it is the same, and its reply goes out once and fits.
Successor(r, next) ==
    /\ next \in RequestRecords /\ RequestOK(next) /\ next.request = r.request
    /\ r.phase # "answered"
    /\ next.phase = "answered" =>
         \/ next.reply = NoReply
         \/ next.reply \in HttpReplies /\ FitsHttp(next.request, next.reply)
    /\ r.phase \in {"applying", "replying"} =>
         next.phase \in {"applying", "replying", "answered"} /\ next.body = r.body

RequestGoesOn(c) ==
    /\ c \in DOMAIN requests
    /\ \E next : Successor(requests[c], next) /\ requests' = [requests EXCEPT ![c] = next]

LEMMA RequestsAreOK ==
  ASSUME RequestsInv, NEW c \in DOMAIN requests
  PROVE  /\ requests[c] \in RequestRecords /\ RequestOK(requests[c])
         /\ requests[c].request \in HttpRequests
         /\ requests[c].request.length \in Nat
         /\ requests[c].request.message.id \in Ids
         /\ MaxBodyUnits \in Nat
  <1>1. requests[c] \in RequestRecords
    BY ElementOfSeq, LenProperties DEF RequestsInv
  <1> QED
    BY <1>1, IdsOfMessages, ClientsAssumption DEF RequestsInv, RequestRecords

\* A response after the body is read: none goes out when the connection is gone, and one
\* that does says what became of the message.
LEMMA AnswerFits ==
  ASSUME NEW r \in RequestRecords, RequestOK(r), r.phase \in {"read", "replying"},
         NEW status, NEW reply,
         \/ ~ r.connected
         \/ /\ WholeBody(r) /\ status \in {200, 400} /\ reply \in Replies
            /\ status = 400 <=> r.request.message.form \in {"unparsable", "invalid"}
            /\ FitsMessage(r.request.message, reply)
  PROVE  Successor(r, Answer(r, status, reply))
  <1> DEFINE out == IF r.connected THEN HttpReply(status, reply) ELSE NoReply
             next == [r EXCEPT !.phase = "answered", !.reply = out]
  <1>1. Answer(r, status, reply) = next
    BY DEF Answer
  <1>2. \/ out = NoReply
        \/ out \in HttpReplies /\ FitsHttp(r.request, out)
    <2>1. CASE ~ r.connected
      BY <2>1
    <2>2. CASE r.connected
      <3>1. /\ WholeBody(r) /\ status \in {200, 400} /\ reply \in Replies
            /\ status = 400 <=> r.request.message.form \in {"unparsable", "invalid"}
            /\ FitsMessage(r.request.message, reply)
        BY <2>2
      <3>2. out = [status |-> status, json |-> reply]
        BY <2>2 DEF HttpReply
      <3>3. reply # NoReply
        BY <3>1, ClientsAssumption
      <3> HIDE DEF out
      <3>4. out.status = status /\ out.json = reply
        BY <3>2
      <3>5. out \in HttpReplies
        BY <3>1, <3>2 DEF HttpReplies
      <3>6. FitsHttp(r.request, out)
        BY <3>1, <3>3, <3>4 DEF FitsHttp, WholeBody, ByPost
      <3> QED
        BY <3>5, <3>6
    <2> QED
      BY <2>1, <2>2
  <1> HIDE DEF out
  <1>3. /\ next \in RequestRecords /\ next.phase = "answered" /\ next.reply = out
        /\ next.request = r.request /\ next.body = r.body /\ next.bytes = r.bytes
        /\ next.connected = r.connected
    BY <1>2 DEF RequestRecords
  <1> HIDE DEF next
  <1>4. RequestOK(next)
    BY <1>3 DEF RequestOK, Underway, WholeBody, ByPost
  <1> QED
    BY <1>1, <1>2, <1>3, <1>4 DEF Successor

LEMMA BodyGoesOn ==
  ASSUME RequestsInv, NEW c \in DOMAIN requests,
         OnData(c) \/ OnEnd(c) \/ ClientLeaves(c)
  PROVE  RequestGoesOn(c) /\ UNCHANGED served
  <1> DEFINE r == requests[c]
  <1>1. /\ r \in RequestRecords /\ RequestOK(r) /\ r.request.length \in Nat
        /\ MaxBodyUnits \in Nat
    BY RequestsAreOK
  <1> SUFFICES \E next : /\ Successor(r, next)
                         /\ requests' = [requests EXCEPT ![c] = next]
    BY DEF RequestGoesOn, OnData, OnEnd, ClientLeaves
  <1>2. ASSUME NEW bytes \in Nat, NEW phase, NEW body, NEW connected \in BOOLEAN,
               r.phase = "reading",
               \/ /\ phase = "reading" /\ body = r.body /\ connected = r.connected
                  /\ bytes <= MaxBodyUnits /\ r.body # "whole"
               \/ /\ phase = "read" /\ body \in {"too large", "broken"}
                  /\ connected = FALSE
               \/ /\ phase = "read" /\ body = "whole" /\ connected = r.connected
                  /\ bytes = r.bytes /\ r.bytes = r.request.length
        PROVE  Successor(r, [r EXCEPT !.bytes = bytes, !.phase = phase, !.body = body,
                                      !.connected = connected])
    <2> DEFINE next == [r EXCEPT !.bytes = bytes, !.phase = phase, !.body = body,
                                 !.connected = connected]
    <2>1. /\ next \in RequestRecords /\ next.phase = phase /\ next.bytes = bytes
          /\ next.body = body /\ next.request = r.request /\ next.reply = r.reply
      BY <1>1, <1>2 DEF RequestRecords
    <2>2. next.connected = connected
      BY <1>1 DEF RequestRecords
    <2> HIDE DEF next
    <2>3. RequestOK(next)
      BY <1>1, <1>2, <2>1, <2>2 DEF RequestOK, Underway, WholeBody, ByPost
    <2>4. Successor(r, next)
      BY <1>2, <2>1, <2>3 DEF Successor
    <2> QED
      BY <2>4 DEF next
  <1>3. CASE OnData(c)
    <2>1. /\ r.phase = "reading" /\ r.connected /\ r.bytes < r.request.length
          /\ requests' = [requests EXCEPT ![c] =
                IF r.bytes + 1 > MaxBodyUnits
                THEN [r EXCEPT !.bytes = r.bytes + 1, !.phase = "read", !.body = "too large",
                               !.connected = FALSE]
                ELSE [r EXCEPT !.bytes = r.bytes + 1]]
      BY <1>3 DEF OnData
    <2> HIDE DEF r
    <2> DEFINE bytes == r.bytes
    <2>2. bytes \in Nat
      BY <1>1 DEF RequestRecords
    <2> HIDE DEF bytes
    <2>5. bytes + 1 \in Nat
      BY <2>2
    <2>3. CASE r.bytes + 1 > MaxBodyUnits
      <3> DEFINE next == [r EXCEPT !.bytes = r.bytes + 1, !.phase = "read",
                                   !.body = "too large", !.connected = FALSE]
      <3>1. Successor(r, next)
        BY <1>2, <2>1, <2>5 DEF bytes
      <3>2. requests' = [requests EXCEPT ![c] = next]
        BY <2>1, <2>3
      <3> QED
        BY <3>1, <3>2
    <2>4. CASE ~ (r.bytes + 1 > MaxBodyUnits)
      <3> DEFINE next == [r EXCEPT !.bytes = r.bytes + 1, !.phase = "reading",
                                   !.body = r.body, !.connected = r.connected]
      <3>7. r.bytes # r.request.length
        BY <1>1, <2>1, <2>2 DEF bytes
      <3>1. r.body # "whole"
        BY <1>1, <3>7 DEF RequestOK, WholeBody
      <3>2. r.connected \in BOOLEAN
        BY <1>1 DEF RequestRecords
      <3>3. r.bytes + 1 <= MaxBodyUnits
        BY <1>1, <2>2, <2>4 DEF bytes
      <3>4. Successor(r, next)
        BY <1>2, <2>1, <2>5, <3>1, <3>2, <3>3 DEF bytes
      <3>5. next = [r EXCEPT !.bytes = r.bytes + 1]
        BY <1>1, <2>1 DEF RequestRecords
      <3>6. requests' = [requests EXCEPT ![c] = next]
        BY <2>1, <2>4, <3>5
      <3> QED
        BY <3>4, <3>6
    <2> QED
      BY <2>3, <2>4
  <1>4. CASE OnEnd(c)
    <2>1. /\ r.phase = "reading" /\ r.connected /\ r.bytes = r.request.length
          /\ requests' = [requests EXCEPT ![c] = [r EXCEPT !.phase = "read",
                                                          !.body = "whole"]]
      BY <1>4 DEF OnEnd
    <2> DEFINE next == [r EXCEPT !.bytes = r.bytes, !.phase = "read",
                                 !.body = "whole", !.connected = r.connected]
    <2>2. r.bytes \in Nat /\ r.connected \in BOOLEAN
      BY <1>1 DEF RequestRecords
    <2>3. Successor(r, next)
      BY <1>2, <2>1, <2>2
    <2>4. next = [r EXCEPT !.phase = "read", !.body = "whole"]
      BY <1>1 DEF RequestRecords
    <2>5. requests' = [requests EXCEPT ![c] = next]
      BY <2>1, <2>4
    <2> QED
      BY <2>3, <2>5
  <1>5. CASE ClientLeaves(c)
    <2>1. /\ r.connected /\ r.phase # "answered"
          /\ requests' = [requests EXCEPT ![c] =
                IF r.phase = "reading"
                THEN [r EXCEPT !.connected = FALSE, !.phase = "read", !.body = "broken"]
                ELSE [r EXCEPT !.connected = FALSE]]
      BY <1>5 DEF ClientLeaves
    <2>2. r.bytes \in Nat
      BY <1>1 DEF RequestRecords
    <2>3. CASE r.phase = "reading"
      <3> DEFINE next == [r EXCEPT !.bytes = r.bytes, !.phase = "read",
                                   !.body = "broken", !.connected = FALSE]
      <3>1. Successor(r, next)
        BY <1>2, <2>2, <2>3
      <3>2. next = [r EXCEPT !.connected = FALSE, !.phase = "read", !.body = "broken"]
        BY <1>1 DEF RequestRecords
      <3>3. requests' = [requests EXCEPT ![c] = next]
        BY <2>1, <2>3, <3>2
      <3> QED
        BY <3>1, <3>3
    <2>4. CASE r.phase # "reading"
      <3> DEFINE next == [r EXCEPT !.connected = FALSE]
      <3>1. /\ next \in RequestRecords /\ next.phase = r.phase /\ next.bytes = r.bytes
            /\ next.body = r.body /\ next.request = r.request /\ next.reply = r.reply
        BY <1>1 DEF RequestRecords
      <3>2. ~ next.connected
        BY <1>1 DEF RequestRecords
      <3>3. requests' = [requests EXCEPT ![c] = next]
        BY <2>1, <2>4
      <3> HIDE DEF next
      <3>4. RequestOK(next)
        BY <1>1, <2>4, <3>1, <3>2 DEF RequestOK, WholeBody, ByPost
      <3>5. Successor(r, next)
        BY <2>1, <3>1, <3>4 DEF Successor
      <3> QED
        BY <3>3, <3>5
    <2> QED
      BY <2>3, <2>4
  <1> QED
    BY <1>3, <1>4, <1>5

LEMMA AfterBodyGoesOn ==
  ASSUME RequestsInv, NEW c \in DOMAIN requests, AfterBody(c)
  PROVE  /\ RequestGoesOn(c) /\ requests[c].phase = "read"
         /\ \/ UNCHANGED served
            \/ /\ served' = Append(served, c)
               /\ requests'[c].phase \in {"applying", "replying"}
  <1> DEFINE r == requests[c]
             message == r.request.message
  <1>1. r \in RequestRecords /\ RequestOK(r) /\ message.id \in Ids /\ r.phase = "read"
    BY RequestsAreOK DEF AfterBody
  <1>2. ASSUME NEW status, NEW reply, Respond(c, status, reply),
               \/ ~ r.connected
               \/ /\ WholeBody(r) /\ status \in {200, 400} /\ reply \in Replies
                  /\ status = 400 <=> message.form \in {"unparsable", "invalid"}
                  /\ FitsMessage(message, reply)
        PROVE  RequestGoesOn(c) /\ UNCHANGED served
    <2>1. Successor(r, Answer(r, status, reply))
      BY <1>1, <1>2, AnswerFits
    <2>2. requests' = [requests EXCEPT ![c] = Answer(r, status, reply)] /\ UNCHANGED served
      BY <1>2 DEF Respond
    <2> QED
      BY <2>1, <2>2 DEF RequestGoesOn
  <1>3. CASE r.body \in {"too large", "broken"}
    <2>1. ~ r.connected
      BY <1>1, <1>3 DEF RequestOK
    <2>2. \E status, reply : Respond(c, status, reply)
      BY <1>3 DEF AfterBody
    <2> QED
      BY <1>1, <1>2, <2>1, <2>2
  <1>4. CASE r.body = "whole"
    <2>1. WholeBody(r)
      BY <1>1, <1>4 DEF RequestOK
    <2>2. CASE message.form = "unparsable" /\ Respond(c, 400, ParseError)
      BY <1>1, <1>2, <2>1, <2>2, RefusalsFit
    <2>3. CASE message.form = "invalid" /\ Respond(c, 400, InvalidRequest)
      BY <1>1, <1>2, <2>1, <2>3, RefusalsFit
    <2>4. ASSUME message.form = "request", NEW phase, NEW reply,
                 Handle(message, c, phase, reply),
                 requests' = [requests EXCEPT ![c] = AtRouter(@, phase, reply)]
          PROVE  /\ RequestGoesOn(c)
                 /\ \/ UNCHANGED served
                    \/ /\ served' = Append(served, c)
                       /\ requests'[c].phase \in {"applying", "replying"}
      <3>1. /\ phase \in {"replying", "applying"} /\ reply \in Replies \cup {NoReply}
            /\ Underway(message, phase, reply)
            /\ served' = IF CallsTool(message) THEN Append(served, c) ELSE served
        BY <1>1, <2>4, HandledIsUnderway DEF MessageOK
      <3> DEFINE next == [r EXCEPT !.phase = phase, !.reply = reply]
      <3>2. requests' = [requests EXCEPT ![c] = next]
        BY <2>4 DEF AtRouter
      <3>3. /\ next \in RequestRecords /\ next.phase = phase /\ next.reply = reply
            /\ next.request = r.request /\ next.body = r.body /\ next.bytes = r.bytes
            /\ next.connected = r.connected
        BY <1>1, <3>1 DEF RequestRecords
      <3> HIDE DEF next
      <3>4. RequestOK(next)
        BY <1>1, <1>4, <2>1, <2>4, <3>1, <3>3 DEF RequestOK, WholeBody, ByPost
      <3>5. Successor(r, next)
        BY <1>1, <3>1, <3>3, <3>4 DEF Successor
      <3>6. requests'[c] = next
        BY <3>2
      <3> QED
        BY <3>1, <3>2, <3>3, <3>5, <3>6 DEF RequestGoesOn
    <2> QED
      BY <1>4, <2>2, <2>3, <2>4, <1>1, <1>2, <2>1, RefusalsFit DEF AfterBody
  <1> QED
    BY <1>3, <1>4 DEF AfterBody

LEMMA ReplyGoesOn ==
  ASSUME RequestsInv, NEW c \in DOMAIN requests, RequestApplied(c) \/ WriteJson(c)
  PROVE  RequestGoesOn(c) /\ UNCHANGED served
  <1> DEFINE r == requests[c]
             message == r.request.message
  <1>1. r \in RequestRecords /\ RequestOK(r) /\ message.id \in Ids
    BY RequestsAreOK
  <1>2. CASE RequestApplied(c)
    <2>1. PICK reply \in RepliesOfApply(message) :
            requests' = [requests EXCEPT ![c] = AtRouter(@, "replying", reply)]
      BY <1>2 DEF RequestApplied
    <2>2. r.phase = "applying" /\ UNCHANGED served
      BY <1>2 DEF RequestApplied
    <2>3. message.form = "request" /\ Waits(message)
      BY <1>1, <2>2 DEF RequestOK, Underway
    <2>4. reply \in Replies /\ FitsMessage(message, reply)
      BY <1>1, <2>3, AppliedFits DEF MessageOK
    <2> DEFINE next == [r EXCEPT !.phase = "replying", !.reply = reply]
    <2>5. requests' = [requests EXCEPT ![c] = next]
      BY <2>1 DEF AtRouter
    <2>6. /\ next \in RequestRecords /\ next.phase = "replying" /\ next.reply = reply
          /\ next.request = r.request /\ next.body = r.body /\ next.bytes = r.bytes
          /\ next.connected = r.connected
      BY <1>1, <2>4 DEF RequestRecords
    <2> HIDE DEF next
    <2>7. RequestOK(next)
      BY <1>1, <2>2, <2>3, <2>4, <2>6 DEF RequestOK, Underway, WholeBody, ByPost
    <2>8. Successor(r, next)
      BY <1>1, <2>2, <2>6, <2>7 DEF Successor
    <2> QED
      BY <2>2, <2>5, <2>8 DEF RequestGoesOn
  <1>3. CASE WriteJson(c)
    <2>1. r.phase = "replying" /\ Respond(c, 200, r.reply)
      BY <1>3 DEF WriteJson
    <2>2. /\ WholeBody(r) /\ message.form = "request" /\ r.reply \in Replies
          /\ FitsMessage(message, r.reply)
      BY <1>1, <2>1 DEF RequestOK, Underway
    <2>3. Successor(r, Answer(r, 200, r.reply))
      BY <1>1, <2>1, <2>2, AnswerFits
    <2>4. requests' = [requests EXCEPT ![c] = Answer(r, 200, r.reply)] /\ UNCHANGED served
      BY <2>1 DEF Respond
    <2> QED
      BY <2>3, <2>4 DEF RequestGoesOn
  <1> QED
    BY <1>2, <1>3

\* A request that is turned down at once is answered as it arrives.
LEMMA RequestArrives ==
  ASSUME NEW request \in HttpRequests, NEW s \in Nat, OnRequest(request, s)
  PROVE  /\ Len(requests) < MaxRequests /\ UNCHANGED served
         /\ \E r \in RequestRecords :
              /\ requests' = Append(requests, r) /\ RequestOK(r) /\ r.request = request
              /\ r.phase = "answered" => r.reply \in HttpReplies /\ FitsHttp(request, r.reply)
  <1> DEFINE accepted == [phase |-> "reading", request |-> request, server |-> s, bytes |-> 0,
                          body |-> "none", connected |-> TRUE, reply |-> NoReply]
             refused(status) == [accepted EXCEPT !.phase = "answered",
                                                 !.reply = HttpReply(status, NoReply)]
  <1>1. Len(requests) < MaxRequests /\ UNCHANGED served
    BY DEF OnRequest
  <1>2. /\ accepted \in RequestRecords /\ accepted.phase = "reading"
        /\ accepted.request = request /\ accepted.bytes = 0 /\ accepted.body = "none"
    BY DEF RequestRecords
  <1>3. accepted.connected
    OBVIOUS
  <1>4. ASSUME NEW status \in {404, 405}
        PROVE  Answer(accepted, status, NoReply) = refused(status)
    BY <1>3 DEF Answer
  <1>5. ASSUME NEW status \in {404, 405},
               status = 404 => request.path # "/mcp",
               status = 405 => request.path = "/mcp" /\ request.method # "POST"
        PROVE  /\ refused(status) \in RequestRecords /\ RequestOK(refused(status))
               /\ refused(status).request = request /\ refused(status).reply \in HttpReplies
               /\ FitsHttp(request, refused(status).reply)
    <2> DEFINE reply == HttpReply(status, NoReply)
    <2>1. reply \in HttpReplies /\ reply.status = status /\ reply.json = NoReply
      BY DEF HttpReply, HttpReplies
    <2>2. FitsHttp(request, reply)
      BY <1>5, <2>1 DEF FitsHttp
    <2> HIDE DEF reply, accepted
    <2> DEFINE r == [accepted EXCEPT !.phase = "answered", !.reply = reply]
    <2>3. /\ r.phase = "answered" /\ r.body = "none" /\ r.request = request
          /\ r.reply = reply
      BY <1>2 DEF RequestRecords
    <2>7. reply \in Replies \cup HttpReplies \cup {NoReply}
      BY <2>1
    <2>8. accepted \in RequestRecords
      BY <1>2
    <2>6. r \in RequestRecords
      BY <2>7, <2>8 DEF RequestRecords
    <2> HIDE DEF r
    <2>4. RequestOK(r)
      BY <2>3 DEF RequestOK, Underway
    <2>5. r = refused(status)
      BY DEF r, reply
    <2> QED
      BY <2>1, <2>2, <2>3, <2>4, <2>5, <2>6
  <1>7. RequestOK(accepted) \/ request.path # "/mcp" \/ request.method # "POST"
    BY <1>2, ClientsAssumption DEF RequestOK, ByPost, Underway
  <1>8. CASE request.path # "/mcp"
    <2>3. requests' = Append(requests, Answer(accepted, 404, NoReply))
      BY <1>8 DEF OnRequest, accepted
    <2>1. requests' = Append(requests, refused(404))
      BY <1>4, <2>3
    <2>2. /\ refused(404) \in RequestRecords /\ RequestOK(refused(404))
          /\ refused(404).request = request /\ refused(404).reply \in HttpReplies
          /\ FitsHttp(request, refused(404).reply)
      BY <1>5, <1>8
    <2> QED
      BY <1>1, <2>1, <2>2
  <1>9. CASE request.path = "/mcp" /\ request.method # "POST"
    <2>3. requests' = Append(requests, Answer(accepted, 405, NoReply))
      BY <1>9 DEF OnRequest, accepted
    <2>1. requests' = Append(requests, refused(405))
      BY <1>4, <2>3
    <2>2. /\ refused(405) \in RequestRecords /\ RequestOK(refused(405))
          /\ refused(405).request = request /\ refused(405).reply \in HttpReplies
          /\ FitsHttp(request, refused(405).reply)
      BY <1>5, <1>9
    <2> QED
      BY <1>1, <2>1, <2>2
  <1>10. CASE request.path = "/mcp" /\ request.method = "POST"
    <2>1. requests' = Append(requests, accepted)
      BY <1>10 DEF OnRequest, accepted
    <2> QED
      BY <1>1, <1>2, <1>7, <1>10, <2>1
  <1> QED
    BY <1>8, <1>9, <1>10

LEMMA RequestKeeps ==
  ASSUME RequestsInv, NEW c, RequestGoesOn(c)
  PROVE  /\ RequestsInv' /\ DOMAIN requests' = DOMAIN requests
         /\ Successor(requests[c], requests'[c])
         /\ \A d \in DOMAIN requests \ {c} : requests'[d] = requests[d]
  <1>1. PICK next : Successor(requests[c], next) /\ requests' = [requests EXCEPT ![c] = next]
    BY DEF RequestGoesOn
  <1>2. c \in DOMAIN requests /\ requests \in Seq(RequestRecords)
    BY DEF RequestGoesOn, RequestsInv
  <1>3. next \in RequestRecords /\ RequestOK(next)
    BY <1>1 DEF Successor
  <1>4. /\ requests' \in Seq(RequestRecords) /\ Len(requests') = Len(requests)
        /\ DOMAIN requests' = DOMAIN requests /\ requests'[c] = next
        /\ \A d \in DOMAIN requests \ {c} : requests'[d] = requests[d]
    BY <1>1, <1>2, <1>3, ExceptSeq, LenProperties
  <1> QED
    BY <1>1, <1>2, <1>3, <1>4 DEF RequestsInv

LEMMA ArrivalKeeps ==
  ASSUME RequestsInv, Len(requests) < MaxRequests, NEW r \in RequestRecords, RequestOK(r),
         requests' = Append(requests, r)
  PROVE  /\ RequestsInv' /\ DOMAIN requests' = DOMAIN requests \cup {Len(requests) + 1}
         /\ requests'[Len(requests) + 1] = r
         /\ \A d \in DOMAIN requests : requests'[d] = requests[d]
         /\ Len(requests) + 1 \in 1..MaxClients /\ Len(requests) + 1 \notin DOMAIN requests
  <1>1. /\ requests \in Seq(RequestRecords) /\ Len(requests) \in Nat
        /\ DOMAIN requests = 1..Len(requests)
    BY LenProperties DEF RequestsInv
  <1>2. /\ requests' \in Seq(RequestRecords) /\ Len(requests') = Len(requests) + 1
        /\ DOMAIN requests' = DOMAIN requests \cup {Len(requests) + 1}
        /\ requests'[Len(requests) + 1] = r
        /\ \A d \in DOMAIN requests : requests'[d] = requests[d]
    BY <1>1, AppendProperties, LenProperties
  <1> DEFINE len == Len(requests)
  <1> HIDE DEF len
  <1>3. MaxClients \in Nat /\ MaxRequests \in 0..MaxClients
    BY ClientsAssumption
  <1>4. len + 1 <= MaxRequests /\ len + 1 \in 1..MaxClients /\ len + 1 \notin 1..len
    BY <1>1, <1>3 DEF len
  <1> QED
    BY <1>1, <1>2, <1>4 DEF RequestsInv, len

-----------------------------------------------------------------------------
(* Tool calls *)

OneTransport ==
    /\ transport \in {"stdio", "streamable-http"}
    /\ transport = "stdio" => requests = <<>>
    /\ transport = "streamable-http" => read = 0 /\ output = <<>>

ServedOverHttp ==
    /\ \A k \in DOMAIN served :
          /\ served[k] \in DOMAIN requests
          /\ requests[served[k]].phase \in {"applying", "replying", "answered"}
          /\ requests[served[k]].body = "whole"
    /\ \A j, k \in DOMAIN served : served[j] = served[k] => j = k

ServedFromLines ==
    /\ {served[k] : k \in DOMAIN served} =
          {n \in 1..read : input[n].form = "request" /\ CallsTool(input[n])}
    /\ \A j, k \in DOMAIN served : j < k => served[j] < served[k]

ServedInv ==
    /\ served \in Seq(Nat)
    /\ transport = "stdio" => ServedFromLines
    /\ transport = "streamable-http" => ServedOverHttp

ServersInv == LifeInv /\ OneTransport /\ LinesInv /\ RequestsInv /\ ServedInv

LEMMA OneMoreServed ==
  ASSUME served \in Seq(Nat), NEW n \in Nat, served' = Append(served, n)
  PROVE  /\ served' \in Seq(Nat)
         /\ DOMAIN served = 1..Len(served) /\ Len(served) \in Nat
         /\ DOMAIN served' = DOMAIN served \cup {Len(served) + 1}
         /\ served'[Len(served) + 1] = n
         /\ \A k \in DOMAIN served : served'[k] = served[k] /\ served[k] \in Nat
  BY AppendProperties, LenProperties, ElementOfSeq

LEMMA LineServed ==
  ASSUME LinesInv, ServedInv, transport = "stdio", NEW n \in Lines, OnLine(n),
         UNCHANGED transport
  PROVE  ServedInv'
  <1> DEFINE calls(k) == input[k].form = "request" /\ CallsTool(input[k])
  <1>1. /\ n = read + 1 /\ read' = n /\ read \in Nat /\ input' = input
        /\ served' = IF calls(n) THEN Append(served, n) ELSE served
    BY OnLineGoesOn, LinesOfInput DEF LinesInv, LineGoesOn
  <1>2. /\ served \in Seq(Nat)
        /\ {served[k] : k \in DOMAIN served} = {k \in 1..read : calls(k)}
        /\ \A j, k \in DOMAIN served : j < k => served[j] < served[k]
    BY DEF ServedInv, ServedFromLines
  <1>3. \A k : (input'[k].form = "request" /\ CallsTool(input'[k])) <=> calls(k)
    BY <1>1
  <1> HIDE DEF calls
  <1>4. 1..read' = 1..read \cup {n}
    BY <1>1
  <1>5. CASE calls(n)
    <2>1. /\ served' \in Seq(Nat)
          /\ DOMAIN served = 1..Len(served) /\ Len(served) \in Nat
          /\ DOMAIN served' = DOMAIN served \cup {Len(served) + 1}
          /\ served'[Len(served) + 1] = n
          /\ \A k \in DOMAIN served : served'[k] = served[k] /\ served[k] \in Nat
      BY <1>1, <1>2, <1>5, OneMoreServed
    <2>2. {served'[k] : k \in DOMAIN served'} = {served[k] : k \in DOMAIN served} \cup {n}
      BY <2>1
    <2>3. {served'[k] : k \in DOMAIN served'} = {k \in 1..read' : calls(k)}
      BY <1>2, <1>4, <1>5, <2>2
    <2>4. \A k \in DOMAIN served : served[k] < n
      <3> TAKE k \in DOMAIN served
      <3>1. served[k] \in 1..read
        BY <1>2
      <3> QED
        BY <1>1, <3>1
    <2>5. \A j, k \in DOMAIN served' : j < k => served'[j] < served'[k]
      BY <1>2, <2>1, <2>4
    <2> QED
      BY <1>3, <2>1, <2>3, <2>5 DEF ServedInv, ServedFromLines
  <1>6. CASE ~ calls(n)
    <2>1. served' = served
      BY <1>1, <1>6
    <2>2. {k \in 1..read' : calls(k)} = {k \in 1..read : calls(k)}
      BY <1>4, <1>6
    <2> QED
      BY <1>2, <1>3, <2>1, <2>2 DEF ServedInv, ServedFromLines
  <1> QED
    BY <1>5, <1>6

LEMMA RequestServed ==
  ASSUME RequestsInv, ServedInv, transport = "streamable-http", UNCHANGED transport,
         NEW c, RequestGoesOn(c),
         \/ UNCHANGED served
         \/ /\ requests[c].phase = "read" /\ served' = Append(served, c)
            /\ requests'[c].phase \in {"applying", "replying"}
  PROVE  ServedInv'
  <1>1. /\ RequestsInv' /\ DOMAIN requests' = DOMAIN requests /\ c \in DOMAIN requests
        /\ Successor(requests[c], requests'[c])
        /\ \A d \in DOMAIN requests \ {c} : requests'[d] = requests[d]
    BY RequestKeeps DEF RequestGoesOn
  <1>2. served \in Seq(Nat) /\ ServedOverHttp
    BY DEF ServedInv
  <1>3. \A d \in DOMAIN requests :
          /\ requests[d].phase \in {"applying", "replying", "answered"}
          /\ requests[d].body = "whole"
          => /\ requests'[d].phase \in {"applying", "replying", "answered"}
             /\ requests'[d].body = "whole"
    BY <1>1 DEF Successor
  <1>4. CASE UNCHANGED served
    BY <1>1, <1>2, <1>3, <1>4 DEF ServedInv, ServedOverHttp
  <1>5. CASE /\ requests[c].phase = "read" /\ served' = Append(served, c)
             /\ requests'[c].phase \in {"applying", "replying"}
    <2>1. c \in Nat
      BY <1>1, LenProperties DEF RequestsInv
    <2>2. /\ served' \in Seq(Nat)
          /\ DOMAIN served' = DOMAIN served \cup {Len(served) + 1}
          /\ served'[Len(served) + 1] = c
          /\ \A k \in DOMAIN served : served'[k] = served[k]
      BY <1>2, <1>5, <2>1, OneMoreServed
    <2>3. \A k \in DOMAIN served : served[k] # c
      BY <1>2, <1>5 DEF ServedOverHttp
    <2>4. requests'[c].body = "whole"
      BY <1>1, <1>5 DEF Successor, RequestOK
    <2>5. ServedOverHttp'
      BY <1>1, <1>2, <1>3, <1>5, <2>2, <2>3, <2>4 DEF ServedOverHttp
    <2> QED
      BY <2>2, <2>5 DEF ServedInv
  <1> QED
    BY <1>4, <1>5

-----------------------------------------------------------------------------
(* The steps *)

\* One of these is a step of stdin, or of a request.
RequestStep ==
    \/ /\ transport = "stdio" /\ UNCHANGED <<requests, transport>>
       /\ \E n \in Lines : LineGoesOn(n)
    \/ /\ transport = "streamable-http" /\ UNCHANGED <<stdioVars, transport>>
       /\ \E c \in DOMAIN requests : RequestGoesOn(c)
    \/ /\ transport = "streamable-http" /\ UNCHANGED <<stdioVars, transport>>
       /\ Len(requests) < MaxRequests
       /\ \E r \in RequestRecords :
            /\ requests' = Append(requests, r) /\ RequestOK(r)
            /\ r.phase = "answered" => r.reply \in HttpReplies /\ FitsHttp(r.request, r.reply)

Idle == UNCHANGED <<input, read, handlers, output, served, transport, requests>>

LEMMA StepsOfServers ==
  ASSUME ServersInv, [ServersNext]_serversVars
  PROVE  (RequestStep /\ ServedInv') \/ Idle
  <1>1. /\ LifeInv /\ LinesInv /\ RequestsInv /\ ServedInv /\ DOMAIN listeners \subseteq Nat
    BY LenProperties DEF ServersInv, LifeInv, LifeType
  <1>2. CASE transport = "stdio" /\ StdioNext /\ UNCHANGED <<httpVars, transport>>
    <2>1. UNCHANGED <<requests, transport>>
      BY <1>2 DEF httpVars
    <2>2. ASSUME NEW n \in Lines, OnLine(n)
          PROVE  RequestStep /\ ServedInv'
      <3>1. LineGoesOn(n) /\ ServedInv'
        BY <1>1, <1>2, <2>2, OnLineGoesOn, LineServed
      <3> QED
        BY <1>2, <2>1, <3>1 DEF RequestStep
    <2>3. ASSUME NEW n \in Lines, LineApplied(n) \/ Write(n)
          PROVE  RequestStep /\ ServedInv'
      <3>1. LineGoesOn(n) /\ UNCHANGED <<served, read, input>>
        BY <1>1, <2>3, LineStepGoesOn DEF LineGoesOn
      <3>2. ServedInv'
        BY <1>1, <1>2, <3>1 DEF ServedInv, ServedFromLines
      <3> QED
        BY <1>2, <2>1, <3>1, <3>2 DEF RequestStep
    <2>4. CASE StdinCloses \/ Exit
      BY <2>1, <2>4 DEF StdinCloses, Exit, Idle
    <2> QED
      BY <1>2, <2>2, <2>3, <2>4 DEF StdioNext
  <1>3. CASE transport = "streamable-http" /\ HttpNext /\ UNCHANGED <<stdioVars, transport>>
    <2>1. ASSUME NEW request \in HttpRequests, NEW s \in DOMAIN listeners,
                 OnRequest(request, s)
          PROVE  RequestStep /\ ServedInv'
      <3>1. s \in Nat
        BY <1>1
      <3>2. PICK r \in RequestRecords :
              /\ requests' = Append(requests, r) /\ RequestOK(r)
              /\ r.phase = "answered" => r.reply \in HttpReplies
                                         /\ FitsHttp(r.request, r.reply)
        BY <2>1, <3>1, RequestArrives
      <3>3. Len(requests) < MaxRequests /\ UNCHANGED served
        BY <2>1, <3>1, RequestArrives
      <3>4. /\ DOMAIN requests \subseteq DOMAIN requests'
            /\ \A d \in DOMAIN requests : requests'[d] = requests[d]
        BY <1>1, <3>2, <3>3, ArrivalKeeps
      <3>5. ServedInv'
        BY <1>1, <1>3, <3>3, <3>4 DEF ServedInv, ServedOverHttp
      <3> QED
        BY <1>3, <3>2, <3>3, <3>5 DEF RequestStep
    <2>2. ASSUME NEW c \in DOMAIN requests, RequestGoesOn(c),
                 \/ UNCHANGED served
                 \/ /\ requests[c].phase = "read" /\ served' = Append(served, c)
                    /\ requests'[c].phase \in {"applying", "replying"}
          PROVE  RequestStep /\ ServedInv'
      BY <1>1, <1>3, <2>2, RequestServed DEF RequestStep
    <2>3. ASSUME NEW c \in DOMAIN requests,
                 OnData(c) \/ OnEnd(c) \/ ClientLeaves(c) \/ RequestApplied(c)
                 \/ WriteJson(c) \/ AfterBody(c)
          PROVE  RequestStep /\ ServedInv'
      <3>1. /\ RequestGoesOn(c)
            /\ \/ UNCHANGED served
               \/ /\ requests[c].phase = "read" /\ served' = Append(served, c)
                  /\ requests'[c].phase \in {"applying", "replying"}
        BY <1>1, <2>3, BodyGoesOn, AfterBodyGoesOn, ReplyGoesOn
      <3> QED
        BY <2>2, <3>1
    <2>4. CASE Start \/ Stop \/ \E s \in DOMAIN listeners :
                                  OnError(s) \/ OnListening(s) \/ Closed(s)
      BY <1>3, <2>4 DEF Start, Stop, OnError, OnListening, Closed, Idle, stdioVars
    <2> QED
      BY <1>3, <2>1, <2>3, <2>4 DEF HttpNext
  <1>4. CASE UNCHANGED serversVars
    BY <1>4 DEF serversVars, stdioVars, httpVars, Idle
  <1> QED
    BY <1>2, <1>3, <1>4 DEF ServersNext

LEMMA ServersStep ==
  ASSUME ServersInv, [ServersNext]_serversVars
  PROVE  /\ OneTransport' /\ LinesInv' /\ RequestsInv' /\ ServedInv'
  <1>1. /\ LifeInv /\ OneTransport /\ LinesInv /\ RequestsInv /\ ServedInv
    BY DEF ServersInv
  <1>2. ASSUME NEW n \in Lines, LineGoesOn(n), transport = "stdio",
               UNCHANGED <<requests, transport>>
        PROVE  OneTransport' /\ LinesInv' /\ RequestsInv'
    BY <1>1, <1>2, LineKeeps DEF OneTransport, RequestsInv
  <1>3. ASSUME transport = "streamable-http", UNCHANGED <<stdioVars, transport>>
        PROVE  OneTransport' /\ LinesInv'
    BY <1>1, <1>3 DEF OneTransport, stdioVars, LinesInv, LinesType, HandlersOK, OutputOK,
                      Lines
  <1>4. CASE RequestStep /\ ServedInv'
    BY <1>1, <1>2, <1>3, <1>4, RequestKeeps, ArrivalKeeps DEF RequestStep
  <1>5. CASE Idle
    <2>1. LinesInv'
      BY <1>1, <1>5 DEF Idle, LinesInv, LinesType, HandlersOK, OutputOK, Lines
    <2>2. OneTransport' /\ RequestsInv'
      BY <1>1, <1>5 DEF Idle, OneTransport, RequestsInv
    <2>3. ServedInv'
      BY <1>1, <1>5 DEF Idle, ServedInv, ServedOverHttp, ServedFromLines
    <2> QED
      BY <2>1, <2>2, <2>3
  <1> QED
    BY <1>4, <1>5, StepsOfServers

LEMMA ServersStart ==
  ASSUME ServersInit
  PROVE  OneTransport /\ LinesInv /\ RequestsInv /\ ServedInv
  <1>1. /\ input \in Inputs /\ read = 0 /\ output = <<>> /\ requests = <<>> /\ served = <<>>
        /\ handlers = [n \in Lines |-> [phase |-> "unread", reply |-> NoReply]]
        /\ transport \in {"stdio", "streamable-http"}
    BY DEF ServersInit, StdioInit, HttpInit, Lines
  <1>2. /\ input \in Seq(LineMessages) /\ MaxRequests \in Nat
    BY <1>1, ClientsAssumption
  <1>3. Len(input) \in Nat /\ Lines = 1..Len(input)
    BY <1>2, LenProperties DEF Lines
  <1>4. \A n \in Lines : handlers[n] = [phase |-> "unread", reply |-> NoReply]
    BY <1>1
  <1>5. handlers \in [Lines -> HandlerRecords]
    BY <1>1 DEF HandlerRecords
  <1>6. LinesType
    BY <1>1, <1>3, <1>5, EmptySeq DEF LinesType
  <1>7. HandlersOK /\ OutputOK
    BY <1>1, <1>3, <1>4 DEF HandlersOK, OutputOK, Underway
  <1>8. OneTransport /\ RequestsInv
    BY <1>1, <1>2, EmptySeq DEF OneTransport, RequestsInv
  <1>9. {n \in 1..read : input[n].form = "request" /\ CallsTool(input[n])} = {}
    BY <1>1
  <1>10. ServedInv
    BY <1>1, <1>9, EmptySeq DEF ServedInv, ServedFromLines, ServedOverHttp
  <1> QED
    BY <1>6, <1>7, <1>8, <1>10 DEF LinesInv

LEMMA ServersInvariant == ServersSpec => []ServersInv
  <1>1. ServersInit => OneTransport /\ LinesInv /\ RequestsInv /\ ServedInv
    BY ServersStart
  <1>2. ServersInv /\ [ServersNext]_serversVars =>
          OneTransport' /\ LinesInv' /\ RequestsInv' /\ ServedInv'
    BY ServersStep
  <1>3. ServersInv <=> LifeInv /\ OneTransport /\ LinesInv /\ RequestsInv /\ ServedInv
    BY DEF ServersInv
  <1> QED
    BY <1>1, <1>2, <1>3, LifeInvariant, PTL DEF ServersSpec

\* A tool call reaches the control service as its line is read, in the order of the lines;
\* over HTTP only with its whole body, and once (onLine, onRequest, readBody).
THEOREM NothingServedOtherwise == ServersSpec => []ServedAsReceived
  <1>1. ServersInv => ServedAsReceived
    <2> SUFFICES ASSUME ServersInv PROVE ServedAsReceived
      OBVIOUS
    <2>1. CASE transport = "stdio"
      BY <2>1 DEF ServersInv, ServedInv, ServedFromLines, ServedAsReceived
    <2>2. CASE transport = "streamable-http"
      <3>1. ServedOverHttp /\ RequestsInv
        BY <2>2 DEF ServersInv, ServedInv
      <3>2. \A k \in DOMAIN served : WholeBody(requests[served[k]])
        BY <3>1 DEF ServedOverHttp, RequestsInv, RequestOK
      <3> QED
        BY <2>2, <3>1, <3>2 DEF ServedAsReceived, ServedOverHttp, WholeBody, ByPost
    <2> QED
      BY <2>1, <2>2 DEF ServersInv, OneTransport
  <1> QED
    BY <1>1, ServersInvariant, PTL

-----------------------------------------------------------------------------
(* Requests and replies, as the client sees them *)

\* What one client asks and is told, and nobody else.
LEMMA ContractStep ==
  ASSUME NEW c \in Clients,
         \A d \in Clients \ {c} : Asked'[d] = Asked[d] /\ Told'[d] = Told[d],
         \/ Asked'[c] = Asked[c]
         \/ Asked[c] = NoRequest /\ Asked'[c] \in LineMessages \cup HttpRequests,
         \/ Told'[c] = Told[c]
         \/ /\ Told[c] = NoReply /\ Told'[c] # NoReply /\ Asked'[c] # NoRequest
            /\ Fits(Asked'[c], Told'[c])
  PROVE  [Contract!RequestNext]_(Contract!requestVars)
  <1>1. /\ Asked = [d \in Clients |-> Asked[d]] /\ Asked' = [d \in Clients |-> Asked'[d]]
        /\ Told = [d \in Clients |-> Told[d]] /\ Told' = [d \in Clients |-> Told'[d]]
    BY DEF Asked, Told, Clients
  <1>2. Asked'[c] = Asked[c] => UNCHANGED Asked
    BY <1>1
  <1>3. Told'[c] = Told[c] => UNCHANGED Told
    BY <1>1
  <1>4. /\ Asked' = [Asked EXCEPT ![c] = Asked'[c]]
        /\ Told' = [Told EXCEPT ![c] = Told'[c]]
    BY <1>1
  <1>5. ASSUME Asked[c] = NoRequest, Asked'[c] \in LineMessages \cup HttpRequests
        PROVE  Contract!Ask(c)
    BY <1>4, <1>5 DEF Contract!Ask, LineMessages
  <1>6. ASSUME Told[c] = NoReply, Told'[c] # NoReply, Asked'[c] # NoRequest,
               Fits(Asked'[c], Told'[c])
        PROVE  Contract!Tell(c)
    BY <1>4, <1>6 DEF Contract!Tell
  <1> QED
    BY <1>2, <1>3, <1>5, <1>6 DEF Contract!RequestNext, Contract!requestVars

AskedFacts ==
    /\ transport = "stdio" /\ requests = <<>> =>
         \A c \in Clients : Asked[c] = IF c <= read THEN input[c] ELSE NoRequest
    /\ transport = "streamable-http" =>
         \A c \in Clients :
            Asked[c] = IF c \in DOMAIN requests THEN requests[c].request ELSE NoRequest

LEMMA AskedIs == AskedFacts
  BY DEF AskedFacts, Asked

LEMMA AskedNextIs == AskedFacts'
  BY DEF AskedFacts, Asked, Clients

ToldFacts ==
    /\ transport = "stdio" /\ requests = <<>> /\ OutputOK =>
         /\ \A k \in DOMAIN output :
              output[k].line \in Clients => Told[output[k].line] = output[k].reply
         /\ \A c \in Clients :
              (\A k \in DOMAIN output : output[k].line # c) => Told[c] = NoReply
    /\ transport = "streamable-http" /\ output = <<>> =>
         \A c \in Clients :
            Told[c] = IF c \in DOMAIN requests /\ requests[c].phase = "answered"
                      THEN requests[c].reply ELSE NoReply

LEMMA ToldIs == ToldFacts
  <1>1. ASSUME requests = <<>>, OutputOK, NEW k \in DOMAIN output,
               output[k].line \in Clients
        PROVE  Told[output[k].line] = output[k].reply
    <2>1. \A j \in DOMAIN output : output[j].line = output[k].line => j = k
      BY <1>1 DEF OutputOK
    <2>2. (CHOOSE j \in DOMAIN output : output[j].line = output[k].line) = k
      BY <1>1, <2>1
    <2> QED
      BY <1>1, <2>2 DEF Told
  <1>2. ASSUME requests = <<>>, NEW c \in Clients,
               \A k \in DOMAIN output : output[k].line # c
        PROVE  Told[c] = NoReply
    BY <1>2 DEF Told
  <1>3. ASSUME output = <<>>, NEW c \in Clients
        PROVE  Told[c] = IF c \in DOMAIN requests /\ requests[c].phase = "answered"
                         THEN requests[c].reply ELSE NoReply
    BY <1>3 DEF Told
  <1> QED
    BY <1>1, <1>2, <1>3 DEF ToldFacts

LEMMA ToldNextIs == ToldFacts'
  BY ToldIs, PTL

LEMMA LineTells ==
  ASSUME ServersInv, LinesInv', NEW n \in Lines, LineGoesOn(n), transport = "stdio",
         UNCHANGED <<requests, transport>>
  PROVE  [Contract!RequestNext]_(Contract!requestVars)
  <1>1. /\ LinesInv /\ requests = <<>> /\ requests' = <<>> /\ transport' = "stdio"
        /\ OutputOK /\ OutputOK'
    BY DEF ServersInv, OneTransport, LinesInv
  <1>2. /\ Lines = 1..Len(input) /\ Len(input) \in 0..MaxClients /\ read \in Nat
        /\ MaxClients \in Nat /\ input[n] \in LineMessages
    BY <1>1, LinesOfInput DEF LinesInv
  <1>3. n \in Clients
    BY <1>2 DEF Clients
  <1>4. PICK h \in HandlerRecords :
          /\ handlers' = [handlers EXCEPT ![n] = h]
          /\ \/ UNCHANGED output
             \/ /\ h.phase = "done"
                /\ \E reply \in Replies : /\ FitsMessage(input[n], reply)
                                          /\ output' = Append(output, [line |-> n,
                                                                       reply |-> reply])
    BY DEF LineGoesOn
  <1>5. /\ handlers[n].phase # "done" /\ input' = input
        /\ \/ read' = read /\ n <= read
           \/ read' = n /\ n = read + 1
    BY DEF LineGoesOn
  <1>6. /\ \A c \in Clients : Asked[c] = IF c <= read THEN input[c] ELSE NoRequest
        /\ \A c \in Clients : Asked'[c] = IF c <= read' THEN input[c] ELSE NoRequest
    BY <1>1, <1>5, AskedIs, AskedNextIs DEF AskedFacts
  <1>7. /\ \A c \in Clients \ {n} : Asked'[c] = Asked[c]
        /\ Asked'[n] = input[n]
        /\ Asked[n] = input[n] \/ Asked[n] = NoRequest
    BY <1>2, <1>3, <1>5, <1>6 DEF Clients
  <1>8. /\ \A k \in DOMAIN output :
              output[k].line \in Clients => Told[output[k].line] = output[k].reply
        /\ \A c \in Clients :
              (\A k \in DOMAIN output : output[k].line # c) => Told[c] = NoReply
        /\ \A k \in DOMAIN output' :
              output'[k].line \in Clients => Told'[output'[k].line] = output'[k].reply
        /\ \A c \in Clients :
              (\A k \in DOMAIN output' : output'[k].line # c) => Told'[c] = NoReply
    BY <1>1, ToldIs, ToldNextIs DEF ToldFacts
  <1>9. CASE UNCHANGED output
    <2>1. \A c \in Clients : Told'[c] = Told[c]
      <3> TAKE c \in Clients
      <3>1. CASE \E k \in DOMAIN output : output[k].line = c
        BY <1>8, <1>9, <3>1
      <3>2. CASE \A k \in DOMAIN output : output[k].line # c
        BY <1>8, <1>9, <3>2
      <3> QED
        BY <3>1, <3>2
    <2> QED
      BY <1>2, <1>3, <1>7, <2>1, ContractStep
  <1>10. ASSUME NEW reply \in Replies, FitsMessage(input[n], reply),
                output' = Append(output, [line |-> n, reply |-> reply])
         PROVE  [Contract!RequestNext]_(Contract!requestVars)
    <2> DEFINE out == [line |-> n, reply |-> reply]
    <2>1. /\ out \in OutputRecords /\ out.line = n /\ out.reply = reply
          /\ output' = Append(output, out)
      BY <1>2, <1>10 DEF OutputRecords
    <2> HIDE DEF out
    <2>2. output \in Seq(OutputRecords)
      BY <1>1 DEF LinesInv, LinesType
    <2>3. /\ DOMAIN output' = DOMAIN output \cup {Len(output) + 1}
          /\ output'[Len(output) + 1] = out
          /\ \A k \in DOMAIN output : output'[k] = output[k]
      BY <2>1, <2>2, AppendProperties, LenProperties
    <2>4. \A k \in DOMAIN output : output[k].line # n
      BY <1>1, <1>5 DEF OutputOK
    <2>5. Told[n] = NoReply /\ Told'[n] = reply
      BY <1>3, <1>8, <2>1, <2>3, <2>4
    <2>6. \A c \in Clients \ {n} : Told'[c] = Told[c]
      <3> TAKE c \in Clients \ {n}
      <3>1. CASE \E k \in DOMAIN output : output[k].line = c
        BY <1>8, <2>3, <3>1
      <3>2. CASE \A k \in DOMAIN output : output[k].line # c
        BY <1>8, <2>1, <2>3, <3>2
      <3> QED
        BY <3>1, <3>2
    <2>7. /\ reply # NoReply /\ input[n] # NoRequest /\ input[n] \notin HttpRequests
      BY <1>2, ClientsAssumption
    <2>8. Fits(Asked'[n], Told'[n])
      BY <1>7, <1>10, <2>5, <2>7 DEF Fits
    <2> QED
      BY <1>2, <1>3, <1>7, <2>5, <2>6, <2>7, <2>8, ContractStep
  <1> QED
    BY <1>4, <1>9, <1>10

LEMMA HttpFacts ==
  ASSUME ServersInv, transport = "streamable-http", UNCHANGED <<stdioVars, transport>>
  PROVE  \A c \in Clients :
           /\ Asked[c] = IF c \in DOMAIN requests THEN requests[c].request ELSE NoRequest
           /\ Asked'[c] = IF c \in DOMAIN requests' THEN requests'[c].request ELSE NoRequest
           /\ Told[c] = IF c \in DOMAIN requests /\ requests[c].phase = "answered"
                        THEN requests[c].reply ELSE NoReply
           /\ Told'[c] = IF c \in DOMAIN requests' /\ requests'[c].phase = "answered"
                         THEN requests'[c].reply ELSE NoReply
  <1>1. output = <<>> /\ output' = <<>> /\ transport' = "streamable-http"
    BY DEF ServersInv, OneTransport, stdioVars
  <1> QED
    BY <1>1, AskedIs, AskedNextIs, ToldIs, ToldNextIs DEF AskedFacts, ToldFacts

LEMMA RequestTells ==
  ASSUME ServersInv, transport = "streamable-http", UNCHANGED <<stdioVars, transport>>,
         NEW c \in DOMAIN requests, RequestGoesOn(c)
  PROVE  [Contract!RequestNext]_(Contract!requestVars)
  <1>1. RequestsInv /\ requests[c].request \in HttpRequests
    BY RequestsAreOK DEF ServersInv
  <1>2. /\ DOMAIN requests' = DOMAIN requests
        /\ Successor(requests[c], requests'[c])
        /\ \A d \in DOMAIN requests \ {c} : requests'[d] = requests[d]
    BY <1>1, RequestKeeps
  <1>3. c \in Clients
    <2>1. /\ Len(requests) \in Nat /\ DOMAIN requests = 1..Len(requests)
          /\ Len(requests) <= MaxRequests
      BY <1>1, LenProperties DEF RequestsInv
    <2> QED
      BY <2>1, ClientsAssumption DEF Clients
  <1>4. \A d \in Clients \ {c} : Asked'[d] = Asked[d] /\ Told'[d] = Told[d]
    BY <1>2, HttpFacts
  <1>5. /\ Asked[c] = requests[c].request /\ Asked'[c] = Asked[c]
        /\ Told[c] = NoReply
        /\ Told'[c] = IF requests'[c].phase = "answered" THEN requests'[c].reply ELSE NoReply
    BY <1>2, <1>3, HttpFacts DEF Successor
  <1>6. CASE Told'[c] = NoReply
    BY <1>3, <1>4, <1>5, <1>6, ContractStep
  <1>7. CASE Told'[c] # NoReply
    <2>1. FitsHttp(Asked'[c], Told'[c])
      BY <1>2, <1>5, <1>7 DEF Successor
    <2>2. Asked'[c] \in HttpRequests /\ Asked'[c] # NoRequest
      BY <1>1, <1>5, ClientsAssumption
    <2>3. Fits(Asked'[c], Told'[c])
      BY <2>1, <2>2 DEF Fits
    <2> QED
      BY <1>3, <1>4, <1>5, <1>7, <2>2, <2>3, ContractStep
  <1> QED
    BY <1>6, <1>7

LEMMA ArrivalTells ==
  ASSUME ServersInv, transport = "streamable-http", UNCHANGED <<stdioVars, transport>>,
         Len(requests) < MaxRequests, NEW r \in RequestRecords, RequestOK(r),
         requests' = Append(requests, r),
         r.phase = "answered" => r.reply \in HttpReplies /\ FitsHttp(r.request, r.reply)
  PROVE  [Contract!RequestNext]_(Contract!requestVars)
  <1> DEFINE c == Len(requests) + 1
  <1>1. /\ DOMAIN requests' = DOMAIN requests \cup {c} /\ requests'[c] = r
        /\ \A d \in DOMAIN requests : requests'[d] = requests[d]
        /\ c \in Clients /\ c \notin DOMAIN requests
    BY ArrivalKeeps DEF ServersInv, Clients
  <1> HIDE DEF c
  <1>2. \A d \in Clients \ {c} : Asked'[d] = Asked[d] /\ Told'[d] = Told[d]
    BY <1>1, HttpFacts
  <1>3. /\ Asked[c] = NoRequest /\ Asked'[c] = r.request /\ Told[c] = NoReply
        /\ Told'[c] = IF r.phase = "answered" THEN r.reply ELSE NoReply
    BY <1>1, HttpFacts
  <1>4. r.request \in HttpRequests /\ r.request # NoRequest
    BY ClientsAssumption DEF RequestRecords
  <1>5. CASE r.phase # "answered"
    BY <1>1, <1>2, <1>3, <1>4, <1>5, ContractStep
  <1>6. CASE r.phase = "answered"
    <2>1. Told'[c] # NoReply /\ Fits(Asked'[c], Told'[c])
      BY <1>3, <1>4, <1>6, ClientsAssumption DEF Fits
    <2> QED
      BY <1>1, <1>2, <1>3, <1>4, <2>1, ContractStep
  <1> QED
    BY <1>5, <1>6

\* Over both transports a request gets one reply at the most, its own and of the kind its
\* form calls for, and no line of stdin gets two (write, writeJson, writeError, handle).
THEOREM OneReplyEach == ServersSpec => ImplementsRequestReply
  <1>1. ServersInit => Contract!RequestInit
    <2> SUFFICES ASSUME ServersInit PROVE Contract!RequestInit
      OBVIOUS
    <2>1. /\ requests = <<>> /\ output = <<>> /\ read = 0
          /\ transport \in {"stdio", "streamable-http"}
      BY DEF ServersInit, HttpInit, StdioInit
    <2>2. OutputOK
      BY <2>1 DEF OutputOK
    <2>3. \A c \in Clients : Asked[c] = NoRequest /\ Told[c] = NoReply
      BY <2>1, <2>2, AskedIs, ToldIs DEF AskedFacts, ToldFacts, Clients
    <2>4. Asked = [c \in Clients |-> Asked[c]] /\ Told = [c \in Clients |-> Told[c]]
      BY DEF Asked, Told
    <2> QED
      BY <2>3, <2>4 DEF Contract!RequestInit
  <1>2. ServersInv /\ [ServersNext]_serversVars =>
          [Contract!RequestNext]_(Contract!requestVars)
    <2> SUFFICES ASSUME ServersInv, [ServersNext]_serversVars
                 PROVE  [Contract!RequestNext]_(Contract!requestVars)
      OBVIOUS
    <2>1. CASE RequestStep
      BY <2>1, ServersStep, LineTells, RequestTells, ArrivalTells DEF RequestStep
    <2>2. CASE Idle
      BY <2>2 DEF Idle, Contract!requestVars, Asked, Told
    <2> QED
      BY <2>1, <2>2, StepsOfServers
  <1>3. ServersInv => (\A j, k \in DOMAIN output : output[j].line = output[k].line => j = k)
    BY DEF ServersInv, LinesInv, OutputOK
  <1> QED
    BY <1>1, <1>2, <1>3, ServersInvariant, PTL
       DEF ServersSpec, ImplementsRequestReply, Contract!RequestSpec
=============================================================================
