---------------------------- MODULE DialerProofs ----------------------------
(***************************************************************************)
(* Theorems about Dialer, for any number of calls of Dial and Close, any   *)
(* chain of jump hosts and any targets.                                    *)
(***************************************************************************)
EXTENDS Dialer, SequenceTheorems, TLAPS

(* How many clients a Dial has opened where, and how many of them late: what
   the later layers rely on. *)
Stage(d) ==
  /\ pc[d] \in {"start", "dial", "handshake"} => hop[d] = 0
  /\ pc[d] = "track" => hop[d] >= 1
  /\ pc[d] = "append" => hop[d] = 1 /\ hop[d] < Hops
  /\ pc[d] \in {"hop", "hopDial"} => hop[d] >= 1 /\ hop[d] < Hops
  /\ pc[d] = "returned" => hop[d] = Hops
  /\ pc[d] \in {"dial", "handshake", "hopDial"} => address[d] \in Hosts
  /\ SpareCapacity /\ (pc[d] \in {"hop", "hopDial"} \/ hop[d] > 1) =>
       spare \in Hosts
  /\ late[d] <= hop[d]

Typed == TypeOK /\ \A d \in Dials : Stage(d)

(* A client that was ever tracked is one that its Dial has done with. *)
Settled(client) ==
  \/ client[2] < hop[client[1]]
  \/ client[2] = hop[client[1]] /\ pc[client[1]] # "track"

TrackedSettled ==
  /\ \A client \in clients : Settled(client)
  /\ \A c \in Closes : \A client \in taken[c] : Settled(client)

(* Who was late was waiting for a connection, and waits for none any more. *)
LateSettled ==
  \A d \in Dials :
    /\ ~cancelled => late[d] = 0
    /\ late[d] <= 1
    /\ late[d] = 1 => pc[d] \notin {"dial", "handshake", "hopDial"}

(* No Dial stores a target where another one, with a target of its own, may *)
(* read it: the array has no room, no jump needs it, or all targets are one. *)
NothingShared ==
  \/ ~SpareCapacity
  \/ Jumps = 0
  \/ \A d, e \in Dials : Target[d] = Target[e]

(* Who has stored its target finds it there. *)
SpareRight ==
  SpareCapacity =>
    \A d \in Dials : pc[d] \in {"hop", "hopDial"} \/ hop[d] > 1 =>
      spare = Target[d]

(* The host of each place in a chain. *)
Way(d) == Append(ProxyJumps, Target[d])
OnTheWay ==
  \A d \in Dials :
    /\ \A i \in 1..hop[d] : route[d][i] = Way(d)[i]
    /\ pc[d] \in {"dial", "handshake", "hopDial"} =>
         address[d] = Way(d)[hop[d] + 1]

USE DEF Jumps, Jump, Clients

-----------------------------------------------------------------------------

\* The chain has one hop more than it has jumps, and all its hosts are known.
LEMMA JumpFacts ==
  /\ Jumps \in Nat
  /\ Hops \in Nat /\ Hops = Jumps + 1
  /\ \A k \in 1..Jumps : Jump(k) \in Hosts
  /\ \A d \in Dials : Target[d] \in Hosts
BY DialerAssumption DEF Hosts, Hops

\* The types and stages hold initially.
LEMMA TypedInit == Init => Typed
<1> SUFFICES ASSUME Init PROVE Typed
  OBVIOUS
<1> USE DEF Init
<1>1. /\ pc \in [Dials -> {"start", "dial", "handshake", "track", "append",
                           "hop", "hopDial", "returned", "failed"}]
      /\ agents \subseteq Dials
      /\ address \in [Dials -> Hosts \cup {NoHost}]
      /\ spare \in Hosts \cup {NoHost}
      /\ cancelled \in BOOLEAN
  OBVIOUS
<1>2. /\ open \in SUBSET Clients
      /\ clients \in SUBSET Clients
      /\ taken \in [Closes -> SUBSET Clients]
      /\ toClose \in [Closes -> SUBSET Clients]
      /\ closing \in [Closes -> {"start", "closing", "returned"}]
  OBVIOUS
<1>3. /\ hop \in [Dials -> 0..Hops]
      /\ late \in [Dials -> 0..Hops]
  BY JumpFacts
<1>4. /\ route \in [Dials -> Seq(Hosts)]
      /\ \A d \in Dials : Len(route[d]) = hop[d]
  <2>1. << >> \in Seq(Hosts) /\ Len(<< >>) = 0
    OBVIOUS
  <2> QED
    BY <2>1
<1>5. ASSUME NEW d \in Dials
      PROVE  Stage(d)
  <2>1. pc[d] = "start" /\ hop[d] = 0 /\ late[d] = 0
    OBVIOUS
  <2> QED
    BY <2>1 DEF Stage
<1> QED
  BY <1>1, <1>2, <1>3, <1>4, <1>5 DEF Typed, TypeOK

\* The loop never connects to an address that nobody stored.
LEMMA NextHostKnown ==
  ASSUME NEW d \in Dials, Stage(d), pc[d] = "hop", hop[d] \in Nat
  PROVE  NextHost(d) \in Hosts
BY JumpFacts DEF Stage, NextHost

\* A connection that is opened keeps the types and stages.
LEMMA ConnectedTyped ==
  ASSUME Typed, NEW d \in Dials,
         pc[d] \in {"handshake", "hopDial"},
         pc' = [pc EXCEPT ![d] = "track"],
         Connected(d), UNCHANGED connecting
  PROVE  Typed'
<1> USE DEF Connected, connecting, lists
<1>1. /\ hop[d] \in Nat /\ hop[d] < Hops
      /\ address[d] \in Hosts /\ late[d] <= hop[d]
  BY JumpFacts DEF Typed, TypeOK, Stage
<1>2. /\ hop' \in [Dials -> 0..Hops]
      /\ late' \in [Dials -> 0..Hops]
      /\ \A e \in Dials \ {d} : hop'[e] = hop[e] /\ late'[e] = late[e]
      /\ hop'[d] = hop[d] + 1
      /\ late'[d] <= hop'[d]
  BY <1>1, JumpFacts DEF Typed, TypeOK
<1>3. /\ route' \in [Dials -> Seq(Hosts)]
      /\ \A e \in Dials : Len(route'[e]) = hop'[e]
  BY <1>1, <1>2 DEF Typed, TypeOK
<1>4. open' \in SUBSET Clients
  BY <1>1, JumpFacts DEF Typed, TypeOK
<1>5. \A e \in Dials : Stage(e)'
  BY <1>1, <1>2, JumpFacts DEF Typed, TypeOK, Stage
<1> QED
  BY <1>2, <1>3, <1>4, <1>5 DEF Typed, TypeOK

\* Every step keeps the types and stages.
LEMMA TypedStep == Typed /\ [Next]_vars => Typed'
<1> SUFFICES ASSUME Typed, [Next]_vars PROVE Typed'
  OBVIOUS
<1> USE DEF Goto, lists
<1>1. ASSUME NEW d \in Dials, BuildConfig(d) \/ ConfigError(d)
      PROVE  Typed'
  <2>1. \E to \in {"dial", "failed"} : Configure(d, to)
    BY <1>1 DEF BuildConfig, ConfigError
  <2>2. /\ pc[d] = "start"
        /\ pc' = [pc EXCEPT ![d] = "dial"] \/ pc' = [pc EXCEPT ![d] = "failed"]
        /\ agents' \subseteq Dials
        /\ UNCHANGED <<hop, route, spare, cancelled, late, open, clients,
                       lists>>
    <3>1. agents \subseteq Dials
      BY DEF Typed, TypeOK
    <3> QED
      BY <2>1, <3>1 DEF Configure
  <2>3. /\ address' \in [Dials -> Hosts \cup {NoHost}]
        /\ \A e \in Dials \ {d} : address'[e] = address[e]
        /\ address'[d] \in Hosts \/ pc' = [pc EXCEPT ![d] = "failed"]
    <3>1. address \in [Dials -> Hosts \cup {NoHost}]
      BY DEF Typed, TypeOK
    <3>2. CASE BuildConfig(d)
      <4> DEFINE h == IF Jumps = 0 THEN Target[d] ELSE Jump(1)
      <4>1. h \in Hosts /\ address' = [address EXCEPT ![d] = h]
        <5>1. h \in Hosts
          BY JumpFacts
        <5> QED
          BY <3>2, <5>1 DEF BuildConfig
      <4> HIDE DEF h
      <4>2. address' \in [Dials -> Hosts \cup {NoHost}]
        BY <3>1, <4>1
      <4>3. address'[d] = h /\ \A e \in Dials \ {d} : address'[e] = address[e]
        BY <3>1, <4>1
      <4> QED
        BY <4>1, <4>2, <4>3
    <3>3. CASE ConfigError(d)
      BY <3>1, <3>3 DEF ConfigError, Configure
    <3> QED
      BY <1>1, <3>2, <3>3
  <2>4. Stage(d)'
    BY <2>2, <2>3, JumpFacts DEF Typed, TypeOK, Stage
  <2>5. \A e \in Dials \ {d} : Stage(e)'
    BY <2>2, <2>3 DEF Typed, TypeOK, Stage
  <2> QED
    BY <2>2, <2>3, <2>4, <2>5 DEF Typed, TypeOK
<1>2. ASSUME NEW d \in Dials, Connect(d) \/ DialError(d)
      PROVE  Typed'
  <2>1. /\ \/ pc' = [pc EXCEPT ![d] = "failed"]
           \/ pc[d] = "dial" /\ pc' = [pc EXCEPT ![d] = "handshake"]
        /\ UNCHANGED <<agents, address, spare, cancelled, clients, lists, hop,
                       route, late, open>>
    BY <1>2 DEF Connect, DialError, connecting
  <2>2. \A e \in Dials : Stage(e)'
    BY <2>1 DEF Typed, TypeOK, Stage
  <2> QED
    BY <2>1, <2>2 DEF Typed, TypeOK
<1>3. ASSUME NEW d \in Dials, Handshake(d) \/ ProxyDial(d)
      PROVE  Typed'
  BY <1>3, ConnectedTyped DEF Handshake, ProxyDial
<1>4. ASSUME NEW d \in Dials, Track(d)
      PROVE  Typed'
  <2>1. hop[d] \in 1..Hops
    BY <1>4, JumpFacts DEF Track, Typed, TypeOK, Stage
  <2>2. clients' \in SUBSET Clients
    BY <1>4, <2>1 DEF Track, Typed, TypeOK
  <2>3. /\ pc'[d] \in {"returned", "append", "hop"}
        /\ pc'[d] = "returned" => hop[d] = Hops
        /\ pc'[d] = "append" => hop[d] = 1 /\ hop[d] # Hops
        /\ pc'[d] = "hop" => hop[d] # Hops /\ hop[d] # 1
    BY <1>4 DEF Track, Typed, TypeOK
  <2>4. Stage(d)'
    <3>1. hop'[d] = hop[d] /\ late'[d] = late[d] /\ late[d] <= hop[d]
      BY <1>4 DEF Track, Typed, TypeOK, Stage
    <3>2. pc[d] = "track" /\ spare' = spare
      BY <1>4 DEF Track, Typed, TypeOK, Stage
    <3> QED
      BY <2>1, <2>3, <3>1, <3>2, JumpFacts DEF Typed, Stage
  <2>5. \A e \in Dials \ {d} : Stage(e)'
    BY <1>4 DEF Track, Typed, TypeOK, Stage
  <2> QED
    BY <1>4, <2>2, <2>3, <2>4, <2>5 DEF Track, Typed, TypeOK
<1>5. ASSUME NEW d \in Dials, AppendTarget(d)
      PROVE  Typed'
  BY <1>5, JumpFacts DEF AppendTarget, Typed, TypeOK, Stage
<1>6. ASSUME NEW d \in Dials, NextHop(d)
      PROVE  Typed'
  <2>1. NextHost(d) \in Hosts
    BY <1>6, NextHostKnown, JumpFacts DEF NextHop, Typed, TypeOK
  <2> QED
    BY <1>6, <2>1 DEF NextHop, Typed, TypeOK, Stage
<1>7. ASSUME NEW c \in Closes, Close(c)
      PROVE  Typed'
  <2>1. UNCHANGED dialing
    BY <1>7 DEF Close, Take, CloseClient, ReturnErrors
  <2>2. /\ open' \in SUBSET Clients
        /\ clients' \in SUBSET Clients
        /\ taken' \in [Closes -> SUBSET Clients]
        /\ toClose' \in [Closes -> SUBSET Clients]
        /\ closing' \in [Closes -> {"start", "closing", "returned"}]
    <3>1. CASE Take(c)
      BY <3>1 DEF Take, Typed, TypeOK
    <3>2. CASE CloseClient(c)
      BY <3>2 DEF CloseClient, Typed, TypeOK
    <3>3. CASE ReturnErrors(c)
      BY <3>3 DEF ReturnErrors, Typed, TypeOK
    <3> QED
      BY <1>7, <3>1, <3>2, <3>3 DEF Close
  <2>3. \A d \in Dials : Stage(d)'
    BY <2>1 DEF dialing, Typed, Stage
  <2> QED
    BY <2>1, <2>2, <2>3 DEF dialing, Typed, TypeOK
<1>8. CASE Cancel
  BY <1>8 DEF Cancel, Typed, TypeOK, Stage
<1>9. CASE UNCHANGED vars
  BY <1>9 DEF vars, dialing, Typed, TypeOK, Stage
<1> QED
  BY <1>1, <1>2, <1>3, <1>4, <1>5, <1>6, <1>7, <1>8, <1>9
  DEF Next, Dial, Terminated

\* Every variable of the dialer has its type; in particular no call of Dial
\* opens more clients than its chain has hops, whatever fails or is closed.
THEOREM TypeCorrect == Spec => []TypeOK
<1>1. Typed => TypeOK
  BY DEF Typed
<1> QED
  BY <1>1, TypedInit, TypedStep, PTL DEF Spec


-----------------------------------------------------------------------------
(* Clients and Close *)

Known == NoClientForgotten /\ ClosedOnce /\ TrackedSettled

\* Initially there are no clients.
LEMMA KnownInit == Init => Known
BY DEF Init, Known, NoClientForgotten, ClosedOnce, TrackedSettled

(* Steps that touch neither the lists nor the connections, in which no Dial
   takes back what it has tracked. *)
LEMMA KnownKept ==
  ASSUME Typed, Known,
         UNCHANGED <<open, clients, taken, toClose, closing>>,
         hop' = hop,
         \A d \in Dials : pc[d] = "track" <=> pc'[d] = "track"
  PROVE  Known'
<1>1. \A client \in Clients : Settled(client) => Settled(client)'
  BY DEF Settled
<1>2. TrackedSettled'
  BY <1>1 DEF Known, TrackedSettled, Typed, TypeOK
<1>3. NoClientForgotten' /\ ClosedOnce'
  BY DEF Known, NoClientForgotten, ClosedOnce, Typed, TypeOK
<1> QED
  BY <1>2, <1>3 DEF Known

\* A client that is opened is new, and its Dial is about to track it.
LEMMA KnownConnected ==
  ASSUME Typed, Known, NEW d \in Dials,
         pc[d] # "track",
         pc' = [pc EXCEPT ![d] = "track"],
         Connected(d), UNCHANGED connecting
  PROVE  Known'
<1> USE DEF Connected, connecting, lists
<1>1. /\ hop'[d] = hop[d] + 1 /\ hop[d] \in Nat /\ pc'[d] = "track"
      /\ \A e \in Dials \ {d} : hop'[e] = hop[e] /\ pc'[e] = pc[e]
  BY JumpFacts DEF Typed, TypeOK
<1>2. ASSUME NEW client \in Clients, Settled(client)
      PROVE  Settled(client)'
  <2>1. CASE client[1] = d
    BY <1>1, <1>2, <2>1, JumpFacts DEF Settled
  <2>2. CASE client[1] \in Dials \ {d}
    BY <1>1, <1>2, <2>2 DEF Settled
  <2> QED
    BY <2>1, <2>2
<1>3. TrackedSettled'
  BY <1>2 DEF Known, TrackedSettled, Typed, TypeOK
<1>4. ClosedOnce'
  BY DEF Known, ClosedOnce
<1>5. NoClientForgotten'
  <2> SUFFICES ASSUME NEW client \in open',
                      client \notin clients',
                      ~\E c \in Closes :
                         closing'[c] = "closing" /\ client \in toClose'[c]
               PROVE  pc'[client[1]] = "track" /\ hop'[client[1]] = client[2]
    BY DEF NoClientForgotten
  <2>1. CASE client = <<d, hop[d] + 1>>
    BY <1>1, <2>1
  <2>2. CASE client \in open
    <3>1. pc[client[1]] = "track" /\ hop[client[1]] = client[2]
      BY <2>2 DEF Known, NoClientForgotten
    <3>2. client[1] \in Dials \ {d}
      BY <2>2, <3>1 DEF Typed, TypeOK
    <3> QED
      BY <1>1, <3>1, <3>2
  <2> QED
    BY <2>1, <2>2
<1> QED
  BY <1>3, <1>4, <1>5 DEF Known

\* Tracking moves that client into the list, where no Close has had it.
LEMMA KnownTrack ==
  ASSUME Typed, Known, NEW d \in Dials, Track(d)
  PROVE  Known'
<1> USE DEF Track, Goto, lists
<1>1. /\ pc[d] = "track" /\ pc'[d] # "track" /\ hop' = hop
      /\ \A e \in Dials \ {d} : pc'[e] = pc[e]
      /\ hop[d] \in Nat /\ <<d, hop[d]>> \in Clients
      /\ UNCHANGED <<open, taken, toClose, closing>>
      /\ clients' = clients \cup {<<d, hop[d]>>}
  BY JumpFacts DEF Typed, TypeOK, Stage
<1>2. ASSUME NEW client \in Clients, Settled(client)
      PROVE  Settled(client)'
  BY <1>1, <1>2 DEF Settled
<1>3. Settled(<<d, hop[d]>>)'
  BY <1>1 DEF Settled
<1>4. ~Settled(<<d, hop[d]>>)
  BY <1>1 DEF Settled
<1>5. TrackedSettled'
  BY <1>1, <1>2, <1>3 DEF Known, TrackedSettled, Typed, TypeOK
<1>6. ClosedOnce'
  <2>1. \A c \in Closes : <<d, hop[d]>> \notin taken[c]
    BY <1>4 DEF Known, TrackedSettled
  <2> QED
    BY <1>1, <2>1 DEF Known, ClosedOnce
<1>7. NoClientForgotten'
  <2> SUFFICES ASSUME NEW client \in open, client # <<d, hop[d]>>
               PROVE  \/ pc'[client[1]] = "track" /\ hop'[client[1]] = client[2]
                      \/ client \in clients
                      \/ \E c \in Closes :
                           closing[c] = "closing" /\ client \in toClose[c]
    BY <1>1 DEF NoClientForgotten
  <2>1. CASE pc[client[1]] = "track" /\ hop[client[1]] = client[2]
    <3>1. client = <<client[1], client[2]>> /\ client[1] \in Dials
      BY DEF Typed, TypeOK
    <3>2. client[1] # d
      BY <2>1, <3>1
    <3> QED
      BY <1>1, <2>1, <3>1, <3>2
  <2> QED
    BY <2>1 DEF Known, NoClientForgotten
<1> QED
  BY <1>5, <1>6, <1>7 DEF Known

\* Close takes the list whole, and forgets only what it has closed.
LEMMA KnownClose ==
  ASSUME Typed, Known, NEW c \in Closes, Close(c)
  PROVE  Known'
<1>1. pc' = pc /\ hop' = hop
  BY DEF Close, Take, CloseClient, ReturnErrors, dialing
<1>2. \A client \in Clients : Settled(client) <=> Settled(client)'
  BY <1>1 DEF Settled
<1>3. CASE Take(c)
  <2>1. TrackedSettled'
    BY <1>2, <1>3 DEF Take, Known, TrackedSettled, Typed, TypeOK
  <2>2. ClosedOnce'
    BY <1>3 DEF Take, Known, ClosedOnce, Typed, TypeOK
  <2>3. NoClientForgotten'
    BY <1>1, <1>3 DEF Take, Known, NoClientForgotten, Typed, TypeOK
  <2> QED
    BY <2>1, <2>2, <2>3 DEF Known
<1>4. CASE CloseClient(c)
  <2>1. TrackedSettled' /\ ClosedOnce'
    BY <1>2, <1>4 DEF CloseClient, Known, TrackedSettled, ClosedOnce, Typed,
                      TypeOK
  <2>2. NoClientForgotten'
    BY <1>1, <1>4 DEF CloseClient, Known, NoClientForgotten, Typed, TypeOK
  <2> QED
    BY <2>1, <2>2 DEF Known
<1>5. CASE ReturnErrors(c)
  <2>1. TrackedSettled' /\ ClosedOnce'
    BY <1>2, <1>5 DEF ReturnErrors, Known, TrackedSettled, ClosedOnce, Typed,
                      TypeOK
  <2>2. NoClientForgotten'
    BY <1>1, <1>5 DEF ReturnErrors, Known, NoClientForgotten, Typed, TypeOK
  <2> QED
    BY <2>1, <2>2 DEF Known
<1> QED
  BY <1>3, <1>4, <1>5 DEF Close

\* Every step keeps track of every client.
LEMMA KnownStep == Typed /\ Known /\ [Next]_vars => Known'
<1> SUFFICES ASSUME Typed, Known, [Next]_vars PROVE Known'
  OBVIOUS
<1> USE DEF Goto, lists
<1>1. ASSUME NEW d \in Dials,
             BuildConfig(d) \/ ConfigError(d) \/ Connect(d) \/ DialError(d)
               \/ AppendTarget(d) \/ NextHop(d)
      PROVE  Known'
  <2>1. /\ UNCHANGED <<open, clients, taken, toClose, closing>>
        /\ hop' = hop
    BY <1>1 DEF BuildConfig, ConfigError, Configure, Connect, DialError,
                connecting, AppendTarget, NextHop
  <2>2. \A e \in Dials : pc[e] = "track" <=> pc'[e] = "track"
    BY <1>1 DEF BuildConfig, ConfigError, Configure, Connect, DialError,
                AppendTarget, NextHop, Typed, TypeOK
  <2> QED
    BY <2>1, <2>2, KnownKept
<1>2. ASSUME NEW d \in Dials, Handshake(d) \/ ProxyDial(d)
      PROVE  Known'
  BY <1>2, KnownConnected DEF Handshake, ProxyDial
<1>3. CASE Cancel \/ UNCHANGED vars
  BY <1>3, KnownKept DEF Cancel, vars, dialing
<1> QED
  BY <1>1, <1>2, <1>3, KnownTrack, KnownClose DEF Next, Dial, Terminated

\* The inductive invariant behind the next two: where each opened client is.
THEOREM KnownAlways == Spec => [](Typed /\ Known)
BY TypedInit, TypedStep, KnownInit, KnownStep, PTL DEF Spec

\* Every open connection is about to be tracked, tracked, or about to be closed
\* by a Close that has not returned: none leaks, in any interleaving.
THEOREM NoneForgotten == Spec => []NoClientForgotten
<1>1. Known => NoClientForgotten
  BY DEF Known
<1> QED
  BY <1>1, KnownAlways, PTL

\* No two calls of Close ever close the same connection.
THEOREM NoneClosedTwice == Spec => []ClosedOnce
<1>1. Known => ClosedOnce
  BY DEF Known
<1> QED
  BY <1>1, KnownAlways, PTL

-----------------------------------------------------------------------------
(* Cancellation *)

\* Nobody who was late gets to another connection: ctx is tested before it.
LEMMA LateStep == Typed /\ LateSettled /\ [Next]_vars => LateSettled'
<1> SUFFICES ASSUME Typed, LateSettled, [Next]_vars PROVE LateSettled'
  OBVIOUS
<1> USE DEF Goto, lists, LateSettled
<1>1. ASSUME NEW d \in Dials,
             BuildConfig(d) \/ ConfigError(d) \/ DialError(d)
               \/ Track(d) \/ AppendTarget(d)
      PROVE  LateSettled'
  <2>1. late' = late /\ cancelled' = cancelled
    BY <1>1 DEF BuildConfig, ConfigError, Configure, DialError, connecting,
                Track, AppendTarget
  <2>2. late[d] = 1 => pc'[d] \notin {"dial", "handshake", "hopDial"}
    BY <1>1 DEF BuildConfig, ConfigError, Configure, DialError, Track,
                AppendTarget, Typed, TypeOK, Stage
  <2>3. \A e \in Dials \ {d} : pc'[e] = pc[e]
    BY <1>1 DEF BuildConfig, ConfigError, Configure, DialError, Track,
                AppendTarget, Typed, TypeOK
  <2> QED
    BY <2>1, <2>2, <2>3
<1>2. ASSUME NEW d \in Dials, Connect(d) \/ NextHop(d)
      PROVE  LateSettled'
  BY <1>2 DEF Connect, connecting, NextHop, Typed, TypeOK
<1>3. ASSUME NEW d \in Dials, Handshake(d) \/ ProxyDial(d)
      PROVE  LateSettled'
  BY <1>3, JumpFacts DEF Handshake, ProxyDial, Connected, connecting, Typed,
                         TypeOK
<1>4. CASE Cancel
  BY <1>4 DEF Cancel
<1>5. ASSUME NEW c \in Closes, Close(c)
      PROVE  LateSettled'
  BY <1>5 DEF Close, Take, CloseClient, ReturnErrors, dialing
<1>6. CASE UNCHANGED vars
  BY <1>6 DEF vars, dialing
<1> QED
  BY <1>1, <1>2, <1>3, <1>4, <1>5, <1>6 DEF Next, Dial, Terminated

\* After the cancellation each call of Dial opens at most the one connection it
\* was waiting for, however long its chain.
THEOREM CancelStopsChain == Spec => []OneHopAfterCancel
<1>1. Init => LateSettled
  <2>1. Init => \A d \in Dials : late[d] = 0
    BY DEF Init
  <2>2. (\A d \in Dials : late[d] = 0) => LateSettled
    <3>1. ASSUME NEW d \in Dials, late[d] = 0
          PROVE  late[d] <= 1 /\ late[d] # 1
      BY <3>1
    <3> QED
      BY <3>1 DEF LateSettled
  <2> QED
    BY <2>1, <2>2
<1>2. LateSettled => OneHopAfterCancel
  BY DEF LateSettled, OneHopAfterCancel
<1> QED
  BY <1>1, <1>2, TypedInit, TypedStep, LateStep, PTL DEF Spec

-----------------------------------------------------------------------------
(* Routes *)

\* The way leads through the jumps, in order, to the target.
LEMMA WayFacts ==
  ASSUME NEW d \in Dials
  PROVE  /\ Way(d) \in Seq(STRING)
         /\ Len(Way(d)) = Hops
         /\ \A i \in 1..Jumps : Way(d)[i] = Jump(i)
         /\ Way(d)[Hops] = Target[d]
BY DialerAssumption DEF Way, Hops

\* The connection that is opened is the next on the way.
LEMMA RouteConnected ==
  ASSUME Typed, OnTheWay, NEW d \in Dials,
         pc[d] \in {"handshake", "hopDial"},
         pc' = [pc EXCEPT ![d] = "track"],
         Connected(d), UNCHANGED connecting
  PROVE  OnTheWay'
<1> USE DEF Connected, connecting, lists
<1>1. /\ hop[d] \in Nat /\ Len(route[d]) = hop[d] /\ route[d] \in Seq(Hosts)
      /\ hop'[d] = hop[d] + 1
      /\ route'[d] = Append(route[d], address[d])
      /\ address[d] = Way(d)[hop[d] + 1]
      /\ address[d] \in Hosts
      /\ pc'[d] = "track"
  BY JumpFacts DEF Typed, TypeOK, Stage, OnTheWay
<1>2. ASSUME NEW i \in 1..hop'[d]
      PROVE  route'[d][i] = Way(d)[i]
  <2>1. CASE i = hop[d] + 1
    BY <1>1, <2>1
  <2>2. CASE i \in 1..hop[d]
    <3>1. route'[d][i] = route[d][i]
      BY <1>1, <2>2
    <3> QED
      BY <2>2, <3>1 DEF OnTheWay
  <2> QED
    BY <1>1, <2>1, <2>2
<1>3. \A e \in Dials \ {d} : /\ hop'[e] = hop[e]
                             /\ route'[e] = route[e]
                             /\ pc'[e] = pc[e]
                             /\ address'[e] = address[e]
  BY DEF Typed, TypeOK
<1>4. \A e \in Dials : Way(e)' = Way(e)
  BY DEF Way
<1>5. ASSUME NEW e \in Dials
      PROVE  /\ \A i \in 1..hop'[e] : route'[e][i] = Way(e)[i]
             /\ pc'[e] \in {"dial", "handshake", "hopDial"} =>
                  address'[e] = Way(e)[hop'[e] + 1]
  <2>1. CASE e = d
    BY <1>1, <1>2, <2>1
  <2>2. CASE e # d
    BY <1>3, <2>2 DEF OnTheWay
  <2> QED
    BY <2>1, <2>2
<1> QED
  BY <1>4, <1>5 DEF OnTheWay

(* A step of d that leaves the routes alone and gives it the right address. *)
LEMMA RouteKept ==
  ASSUME Typed, OnTheWay, NEW d \in Dials,
         hop' = hop, route' = route,
         \A e \in Dials \ {d} : pc'[e] = pc[e] /\ address'[e] = address[e],
         pc'[d] \in {"dial", "handshake", "hopDial"} =>
           address'[d] = Way(d)[hop[d] + 1]
  PROVE  OnTheWay'
BY DEF OnTheWay, Way

\* Every step keeps the stored target.
LEMMA SpareStep ==
  ASSUME NothingShared, Typed, SpareRight, [Next]_vars
  PROVE  SpareRight'
<1> USE DEF Goto
<1> SUFFICES ASSUME SpareCapacity, NEW e \in Dials,
                    pc'[e] \in {"hop", "hopDial"} \/ hop'[e] > 1
             PROVE  spare' = Target[e]
  BY DEF SpareRight
<1>1. ASSUME UNCHANGED <<pc, hop, spare>>
      PROVE  spare' = Target[e]
  BY <1>1 DEF SpareRight
<1>2. ASSUME NEW d \in Dials, spare' = spare,
             \A i \in Dials \ {d} : pc'[i] = pc[i] /\ hop'[i] = hop[i],
             pc'[d] \in {"hop", "hopDial"} \/ hop'[d] > 1 =>
               pc[d] \in {"hop", "hopDial"} \/ hop[d] > 1
      PROVE  spare' = Target[e]
  BY <1>2 DEF SpareRight
<1>3. ASSUME NEW d \in Dials,
             BuildConfig(d) \/ ConfigError(d) \/ Connect(d) \/ DialError(d)
               \/ NextHop(d)
      PROVE  spare' = Target[e]
  <2>1. /\ spare' = spare /\ hop' = hop
        /\ \A i \in Dials \ {d} : pc'[i] = pc[i]
        /\ \/ pc'[d] \in {"dial", "handshake", "failed"}
           \/ pc[d] = "hop"
    BY <1>3 DEF BuildConfig, ConfigError, Configure, Connect, DialError,
                NextHop, connecting, Typed, TypeOK
  <2> QED
    BY <1>2, <2>1
<1>4. ASSUME NEW d \in Dials, Handshake(d) \/ ProxyDial(d)
      PROVE  spare' = Target[e]
  <2>1. /\ spare' = spare /\ hop[d] \in Nat /\ hop'[d] = hop[d] + 1
        /\ \A i \in Dials \ {d} : pc'[i] = pc[i] /\ hop'[i] = hop[i]
        /\ pc'[d] = "track"
        /\ pc[d] = "handshake" \/ pc[d] = "hopDial"
    BY <1>4, JumpFacts DEF Handshake, ProxyDial, Connected, connecting, Typed,
                           TypeOK
  <2>2. pc[d] = "handshake" => hop[d] = 0
    BY DEF Typed, Stage
  <2> QED
    BY <1>2, <2>1, <2>2
<1>5. ASSUME NEW d \in Dials, Track(d)
      PROVE  spare' = Target[e]
  <2>1. /\ spare' = spare /\ hop' = hop /\ hop[d] \in Nat /\ hop[d] >= 1
        /\ \A i \in Dials \ {d} : pc'[i] = pc[i]
        /\ pc'[d] \in {"returned", "append"} \/ hop[d] # 1
    BY <1>5, JumpFacts DEF Track, Typed, TypeOK, Stage
  <2>2. pc'[d] \in {"returned", "append"} \/ hop[d] > 1
    BY <2>1
  <2> QED
    BY <1>2, <2>1, <2>2
<1>6. ASSUME NEW d \in Dials, AppendTarget(d)
      PROVE  spare' = Target[e]
  <2>1. spare' = Target[d] /\ pc[d] = "append" /\ Jumps # 0
    BY <1>6, JumpFacts DEF AppendTarget, Typed, Stage
  <2> QED
    BY <2>1 DEF NothingShared
<1>7. ASSUME NEW c \in Closes, Close(c)
      PROVE  spare' = Target[e]
  <2>1. UNCHANGED dialing
    BY <1>7 DEF Close, Take, CloseClient, ReturnErrors
  <2> QED
    BY <1>1, <2>1 DEF dialing
<1>8. CASE Cancel \/ UNCHANGED vars
  BY <1>1, <1>8 DEF Cancel, vars, dialing
<1>9. ASSUME NEW d \in Dials, Dial(d)
      PROVE  spare' = Target[e]
  BY <1>3, <1>4, <1>5, <1>6, <1>9 DEF Dial
<1> QED
  BY <1>7, <1>8, <1>9 DEF Next, Terminated

\* Every step keeps every Dial on its way.
LEMMA RouteStep ==
  ASSUME SpareRight, Typed, OnTheWay, [Next]_vars
  PROVE  OnTheWay'
<1> USE DEF Goto, lists
<1>1. ASSUME NEW d \in Dials, BuildConfig(d)
      PROVE  OnTheWay'
  <2>1. /\ hop[d] = 0 /\ hop' = hop /\ route' = route
        /\ \A e \in Dials \ {d} : pc'[e] = pc[e] /\ address'[e] = address[e]
        /\ address'[d] = IF Jumps = 0 THEN Target[d] ELSE Jump(1)
    BY <1>1 DEF BuildConfig, Configure, Typed, TypeOK, Stage
  <2>2. Way(d)[1] = IF Jumps = 0 THEN Target[d] ELSE Jump(1)
    BY WayFacts, JumpFacts
  <2> QED
    BY <2>1, <2>2, RouteKept
<1>2. ASSUME NEW d \in Dials,
             ConfigError(d) \/ DialError(d) \/ Track(d) \/ AppendTarget(d)
      PROVE  OnTheWay'
  <2>1. /\ hop' = hop /\ route' = route /\ address' = address
        /\ pc'[d] \notin {"dial", "handshake", "hopDial"}
        /\ \A e \in Dials \ {d} : pc'[e] = pc[e]
    BY <1>2 DEF ConfigError, Configure, DialError, connecting, Track,
                AppendTarget, Typed, TypeOK
  <2> QED
    BY <2>1, RouteKept
<1>3. ASSUME NEW d \in Dials, Connect(d)
      PROVE  OnTheWay'
  <2>1. /\ hop' = hop /\ route' = route /\ address' = address
        /\ pc[d] = "dial"
        /\ \A e \in Dials \ {d} : pc'[e] = pc[e]
    BY <1>3 DEF Connect, connecting, Typed, TypeOK
  <2> QED
    BY <2>1, RouteKept DEF OnTheWay
<1>4. ASSUME NEW d \in Dials, NextHop(d)
      PROVE  OnTheWay'
  <2>1. /\ hop' = hop /\ route' = route
        /\ pc[d] = "hop" /\ hop[d] >= 1 /\ hop[d] < Hops /\ hop[d] \in Nat
        /\ address'[d] = NextHost(d)
        /\ \A e \in Dials \ {d} : pc'[e] = pc[e] /\ address'[e] = address[e]
    BY <1>4, JumpFacts DEF NextHop, Typed, TypeOK, Stage
  <2>2. NextHost(d) = Way(d)[hop[d] + 1]
    <3>1. CASE hop[d] < Jumps
      BY <2>1, <3>1, WayFacts, JumpFacts DEF NextHost
    <3>2. CASE hop[d] = Jumps
      BY <2>1, <3>2, WayFacts, JumpFacts DEF NextHost, SpareRight
    <3> QED
      BY <2>1, <3>1, <3>2, JumpFacts
  <2> QED
    BY <2>1, <2>2, RouteKept
<1>5. ASSUME NEW d \in Dials, Handshake(d) \/ ProxyDial(d)
      PROVE  OnTheWay'
  BY <1>5, RouteConnected DEF Handshake, ProxyDial
<1>6. ASSUME NEW c \in Closes, Close(c)
      PROVE  OnTheWay'
  <2>1. UNCHANGED dialing
    BY <1>6 DEF Close, Take, CloseClient, ReturnErrors
  <2> QED
    BY <2>1 DEF dialing, OnTheWay, Way
<1>7. CASE Cancel \/ UNCHANGED vars
  <2>1. UNCHANGED <<pc, hop, route, address>>
    BY <1>7 DEF Cancel, vars, dialing
  <2> QED
    BY <2>1 DEF OnTheWay, Way
<1>8. ASSUME NEW d \in Dials, Dial(d)
      PROVE  OnTheWay'
  BY <1>1, <1>2, <1>3, <1>4, <1>5, <1>8 DEF Dial
<1> QED
  BY <1>6, <1>7, <1>8 DEF Next, Terminated

\* A Dial that returns has come all the way.
LEMMA RouteArrives ==
  ASSUME Typed, OnTheWay
  PROVE  ReachesTarget
<1> SUFFICES ASSUME NEW d \in Dials, pc[d] = "returned"
             PROVE  route[d] = Way(d)
  BY DEF ReachesTarget, Way
<1>1. hop[d] = Hops /\ Len(route[d]) = Hops /\ route[d] \in Seq(Hosts)
  BY DEF Typed, TypeOK, Stage
<1>2. \A i \in 1..Hops : route[d][i] = Way(d)[i]
  BY <1>1 DEF OnTheWay
<1>3. Way(d) \in Seq(STRING) /\ Len(Way(d)) = Hops
  BY WayFacts
<1> QED
  BY <1>1, <1>2, <1>3, SeqEqual

\* Unless calls of Dial with different targets share a slice of jump hosts with
\* spare capacity, the client that Dial returns is connected to its own target
\* through every jump host in turn.
THEOREM RightHost == NothingShared => (Spec => []ReachesTarget)
<1> SUFFICES ASSUME NothingShared PROVE Spec => []ReachesTarget
  OBVIOUS
<1>1. Init => OnTheWay
  <2>1. Init => \A d \in Dials : hop[d] = 0 /\ pc[d] = "start"
    BY DEF Init
  <2>2. ASSUME \A d \in Dials : hop[d] = 0 /\ pc[d] = "start"
        PROVE  OnTheWay
    <3>1. ASSUME NEW d \in Dials
          PROVE  /\ \A i \in 1..hop[d] : route[d][i] = Way(d)[i]
                 /\ pc[d] \notin {"dial", "handshake", "hopDial"}
      <4>1. 1..hop[d] = {}
        BY <2>2
      <4> QED
        BY <2>2, <4>1
    <3> QED
      BY <3>1 DEF OnTheWay
  <2> QED
    BY <2>1, <2>2
<1>2. SpareRight /\ Typed /\ OnTheWay /\ [Next]_vars => OnTheWay'
  BY RouteStep
<1>3. Typed /\ OnTheWay => ReachesTarget
  BY RouteArrives
<1>4. Init => SpareRight
  BY DEF Init, SpareRight
<1>5. Typed /\ SpareRight /\ [Next]_vars => SpareRight'
  BY SpareStep
<1> QED
  BY <1>1, <1>2, <1>3, <1>4, <1>5, TypedInit, TypedStep, PTL DEF Spec

=============================================================================
