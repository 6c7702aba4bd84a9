------------------------------- MODULE Dialer -------------------------------
(***************************************************************************)
(* DefaultSSHDialer (pkg/ssh/dialer.go): calls of Dial by several          *)
(* goroutines through the proxy jumps of shared options, the list of the   *)
(* clients they open, the ctx that may be cancelled meanwhile, and calls   *)
(* of Close that race them.                                                *)
(*                                                                         *)
(* A client is <<d, k>>: the k-th that the call d opened.  What the        *)
(* network and golang.org/x/crypto/ssh do is external: a dial succeeds or  *)
(* fails, and one through a closed client fails.                           *)
(***************************************************************************)
EXTENDS Naturals, Sequences

CONSTANTS Dials,          \* calls of Dial
          Closes,         \* calls of Close
          ProxyJumps,     \* opts.ProxyJumps: the jump hosts
          Target,         \* the address each Dial asks for
          SpareCapacity   \* the slice of jumps has room behind its last element

Jumps == Len(ProxyJumps)
Jump(k) == ProxyJumps[k]

ASSUME DialerAssumption ==
  /\ ProxyJumps \in Seq(STRING)
  /\ Target \in [Dials -> STRING]
  /\ SpareCapacity \in BOOLEAN

Hops == Jumps + 1
Clients == Dials \X (1..Hops)

VARIABLES
  pc,       \* where each Dial is
  agents,   \* Dials whose connection to the ssh-agent was left open
  address,  \* the address it is connecting to
  hop,      \* the clients it has opened so far
  route,    \* the hosts it has been connected to, one through the other
  spare,    \* the array element behind the jumps
  open,     \* clients with an open connection
  clients,  \* d.clients
  taken,    \* what each Close has taken from d.clients
  toClose,  \* what it has yet to close of it
  closing,  \* where each Close is
  cancelled,\* the ctx of the Dials is cancelled
  late      \* history: the clients each Dial opened after that

dialing == <<pc, agents, address, hop, route, spare, cancelled, late>>
lists == <<taken, toClose, closing>>
vars == <<dialing, open, clients, lists>>

NoHost == ""

Init ==
  /\ pc = [d \in Dials |-> "start"]
  /\ agents = {}
  /\ address = [d \in Dials |-> NoHost]
  /\ hop = [d \in Dials |-> 0]
  /\ route = [d \in Dials |-> << >>]
  /\ spare = NoHost
  /\ open = {}
  /\ clients = {}
  /\ taken = [c \in Closes |-> {}]
  /\ toClose = [c \in Closes |-> {}]
  /\ closing = [c \in Closes |-> "start"]
  /\ cancelled = FALSE
  /\ late = [d \in Dials |-> 0]

Cancel ==
  /\ ~cancelled
  /\ cancelled' = TRUE
  /\ UNCHANGED <<pc, agents, address, hop, route, spare, late, open, clients,
                 lists>>

----------------------------------------------------------------------------
(* Dial *)

Goto(d, from, to) == pc[d] = from /\ pc' = [pc EXCEPT ![d] = to]

\* buildClientConfig: the agent's connection stays open when it has keys.
Configure(d, to) ==
  /\ Goto(d, "start", to)
  /\ agents' \in {agents, agents \cup {d}}
  /\ UNCHANGED <<hop, route, spare, cancelled, late, open, clients, lists>>

\* A key, the agent, or both can authenticate; the first address follows.
BuildConfig(d) ==
  /\ Configure(d, "dial")
  /\ address' = [address EXCEPT ![d] = IF Jumps = 0 THEN Target[d] ELSE Jump(1)]

\* No user, no known_hosts, an unreadable key, nothing to authenticate with.
ConfigError(d) == Configure(d, "failed") /\ UNCHANGED address

connecting == <<agents, address, spare, cancelled, clients, lists>>

\* DialContext connects unless ctx is cancelled first.
Connect(d) ==
  /\ ~cancelled
  /\ Goto(d, "dial", "handshake")
  /\ UNCHANGED <<connecting, hop, route, late, open>>

\* A client of d is open, connected to its address through the one before.
Connected(d) ==
  /\ hop' = [hop EXCEPT ![d] = @ + 1]
  /\ route' = [route EXCEPT ![d] = Append(@, address[d])]
  /\ open' = open \cup {<<d, hop[d] + 1>>}
  /\ late' = [late EXCEPT ![d] = IF cancelled THEN @ + 1 ELSE @]

\* The handshake of the direct dial knows nothing of ctx.
Handshake(d) ==
  /\ Goto(d, "handshake", "track")
  /\ Connected(d)
  /\ UNCHANGED connecting

\* The network or the handshake fails, or ctx is cancelled.  The clients opened
\* so far stay open, for Close.
DialError(d) ==
  /\ \/ \E at \in {"dial", "handshake", "hopDial"} : Goto(d, at, "failed")
     \/ cancelled /\ Goto(d, "hop", "failed")
  /\ UNCHANGED <<connecting, hop, route, late, open>>

\* Slip: the range begins at the first jump again, so there is a hop too many.
TrackWholeList(d) ==
  /\ Goto(d, "track", IF hop[d] > Hops THEN "returned"
                      ELSE IF hop[d] = 1 THEN "append" ELSE "hop")
  /\ clients' = clients \cup {<<d, hop[d]>>}
  /\ UNCHANGED <<agents, address, hop, route, spare, cancelled, late, open,
                 lists>>

\* trackClient, under the mutex.
Track(d) ==
  /\ Goto(d, "track", IF hop[d] = Hops THEN "returned"
                      ELSE IF hop[d] = 1 THEN "append" ELSE "hop")
  /\ clients' = clients \cup {<<d, hop[d]>>}
  /\ UNCHANGED <<agents, address, hop, route, spare, cancelled, late, open,
                 lists>>

\* append(opts.ProxyJumps[1:], targetAddr) stores the target behind the jumps,
\* in the array that the options share, when there is room for it there.
AppendTarget(d) ==
  /\ Goto(d, "append", "hop")
  /\ spare' = IF SpareCapacity THEN Target[d] ELSE spare
  /\ UNCHANGED <<agents, address, hop, route, cancelled, late, open, clients,
                 lists>>

\* Slip: the range stops before the appended target.
NextHostStale(d) == IF hop[d] < Jumps THEN Jump(hop[d] + 1) ELSE Jump(Jumps)

\* The element of that slice that the loop is at.
NextHost(d) ==
  IF hop[d] < Jumps THEN Jump(hop[d] + 1)
                    ELSE IF SpareCapacity THEN spare ELSE Target[d]

\* Slip: ctx is not tested between the hops.
NextHopUnchecked(d) ==
  /\ Goto(d, "hop", "hopDial")
  /\ address' = [address EXCEPT ![d] = NextHost(d)]
  /\ UNCHANGED <<agents, hop, route, spare, cancelled, late, open, clients,
                 lists>>

\* The loop takes its next element, and proxyDial tests ctx once.
NextHop(d) ==
  /\ ~cancelled
  /\ Goto(d, "hop", "hopDial")
  /\ address' = [address EXCEPT ![d] = NextHost(d)]
  /\ UNCHANGED <<agents, hop, route, spare, cancelled, late, open, clients,
                 lists>>

\* jumpClient.Dial and the handshake know nothing of ctx.
ProxyDial(d) ==
  /\ <<d, hop[d]>> \in open
  /\ Goto(d, "hopDial", "track")
  /\ Connected(d)
  /\ UNCHANGED connecting

Dial(d) ==
  \/ BuildConfig(d) \/ ConfigError(d) \/ Connect(d) \/ Handshake(d)
  \/ DialError(d) \/ Track(d) \/ AppendTarget(d) \/ NextHop(d) \/ ProxyDial(d)

----------------------------------------------------------------------------
(* Close *)

\* Slip: the list is copied and not reset.
TakeCopy(c) ==
  /\ closing[c] = "start"
  /\ closing' = [closing EXCEPT ![c] = "closing"]
  /\ taken' = [taken EXCEPT ![c] = clients]
  /\ toClose' = [toClose EXCEPT ![c] = clients]
  /\ UNCHANGED <<dialing, open, clients>>

\* The list is taken and reset under the mutex.
Take(c) ==
  /\ closing[c] = "start"
  /\ closing' = [closing EXCEPT ![c] = "closing"]
  /\ taken' = [taken EXCEPT ![c] = clients]
  /\ toClose' = [toClose EXCEPT ![c] = clients]
  /\ clients' = {}
  /\ UNCHANGED <<dialing, open>>

\* In any order: a client is closed, or its Close returns an error, which is
\* collected: the connection is gone either way.
CloseClient(c) ==
  /\ \E client \in toClose[c] :
       /\ open' = open \ {client}
       /\ toClose' = [toClose EXCEPT ![c] = @ \ {client}]
  /\ UNCHANGED <<dialing, clients, taken, closing>>

\* Slip: the first error ends the loop.
ReturnOnError(c) ==
  /\ closing[c] = "closing"
  /\ closing' = [closing EXCEPT ![c] = "returned"]
  /\ UNCHANGED <<dialing, open, clients, taken, toClose>>

ReturnErrors(c) ==
  /\ closing[c] = "closing"
  /\ toClose[c] = {}
  /\ closing' = [closing EXCEPT ![c] = "returned"]
  /\ UNCHANGED <<dialing, open, clients, taken, toClose>>

Close(c) == Take(c) \/ CloseClient(c) \/ ReturnErrors(c)

Terminated ==
  /\ \A d \in Dials : pc[d] \in {"returned", "failed"}
  /\ \A c \in Closes : closing[c] = "returned"
  /\ UNCHANGED vars

Next ==
  \/ Cancel
  \/ \E d \in Dials : Dial(d)
  \/ \E c \in Closes : Close(c)
  \/ Terminated

Spec == Init /\ [][Next]_vars

----------------------------------------------------------------------------
(* Properties *)

Hosts == {Target[d] : d \in Dials} \cup {Jump(k) : k \in 1..Jumps}

\* In particular, no call opens more clients than it has hops.
TypeOK ==
  /\ pc \in [Dials -> {"start", "dial", "handshake", "track", "append", "hop",
                     "hopDial", "returned", "failed"}]
  /\ agents \subseteq Dials
  /\ address \in [Dials -> Hosts \cup {NoHost}]
  /\ hop \in [Dials -> 0..Hops]
  /\ route \in [Dials -> Seq(Hosts)]
  /\ \A d \in Dials : Len(route[d]) = hop[d]
  /\ spare \in Hosts \cup {NoHost}
  /\ open \in SUBSET Clients
  /\ clients \in SUBSET Clients
  /\ taken \in [Closes -> SUBSET Clients]
  /\ toClose \in [Closes -> SUBSET Clients]
  /\ closing \in [Closes -> {"start", "closing", "returned"}]
  /\ cancelled \in BOOLEAN
  /\ late \in [Dials -> 0..Hops]

\* No connection is forgotten, also when a later hop fails: whoever opened it
\* is about to track it, or it is tracked, or a Close that has not returned yet
\* is about to close it, the errors of other clients notwithstanding.
NoClientForgotten ==
  \A client \in open :
    \/ pc[client[1]] = "track" /\ hop[client[1]] = client[2]
    \/ client \in clients
    \/ \E c \in Closes : closing[c] = "closing" /\ client \in toClose[c]

\* No client is closed twice, by whatever calls of Close.
ClosedOnce ==
  \A c \in Closes :
    /\ taken[c] \cap clients = {}
    /\ \A e \in Closes : c # e => taken[c] \cap taken[e] = {}

\* dialer.go:181 tests ctx once per hop: after the cancellation each Dial opens
\* at most the one connection it was already waiting for.
OneHopAfterCancel == \A d \in Dials : late[d] <= 1

\* dialer.go:43: "Dial dials a host directly or through one/many ProxyJump
\* hops": the client it returns is connected to the host it was asked for.
ReachesTarget ==
  \A d \in Dials : pc[d] = "returned" =>
    route[d] = Append(ProxyJumps, Target[d])

=============================================================================
