-------------------------- MODULE McastSetupProofs --------------------------
(***************************************************************************)
(* The life of a descriptor, and where a block listens, for every set of   *)
(* targets, names, hosts and interfaces and any number of descriptors.     *)
(***************************************************************************)
EXTENDS McastSetup, FiniteSetTheorems, TLAPS

Socket == [open : BOOLEAN, owner : {"none", "live", "destroyed"},
           target : Targets, output : BOOLEAN, addr : Address \cup {None},
           group : STRING \cup {"none"}, on : STRING \cup {"none", "default"},
           warned : BOOLEAN]

\* The call being made has a socket.
Midway == call.at \in {"join", "attach", "return"}

\* From the second step on there is a socket to work on, and the address is one.
Typed ==
  /\ TypeOK
  /\ DOMAIN call = {"at", "target", "output", "sock"}
  /\ call = [at |-> call.at, target |-> call.target, output |-> call.output, sock |-> call.sock]
  /\ call.sock \in Address \cup {None}
  /\ Midway => Fd > 0

LEMMA TypedInit == Init => Typed
<1> SUFFICES ASSUME Init PROVE Typed
  OBVIOUS
<1>1. call = Idle /\ sockets = <<>> /\ names = Numeric
  BY DEF Init
<1>2. Idle.at = "idle" /\ Idle.output = FALSE /\ Idle.sock = None
  BY DEF Idle
<1>3. DOMAIN Idle = {"at", "target", "output", "sock"}
  BY DEF Idle
<1>4. Idle = [at |-> Idle.at, target |-> Idle.target, output |-> Idle.output, sock |-> Idle.sock]
  BY DEF Idle
<1>5. sockets \in Seq(Socket) /\ names \in [DOMAIN names -> HostAddress]
  BY <1>1, HostsAssumption
<1>6. call.at = "idle" /\ call.output \in BOOLEAN /\ call.sock \in Address \cup {None}
  BY <1>1, <1>2
<1>7. /\ DOMAIN call = {"at", "target", "output", "sock"}
      /\ call = [at |-> call.at, target |-> call.target, output |-> call.output,
                 sock |-> call.sock]
  BY <1>1, <1>3, <1>4, Zenon
<1> QED
  BY <1>5, <1>6, <1>7 DEF Typed, TypeOK, Midway, Socket

\* Changing fields of one socket keeps the rest and the types.
LEMMA TypedStep ==
  ASSUME Typed, [Next]_vars
  PROVE  Typed'
<1> USE DEF Typed, TypeOK, Midway, Fd
<1>0. sockets \in Seq(Socket)
  BY DEF Socket
<1>1. ASSUME NEW name, NEW host \in HostAddress, Announce(name, host)
      PROVE  Typed'
  BY <1>1 DEF Announce
<1>2. ASSUME NEW t \in Targets, NEW output \in BOOLEAN, setup_mcast(t, output)
      PROVE  Typed'
  BY <1>2 DEF setup_mcast
<1>3. CASE resolve_mcast
  <2>1. names[full_host(call.target)] \in HostAddress
    BY <1>3 DEF resolve_mcast, Resolves
  <2>2. HasPort(call.target) => Port(call.target) \in STRING
    BY <1>3, TargetsAssumption DEF resolve_mcast, HasPort, Port
  <2>3. \A port \in STRING : Resolved(call.target, port) \in Address
    BY <2>1 DEF Resolved, Address, HostAddress
  <2> QED
    BY <1>3, <2>2, <2>3, HostsAssumption DEF resolve_mcast
<1>4. CASE SocketFails \/ OpenSocket
  <2>1. CASE SocketFails
    BY <2>1 DEF SocketFails, Idle
  <2>2. CASE OpenSocket
    <3>1. [open |-> TRUE, owner |-> "none", target |-> call.target, output |-> call.output,
           addr |-> None, group |-> "none", on |-> "none", warned |-> FALSE] \in Socket
      BY <2>2 DEF OpenSocket, Socket
    <3>2. sockets' \in Seq(Socket) /\ Len(sockets') > 0
      BY <1>0, <2>2, <3>1 DEF OpenSocket
    <3> QED
      BY <2>2, <3>2 DEF OpenSocket, Socket
  <2> QED
    BY <1>4, <2>1, <2>2
<1>5. CASE join_group
  <2>1. sockets' \in Seq(Socket) /\ Len(sockets') = Len(sockets)
    <3>1. Fd \in 1 .. Len(sockets) /\ sockets[Fd] \in Socket
      BY <1>0, <1>5 DEF join_group
    <3>2. CASE Joined
      <4>1. call.sock.ip \in STRING
        BY <3>2 DEF Joined, Address, None
      <4>2. Interface(call.target) \in STRING \cup {"none", "default"}
        BY <1>5, TargetsAssumption DEF join_group, Interface
      <4> QED
        BY <1>0, <3>1, <3>2, <4>1, <4>2 DEF Joined, Socket
    <3>3. CASE NotJoined
      <4>1. [sockets[Fd] EXCEPT !.warned = TRUE] \in Socket
        BY <3>1 DEF Socket
      <4>2. sockets' = [sockets EXCEPT ![Fd] = [sockets[Fd] EXCEPT !.warned = TRUE]]
        BY <3>3 DEF NotJoined
      <4> QED
        BY <1>0, <3>1, <4>1, <4>2
    <3>4. CASE SomethingElse
      BY <1>0, <3>4 DEF SomethingElse
    <3> QED
      BY <1>5, <3>2, <3>3, <3>4 DEF join_group
  <2> QED
    BY <1>5, <2>1 DEF join_group, Socket
<1>6. CASE Attach \/ AttachFails \/ Built
  <2>0. Fd \in 1 .. Len(sockets) /\ sockets[Fd] \in Socket
    BY <1>0, <1>6 DEF Attach, AttachFails, Built
  <2>1. sockets' \in Seq(Socket) /\ Len(sockets') = Len(sockets)
    <3>1. CASE Attach
      BY <1>0, <2>0, <3>1 DEF Attach, Socket
    <3>2. CASE AttachFails
      <4> DEFINE s == [sockets[Fd] EXCEPT !.open = FALSE, !.group = "none", !.on = "none"]
      <4>1. s \in Socket
        BY <2>0 DEF Socket
      <4>2. sockets' = [sockets EXCEPT ![Fd] = s]
        BY <3>2 DEF AttachFails
      <4> HIDE DEF s
      <4> QED
        BY <1>0, <2>0, <4>1, <4>2
    <3>3. CASE Built
      <4>1. [sockets[Fd] EXCEPT !.owner = "live"] \in Socket
        BY <2>0 DEF Socket
      <4>2. sockets' = [sockets EXCEPT ![Fd] = [sockets[Fd] EXCEPT !.owner = "live"]]
        BY <3>3 DEF Built
      <4> QED
        BY <1>0, <2>0, <4>1, <4>2
    <3> QED
      BY <1>6, <3>1, <3>2, <3>3
  <2>2. CASE Attach
    BY <2>1, <2>2 DEF Attach, Socket
  <2>3. CASE AttachFails \/ Built
    <3>1. call' = Idle /\ names' = names
      BY <2>3 DEF AttachFails, Built
    <3> QED
      BY <2>1, <3>1 DEF Idle, Socket
  <2> QED
    BY <1>6, <2>2, <2>3
<1>7. ASSUME NEW fd \in DOMAIN sockets, Destroy(fd)
      PROVE  Typed'
  <2>0. fd \in 1 .. Len(sockets) /\ sockets[fd] \in Socket
    BY <1>0
  <2>1. sockets' \in Seq(Socket) /\ Len(sockets') = Len(sockets)
    <3>1. [sockets[fd] EXCEPT !.owner = "destroyed"] \in Socket
      BY <2>0 DEF Socket
    <3>2. sockets' = [sockets EXCEPT ![fd] = [sockets[fd] EXCEPT !.owner = "destroyed"]]
      BY <1>7 DEF Destroy
    <3> QED
      BY <1>0, <2>0, <3>1, <3>2
  <2> QED
    BY <1>7, <2>1 DEF Destroy, Socket
<1>8. CASE UNCHANGED vars
  BY <1>8 DEF vars
<1> QED
  BY <1>1, <1>2, <1>3, <1>4, <1>5, <1>6, <1>7, <1>8, HostsAssumption DEF Next, Step

\* Every reachable state is well typed: a call never works on a socket there is
\* not, and an address is one.
THEOREM TypeCorrect == Spec => []TypeOK
<1>1. Typed => TypeOK
  BY DEF Typed
<1> QED
  BY TypedInit, TypedStep, <1>1, PTL DEF Spec

-----------------------------------------------------------------------------
(* What each step does to the sockets: one of them changes, field by field.  *)

Same(i) ==
  /\ DOMAIN sockets' = DOMAIN sockets /\ Len(sockets') = Len(sockets)
  /\ \A fd \in DOMAIN sockets \ {i} : sockets'[fd] = sockets[fd]

LEMMA SocketsAre ==
  ASSUME Typed
  PROVE  /\ Len(sockets) \in Nat /\ DOMAIN sockets = 1 .. Len(sockets)
         /\ sockets \in Seq(Socket)
         /\ \A fd \in DOMAIN sockets : sockets[fd] \in Socket
         /\ Midway => Fd \in DOMAIN sockets
<1>1. sockets \in Seq(Socket)
  BY DEF Typed, TypeOK, Socket
<1> QED
  BY <1>1 DEF Typed, Fd

LEMMA JoinEffect ==
  ASSUME Typed, join_group
  PROVE  /\ Same(Fd) /\ Midway /\ Midway'
         /\ sockets'[Fd] \in
              { [sockets[Fd] EXCEPT !.group = call.sock.ip, !.on = Interface(call.target)],
                [sockets[Fd] EXCEPT !.warned = TRUE], sockets[Fd] }
         /\ Joined => sockets'[Fd] =
              [sockets[Fd] EXCEPT !.group = call.sock.ip, !.on = Interface(call.target)]
         /\ NotJoined => sockets'[Fd] = [sockets[Fd] EXCEPT !.warned = TRUE]
<1>1. Midway /\ Midway'
  BY DEF join_group, Midway, Typed
<1>2. Fd \in DOMAIN sockets /\ sockets \in Seq(Socket)
  BY <1>1, SocketsAre
<1>3. CASE Joined
  <2> DEFINE s == [sockets[Fd] EXCEPT !.group = call.sock.ip, !.on = Interface(call.target)]
  <2>1. sockets' = [sockets EXCEPT ![Fd] = s]
    BY <1>2, <1>3 DEF Joined
  <2>2. NotJoined => s = [sockets[Fd] EXCEPT !.warned = TRUE]
    <3>1. ASSUME NotJoined PROVE sockets' = [sockets EXCEPT ![Fd] = [sockets[Fd] EXCEPT !.warned = TRUE]]
      BY <3>1 DEF NotJoined
    <3> HIDE DEF s
    <3> QED
      BY <1>2, <2>1, <3>1
  <2> HIDE DEF s
  <2>3. Same(Fd) /\ sockets'[Fd] = s
    BY <1>2, <2>1 DEF Same, Fd
  <2> QED
    BY <1>1, <2>2, <2>3 DEF s
<1>4. CASE NotJoined /\ ~Joined
  <2>1. sockets' = [sockets EXCEPT ![Fd] = [sockets[Fd] EXCEPT !.warned = TRUE]]
    BY <1>4 DEF NotJoined
  <2> QED
    BY <1>1, <1>2, <1>4, <2>1 DEF Same, Fd
<1>5. CASE SomethingElse /\ ~Joined /\ ~NotJoined
  BY <1>1, <1>5 DEF SomethingElse, Same
<1> QED
  BY <1>3, <1>4, <1>5 DEF join_group

LEMMA AttachEffect ==
  ASSUME Typed, Attach
  PROVE  /\ Same(Fd) /\ Midway /\ Midway'
         /\ sockets'[Fd] = [sockets[Fd] EXCEPT !.addr = call.sock]
<1>1. Midway /\ Midway'
  BY DEF Attach, Midway, Typed
<1>2. Fd \in DOMAIN sockets /\ sockets \in Seq(Socket)
  BY <1>1, SocketsAre
<1>3. sockets' = [sockets EXCEPT ![Fd] = [sockets[Fd] EXCEPT !.addr = call.sock]]
  BY DEF Attach
<1> QED
  BY <1>1, <1>2, <1>3 DEF Same, Fd

LEMMA AttachFailsEffect ==
  ASSUME Typed, AttachFails
  PROVE  /\ Same(Fd) /\ Midway /\ ~Midway'
         /\ sockets'[Fd] =
              [sockets[Fd] EXCEPT !.open = FALSE, !.group = "none", !.on = "none"]
<1>1. Midway /\ ~Midway'
  BY DEF AttachFails, Midway, Idle
<1>2. Fd \in DOMAIN sockets /\ sockets \in Seq(Socket)
  BY <1>1, SocketsAre
<1> DEFINE s == [sockets[Fd] EXCEPT !.open = FALSE, !.group = "none", !.on = "none"]
<1>3. sockets' = [sockets EXCEPT ![Fd] = s]
  BY DEF AttachFails
<1> HIDE DEF s
<1>4. Same(Fd) /\ sockets'[Fd] = s
  BY <1>2, <1>3 DEF Same, Fd
<1> QED
  BY <1>1, <1>4 DEF s

LEMMA BuiltEffect ==
  ASSUME Typed, Built
  PROVE  /\ Same(Fd) /\ Midway /\ ~Midway'
         /\ sockets'[Fd] = [sockets[Fd] EXCEPT !.owner = "live"]
<1>1. Midway /\ ~Midway'
  BY DEF Built, Midway, Idle
<1>2. Fd \in DOMAIN sockets /\ sockets \in Seq(Socket)
  BY <1>1, SocketsAre
<1>3. sockets' = [sockets EXCEPT ![Fd] = [sockets[Fd] EXCEPT !.owner = "live"]]
  BY DEF Built
<1> QED
  BY <1>1, <1>2, <1>3 DEF Same, Fd

LEMMA DestroyEffect ==
  ASSUME Typed, NEW fd \in DOMAIN sockets, Destroy(fd)
  PROVE  /\ Same(fd) /\ sockets[fd].owner = "live" /\ call' = call /\ names' = names
         /\ sockets'[fd] = [sockets[fd] EXCEPT !.owner = "destroyed"]
<1>1. sockets \in Seq(Socket)
  BY SocketsAre
<1>2. sockets' = [sockets EXCEPT ![fd] = [sockets[fd] EXCEPT !.owner = "destroyed"]]
  BY DEF Destroy
<1> QED
  BY <1>1, <1>2 DEF Same, Destroy

-----------------------------------------------------------------------------
(* Descriptors.  *)

\* The socket of the call being made is nobody's yet.
Unowned == Midway => sockets[Fd].owner = "none"

Accounted ==
  /\ Typed
  /\ Unowned
  /\ \A fd \in DOMAIN sockets :
       sockets[fd].open <=> sockets[fd].owner # "none" \/ (fd = Fd /\ Midway)
  /\ Cardinality(Opened) <= MaxFds

LEMMA OpenedIsFinite ==
  ASSUME Typed
  PROVE  IsFiniteSet(Opened) /\ Cardinality(Opened) \in Nat
<1>1. DOMAIN sockets = 1 .. Len(sockets) /\ Len(sockets) \in Nat
  BY DEF Typed, TypeOK
<1>2. IsFiniteSet(DOMAIN sockets)
  BY <1>1, FS_Interval
<1>3. IsFiniteSet(Opened)
  BY <1>2, FS_Subset DEF Opened
<1> QED
  BY <1>3, FS_CardinalityType

\* While no socket is added and none is opened again, the limit is kept.
LEMMA LimitKept ==
  ASSUME Accounted, Typed', DOMAIN sockets' = DOMAIN sockets,
         \A fd \in DOMAIN sockets : sockets'[fd].open => sockets[fd].open
  PROVE  Cardinality(Opened') <= MaxFds
<1>1. Opened' \subseteq Opened
  BY DEF Opened
<1>2. IsFiniteSet(Opened) /\ Cardinality(Opened) \in Nat /\ Cardinality(Opened) <= MaxFds
  BY OpenedIsFinite DEF Accounted
<1>3. Cardinality(Opened') <= Cardinality(Opened) /\ Cardinality(Opened') \in Nat
  BY <1>1, <1>2, FS_Subset, FS_CardinalityType
<1> QED
  BY <1>2, <1>3, BoundsAssumption

LEMMA AccountedInit == Init => Accounted
<1> SUFFICES ASSUME Init PROVE Accounted
  OBVIOUS
<1>0. sockets = <<>> /\ call.at = "idle"
  BY DEF Init, Idle
<1>1. DOMAIN sockets = {} /\ call.at = "idle"
  <2>1. DOMAIN <<>> = 1 .. 0
    OBVIOUS
  <2> QED
    BY <1>0, <2>1
<1>2. Opened = {}
  BY <1>1 DEF Opened
<1>3. Cardinality(Opened) = 0
  BY <1>2, FS_EmptySet
<1> QED
  BY <1>1, <1>3, TypedInit, BoundsAssumption DEF Accounted, Unowned, Midway

LEMMA AccountedStep ==
  ASSUME Accounted, [Next]_vars
  PROVE  Accounted'
<1>1. Typed /\ Typed'
  BY TypedStep DEF Accounted
<1>2. Len(sockets) \in Nat /\ DOMAIN sockets = 1 .. Len(sockets)
  BY <1>1 DEF Typed, TypeOK
<1> USE DEF Midway, Fd
<1>3. ASSUME sockets' = sockets, Midway' = Midway
      PROVE  Accounted'
  BY <1>1, <1>3 DEF Accounted, Unowned, Opened
<1>4. CASE OpenSocket
  <2>1. /\ DOMAIN sockets' = DOMAIN sockets \cup {Len(sockets) + 1}
        /\ Len(sockets') = Len(sockets) + 1
        /\ \A fd \in DOMAIN sockets : sockets'[fd] = sockets[fd]
        /\ sockets'[Len(sockets) + 1].open /\ sockets'[Len(sockets) + 1].owner = "none"
    BY <1>1, <1>2, <1>4 DEF OpenSocket, Typed, TypeOK
  <2>2. call.at = "socket" /\ call'.at = "join" /\ Cardinality(Opened) < MaxFds
    BY <1>1, <1>4 DEF OpenSocket, Typed
  <2>3. Opened' = Opened \cup {Len(sockets) + 1} /\ Len(sockets) + 1 \notin Opened
    BY <1>2, <2>1 DEF Opened
  <2>4. Cardinality(Opened') = Cardinality(Opened) + 1
    BY <1>1, <2>3, OpenedIsFinite, FS_AddElement
  <2>5. Cardinality(Opened') <= MaxFds
    BY <1>1, <2>2, <2>4, OpenedIsFinite, BoundsAssumption
  <2> QED
    BY <1>1, <1>2, <2>1, <2>2, <2>5 DEF Accounted, Unowned
<1>5. ASSUME NEW i \in DOMAIN sockets,
             DOMAIN sockets' = DOMAIN sockets, Len(sockets') = Len(sockets),
             \A fd \in DOMAIN sockets \ {i} : sockets'[fd] = sockets[fd],
             sockets'[i].open => sockets[i].open,
             Unowned',
             sockets'[i].open <=> sockets'[i].owner # "none" \/ (i = Fd /\ Midway'),
             i = Fd \/ (Midway' = Midway)
      PROVE  Accounted'
  <2>1. Cardinality(Opened') <= MaxFds
    BY <1>1, <1>5, LimitKept
  <2> QED
    BY <1>1, <1>2, <1>5, <2>1 DEF Accounted
<1>6. CASE join_group
  <2>1. Same(Fd) /\ Midway /\ Midway' /\ Fd \in DOMAIN sockets /\ sockets[Fd] \in Socket
    BY <1>1, <1>6, JoinEffect, SocketsAre
  <2>2. sockets'[Fd].open = sockets[Fd].open /\ sockets'[Fd].owner = sockets[Fd].owner
    BY <1>1, <1>6, <2>1, JoinEffect DEF Socket
  <2> QED
    BY <1>5, <2>1, <2>2 DEF Accounted, Unowned, Same
<1>7. CASE Attach \/ AttachFails \/ Built
  <2>1. Same(Fd) /\ Midway /\ Fd \in DOMAIN sockets /\ sockets[Fd] \in Socket
    BY <1>1, <1>7, AttachEffect, AttachFailsEffect, BuiltEffect, SocketsAre
  <2>2. sockets[Fd].open /\ sockets[Fd].owner = "none"
    BY <2>1 DEF Accounted, Unowned
  <2>3. CASE Attach
    <3>1. Midway' /\ sockets'[Fd].open /\ sockets'[Fd].owner = "none"
      BY <1>1, <2>1, <2>2, <2>3, AttachEffect DEF Socket
    <3> QED
      BY <1>5, <2>1, <2>2, <3>1 DEF Unowned, Same
  <2>4. CASE AttachFails
    <3>1. ~Midway' /\ sockets'[Fd].open = FALSE /\ sockets'[Fd].owner = "none"
      BY <1>1, <2>1, <2>2, <2>4, AttachFailsEffect DEF Socket
    <3> QED
      BY <1>5, <2>1, <2>2, <3>1 DEF Unowned, Same
  <2>5. CASE Built
    <3>1. ~Midway' /\ sockets'[Fd].open /\ sockets'[Fd].owner = "live"
      BY <1>1, <2>1, <2>2, <2>5, BuiltEffect DEF Socket
    <3> QED
      BY <1>5, <2>1, <2>2, <3>1 DEF Unowned, Same
  <2> QED
    BY <1>7, <2>3, <2>4, <2>5
<1>8. ASSUME NEW fd \in DOMAIN sockets, Destroy(fd)
      PROVE  Accounted'
  <2>1. Same(fd) /\ call' = call /\ Midway' = Midway /\ sockets[fd] \in Socket
    BY <1>1, <1>8, DestroyEffect, SocketsAre
  <2>2. /\ sockets[fd].owner = "live" /\ sockets'[fd].owner = "destroyed"
        /\ sockets'[fd].open = sockets[fd].open
    BY <1>1, <1>8, <2>1, DestroyEffect DEF Socket
  <2>3. Midway => fd # Fd
    BY <2>2 DEF Accounted, Unowned
  <2> QED
    BY <1>2, <1>5, <2>1, <2>2, <2>3 DEF Accounted, Unowned, Typed, Same
<1>9. ASSUME NEW t, NEW output, setup_mcast(t, output)
      PROVE  Accounted'
  <2>1. call.at = "idle" /\ call'.at \in {"socket", "resolve"} /\ sockets' = sockets
    BY <1>9 DEF setup_mcast
  <2> QED
    BY <1>3, <2>1
<1>10. CASE resolve_mcast
  BY <1>1, <1>3, <1>10 DEF resolve_mcast, Typed
<1>11. CASE SocketFails
  <2>1. call.at = "socket" /\ call'.at = "idle" /\ sockets' = sockets
    BY <1>11 DEF SocketFails, Idle
  <2> QED
    BY <1>3, <2>1
<1>12. ASSUME NEW name, NEW host, Announce(name, host)
       PROVE  Accounted'
  BY <1>3, <1>12 DEF Announce
<1>13. CASE UNCHANGED vars
  BY <1>3, <1>13 DEF vars
<1> QED
  BY <1>4, <1>6, <1>7, <1>8, <1>9, <1>10, <1>11, <1>12, <1>13 DEF Next, Step

\* Whatever the calls asked for and however they failed, between calls the open
\* descriptors are those of the blocks that were built, and never more than the
\* process may have (setup_mcast, ~source_impl).
THEOREM Accounts == Spec => []DescriptorsAccounted
<1>1. Accounted => DescriptorsAccounted
  BY DEF Accounted, DescriptorsAccounted, Midway
<1> QED
  BY AccountedInit, AccountedStep, <1>1, PTL DEF Spec

-----------------------------------------------------------------------------
(* Where a block listens.  *)

PortOf(target) == IF HasPort(target) THEN Port(target) ELSE DEFAULT_RTP_PORT

\* A socket as the call for sock leaves it: in the group, on the interface, or
\* warned; only an IPv6 socket may be neither.
Member(s, sock, target) ==
  IF s.group = "none" THEN s.warned \/ sock.family = "AF_INET6"
  ELSE s.group = sock.ip /\ s.on = Interface(target)

\* What holds of a socket with an owner, the names being ns.
Listens(s, ns) ==
  /\ full_host(s.target) \in DOMAIN ns
  /\ s.addr.family = "AF_INET"
  /\ s.addr.ip = ns[full_host(s.target)].ip
  /\ s.addr.port = PortOf(s.target)
  /\ Member(s, s.addr, s.target)

\* From the resolution on, the call's address is its target's, if it has one.
Placed ==
  call.at \in {"socket", "join", "attach", "return"} =>
    \/ call.sock = None /\ call.at = "socket"
    \/ /\ full_host(call.target) \in DOMAIN names
       /\ call.sock = Resolved(call.target, PortOf(call.target))

\* How far the call has brought its socket.
Progress ==
  Midway =>
    /\ sockets[Fd].target = call.target /\ sockets[Fd].output = call.output
    /\ call.at = "join" => sockets[Fd].group = "none"
    /\ call.at \in {"attach", "return"} => Member(sockets[Fd], call.sock, call.target)
    /\ call.at = "return" => call.sock.family = "AF_INET" /\ sockets[Fd].addr = call.sock

Listening ==
  /\ Accounted /\ Placed /\ Progress
  /\ \A fd \in DOMAIN sockets :
       sockets[fd].owner # "none" => Listens(sockets[fd], names)

\* What was announced stays.
LEMMA NamesStay ==
  ASSUME [Next]_vars
  PROVE  \A n \in DOMAIN names : n \in DOMAIN names' /\ names'[n] = names[n]
<1>1. CASE \E a \in Announced : Announce(a.name, a.host)
  BY <1>1 DEF Announce
<1>2. CASE names' = names
  BY <1>2
<1> QED
  BY <1>1, <1>2 DEF Next, Step, vars, setup_mcast, resolve_mcast, SocketFails, OpenSocket,
                    join_group, Attach, AttachFails, Built, Destroy

\* So where a socket listens stays true, and an address resolved stays so.
LEMMA StaysListening ==
  ASSUME [Next]_vars, NEW s, Listens(s, names)
  PROVE  Listens(s, names')
  BY NamesStay DEF Listens

LEMMA StaysPlaced ==
  ASSUME [Next]_vars, NEW target, full_host(target) \in DOMAIN names
  PROVE  /\ full_host(target) \in DOMAIN names'
         /\ \A port : Resolved(target, port)' = Resolved(target, port)
  BY NamesStay DEF Resolved, full_host, Host, HasPort

LEMMA ListeningInit == Init => Listening
<1> SUFFICES ASSUME Init PROVE Listening
  OBVIOUS
<1>1. call.at = "idle" /\ sockets = <<>>
  BY DEF Init, Idle
<1>2. DOMAIN <<>> = {}
  OBVIOUS
<1> QED
  BY <1>1, <1>2, AccountedInit DEF Listening, Placed, Progress, Midway

\* A step that leaves the sockets alone keeps it if the call's address is right.
LEMMA ListeningKept ==
  ASSUME Listening, [Next]_vars, sockets' = sockets, Placed', Midway' => call' = call
  PROVE  Listening'
<1>1. Accounted' /\ Typed
  BY AccountedStep DEF Listening, Accounted
<1>2. Progress'
  BY DEF Listening, Progress, Midway, Fd, Member, Interface
<1>3. \A fd \in DOMAIN sockets :
        sockets[fd].owner # "none" => Listens(sockets[fd], names')
  BY StaysListening DEF Listening
<1> QED
  BY <1>1, <1>2, <1>3 DEF Listening

\* A step that changes one socket keeps it if that one is right afterwards.
LEMMA ListeningChanged ==
  ASSUME Listening, [Next]_vars, NEW i \in DOMAIN sockets, Same(i), Placed', Progress',
         sockets'[i].owner # "none" => Listens(sockets'[i], names')
  PROVE  Listening'
<1>1. Accounted'
  BY AccountedStep DEF Listening
<1>2. \A fd \in DOMAIN sockets :
        sockets[fd].owner # "none" => Listens(sockets[fd], names')
  BY StaysListening DEF Listening
<1> QED
  BY <1>1, <1>2 DEF Listening, Same

LEMMA ListeningStep ==
  ASSUME Listening, [Next]_vars
  PROVE  Listening'
<1>1. Typed /\ Typed' /\ Unowned
  BY TypedStep DEF Listening, Accounted
<1>2. ASSUME NEW t \in Targets, NEW output \in BOOLEAN, setup_mcast(t, output)
      PROVE  Listening'
  <2>1. call'.at \in {"socket", "resolve"} /\ sockets' = sockets /\ ~Midway'
    BY <1>2 DEF setup_mcast, Midway
  <2>2. call'.sock = None
    BY <1>2 DEF setup_mcast
  <2>3. Placed'
    BY <2>1, <2>2 DEF Placed
  <2> QED
    BY <2>1, <2>3, ListeningKept
<1>3. CASE resolve_mcast
  <2>1. /\ full_host(call.target) \in DOMAIN names /\ names' = names /\ sockets' = sockets
        /\ call' = [call EXCEPT !.at = "socket",
                       !.sock = Resolved(call.target, PortOf(call.target))]
    BY <1>3 DEF resolve_mcast, Resolves, PortOf
  <2>2. /\ call'.at = "socket" /\ call'.target = call.target
        /\ call'.sock = Resolved(call.target, PortOf(call.target))
    BY <1>1, <2>1 DEF Typed
  <2>3. Placed' /\ ~Midway'
    BY <2>1, <2>2 DEF Placed, Midway, Resolved
  <2> QED
    BY <2>1, <2>3, ListeningKept
<1>4. CASE SocketFails
  <2>1. call'.at = "idle" /\ sockets' = sockets
    BY <1>4 DEF SocketFails, Idle
  <2> QED
    BY <2>1, ListeningKept DEF Placed, Midway
<1>5. CASE OpenSocket
  <2>1. call' = [call EXCEPT !.at = "join"] /\ call.at = "socket" /\ names' = names
    BY <1>5 DEF OpenSocket
  <2>2. /\ call'.at = "join" /\ call'.target = call.target
        /\ call'.sock = call.sock /\ call'.output = call.output
    BY <1>1, <2>1 DEF Typed
  <2>3. call.sock # None
    BY <1>5 DEF OpenSocket, None
  <2>4. Placed'
    BY <2>1, <2>2, <2>3 DEF Listening, Placed, Resolved
  <2>5. /\ DOMAIN sockets' = DOMAIN sockets \cup {Len(sockets) + 1}
        /\ Len(sockets') = Len(sockets) + 1
        /\ \A fd \in DOMAIN sockets : sockets'[fd] = sockets[fd]
        /\ sockets'[Len(sockets) + 1].owner = "none"
        /\ sockets'[Len(sockets) + 1].group = "none"
        /\ sockets'[Len(sockets) + 1].target = call.target
        /\ sockets'[Len(sockets) + 1].output = call.output
    BY <1>1, <1>5, SocketsAre DEF OpenSocket
  <2>6. Progress'
    BY <2>2, <2>5 DEF Progress, Fd, Midway
  <2>7. Accounted'
    BY AccountedStep DEF Listening
  <2> QED
    BY <2>1, <2>4, <2>5, <2>6, <2>7 DEF Listening
<1>6. CASE join_group
  <2>1. call' = [call EXCEPT !.at = "attach"] /\ call.at = "join" /\ names' = names
    BY <1>6 DEF join_group
  <2>2. /\ call'.at = "attach" /\ call'.target = call.target
        /\ call'.sock = call.sock /\ call'.output = call.output
    BY <1>1, <2>1 DEF Typed
  <2>3. /\ Same(Fd) /\ Midway /\ Fd \in DOMAIN sockets /\ sockets[Fd] \in Socket
        /\ Fd' = Fd
    BY <1>1, <1>6, JoinEffect, SocketsAre DEF Same, Fd
  <2>4. Placed'
    BY <2>1, <2>2 DEF Listening, Placed, Resolved
  <2>5. call.sock = Resolved(call.target, PortOf(call.target)) /\ call.sock.ip # "none"
    <3>1. /\ full_host(call.target) \in DOMAIN names
          /\ call.sock = Resolved(call.target, PortOf(call.target))
      BY <2>1 DEF Listening, Placed
    <3>2. names[full_host(call.target)] \in HostAddress
      BY <1>1, <3>1 DEF Typed, TypeOK
    <3>3. call.sock.ip = names[full_host(call.target)].ip
      BY <3>1 DEF Resolved
    <3>4. \A host \in HostAddress : host.ip # "none"
      BY DEF HostAddress
    <3> QED
      BY <3>1, <3>2, <3>3, <3>4
  <2>6. /\ sockets[Fd].group = "none"
        /\ sockets[Fd].target = call.target /\ sockets[Fd].output = call.output
    BY <2>1, <2>3 DEF Listening, Progress
  <2>7. /\ sockets'[Fd].target = call.target /\ sockets'[Fd].output = call.output
        /\ sockets'[Fd].owner = sockets[Fd].owner
        /\ Member(sockets'[Fd], call.sock, call.target)
    <3>1. CASE Joined
      BY <1>1, <1>6, <2>3, <2>5, <2>6, <3>1, JoinEffect DEF Socket, Member
    <3>2. CASE NotJoined
      BY <1>1, <1>6, <2>3, <2>6, <3>2, JoinEffect DEF Socket, Member
    <3>3. CASE SomethingElse
      BY <2>3, <2>6, <3>3 DEF SomethingElse, Member
    <3> QED
      BY <1>6, <3>1, <3>2, <3>3 DEF join_group
  <2>8. Progress'
    BY <2>2, <2>3, <2>7 DEF Progress, Midway, Member, Interface
  <2>9. sockets'[Fd].owner = "none"
    BY <1>1, <2>3, <2>7 DEF Unowned
  <2> QED
    BY <2>3, <2>4, <2>8, <2>9, ListeningChanged
<1>7. CASE Attach
  <2>1. /\ call' = [call EXCEPT !.at = "return"] /\ call.at = "attach" /\ names' = names
        /\ call.sock.family = "AF_INET"
    BY <1>7 DEF Attach
  <2>2. /\ call'.at = "return" /\ call'.target = call.target
        /\ call'.sock = call.sock /\ call'.output = call.output
    BY <1>1, <2>1 DEF Typed
  <2>3. /\ Same(Fd) /\ Midway /\ Fd \in DOMAIN sockets /\ sockets[Fd] \in Socket
        /\ Fd' = Fd /\ sockets'[Fd] = [sockets[Fd] EXCEPT !.addr = call.sock]
    BY <1>1, <1>7, AttachEffect, SocketsAre DEF Same, Fd
  <2>4. Placed'
    BY <2>1, <2>2 DEF Listening, Placed, Resolved
  <2>5. Progress'
    BY <2>1, <2>2, <2>3 DEF Listening, Progress, Midway, Member, Interface, Socket
  <2>6. sockets'[Fd].owner = "none"
    BY <1>1, <2>3 DEF Unowned, Socket
  <2> QED
    BY <2>3, <2>4, <2>5, <2>6, ListeningChanged
<1>8. CASE AttachFails
  <2>1. call'.at = "idle"
    BY <1>8 DEF AttachFails, Idle
  <2>2. Same(Fd) /\ Midway /\ Fd \in DOMAIN sockets /\ sockets'[Fd].owner = "none"
    BY <1>1, <1>8, AttachFailsEffect, SocketsAre DEF Socket, Unowned
  <2> QED
    BY <2>1, <2>2, ListeningChanged DEF Placed, Progress, Midway
<1>9. CASE Built
  <2>1. call'.at = "idle" /\ call.at = "return" /\ names' = names
    BY <1>9 DEF Built, Idle
  <2>2. /\ Same(Fd) /\ Midway /\ Fd \in DOMAIN sockets /\ sockets[Fd] \in Socket
        /\ sockets'[Fd] = [sockets[Fd] EXCEPT !.owner = "live"]
    BY <1>1, <1>9, BuiltEffect, SocketsAre
  <2>3. /\ sockets[Fd].target = call.target /\ sockets[Fd].output = call.output
        /\ Member(sockets[Fd], call.sock, call.target)
        /\ call.sock.family = "AF_INET" /\ sockets[Fd].addr = call.sock
    BY <2>1, <2>2 DEF Listening, Progress
  <2>4. /\ full_host(call.target) \in DOMAIN names
        /\ call.sock = Resolved(call.target, PortOf(call.target))
    BY <2>1 DEF Listening, Placed
  <2>5. Listens(sockets'[Fd], names')
    <3>1. /\ sockets'[Fd].target = call.target /\ sockets'[Fd].addr = call.sock
          /\ sockets'[Fd].output = call.output
          /\ sockets'[Fd].group = sockets[Fd].group /\ sockets'[Fd].on = sockets[Fd].on
          /\ sockets'[Fd].warned = sockets[Fd].warned
      BY <2>2, <2>3 DEF Socket
    <3>2. Member(sockets'[Fd], call.sock, call.target)
      BY <2>3, <3>1 DEF Member
    <3>3. /\ call.sock.ip = names[full_host(call.target)].ip
          /\ call.sock.port = PortOf(call.target)
      BY <2>4 DEF Resolved
    <3> QED
      BY <2>1, <2>3, <2>4, <3>1, <3>2, <3>3 DEF Listens
  <2> QED
    BY <2>1, <2>2, <2>5, ListeningChanged DEF Placed, Progress, Midway
<1>10. ASSUME NEW fd \in DOMAIN sockets, Destroy(fd)
       PROVE  Listening'
  <2>1. /\ Same(fd) /\ sockets[fd].owner = "live" /\ call' = call /\ names' = names
        /\ sockets'[fd] = [sockets[fd] EXCEPT !.owner = "destroyed"]
        /\ sockets[fd] \in Socket
    BY <1>1, <1>10, DestroyEffect, SocketsAre
  <2>2. Listens(sockets'[fd], names')
    BY <2>1 DEF Listening, Listens, Member, Socket
  <2>3. Placed'
    BY <2>1 DEF Listening, Placed, Resolved
  <2>4. Midway => Fd # fd
    BY <1>1, <2>1 DEF Unowned
  <2>5. Fd' = Fd /\ Midway' = Midway /\ (Midway => Fd \in DOMAIN sockets)
    BY <1>1, <2>1, SocketsAre DEF Same, Fd, Midway
  <2>6. Progress'
    BY <2>1, <2>4, <2>5 DEF Listening, Progress, Same, Member, Interface
  <2> QED
    BY <2>1, <2>2, <2>3, <2>6, ListeningChanged
<1>11. ASSUME NEW name, NEW host, Announce(name, host)
       PROVE  Listening'
  <2>1. call' = call /\ sockets' = sockets
    BY <1>11 DEF Announce
  <2>2. Placed'
    BY <2>1, StaysPlaced DEF Listening, Placed, Resolved
  <2> QED
    BY <2>1, <2>2, ListeningKept
<1>12. CASE UNCHANGED vars
  BY <1>12, ListeningKept DEF vars, Listening, Placed, Resolved
<1> QED
  BY <1>2, <1>3, <1>4, <1>5, <1>6, <1>7, <1>8, <1>9, <1>10, <1>11, <1>12 DEF Next, Step

LEMMA ListeningSuffices ==
  ASSUME Listening
  PROVE  ListensWhereAsked
<1> SUFFICES ASSUME NEW fd \in DOMAIN sockets, sockets[fd].owner # "none"
             PROVE  LET s == sockets[fd]
                        pieces == s.target.pieces
                        name == [host |-> IF Len(pieces) = 1 THEN pieces
                                          ELSE SubSeq(pieces, 1, Len(pieces) - 1),
                                 local |-> ~s.target.dotted]
                    IN  /\ s.addr.family = "AF_INET"
                        /\ s.addr.ip = names[name].ip
                        /\ s.addr.port = IF Len(pieces) = 1 THEN DEFAULT_RTP_PORT
                                         ELSE pieces[Len(pieces)]
                        /\ IF s.group = "none" THEN s.warned
                           ELSE /\ s.group = s.addr.ip
                                /\ s.on \in {s.target.iface, "default"}
                                /\ s.target.iface \in Interfaces => s.on = s.target.iface
  BY DEF ListensWhereAsked
<1>1. sockets[fd] \in Socket /\ Listens(sockets[fd], names)
  BY SocketsAre DEF Listening, Accounted
<1>2. sockets[fd].target \in Targets
  BY <1>1 DEF Socket
<1>3. Len(sockets[fd].target.pieces) \in Nat \ {0}
  BY <1>2, TargetsAssumption
<1>4. Len(sockets[fd].target.pieces) > 1 <=> Len(sockets[fd].target.pieces) # 1
  <2>1. \A n \in Nat \ {0} : n > 1 <=> n # 1
    OBVIOUS
  <2> QED
    BY <1>3, <2>1, Zenon
<1> QED
  BY <1>1, <1>4 DEF Listens, Member, Interface, full_host, Host, HasPort, PortOf, Port

\* A block that was built is attached, over IPv4, to the address and port its
\* target asks for, and is a member of the group there unless a failure was
\* reported, however the names were announced and whatever calls failed
\* (setup_mcast, resolve_mcast, and the join).
THEOREM ListensRight == Spec => []ListensWhereAsked
  BY ListeningInit, ListeningStep, ListeningSuffices, PTL DEF Spec
=============================================================================
