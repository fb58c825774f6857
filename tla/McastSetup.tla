----------------------------- MODULE McastSetup -----------------------------
(***************************************************************************)
(* setup_mcast (lib/multicast.c) and what calls it: the constructor of the *)
(* source block, which listens, and a sender, which connects.  A call      *)
(* resolves its target, opens a socket, sets its options and joins the     *)
(* group, then binds or connects it.  The destructor gives nothing back.   *)
(*                                                                         *)
(* A target is "name[:port][,iface]".  The text before the comma is a      *)
(* sequence of pieces, split at every ':', and dotted tells whether there  *)
(* is a '.' in the name; an interface is named wherever there is a comma.  *)
(* Calls come one at a time; the blocks they built live on.  An open       *)
(* socket is known by the number of its opening.  Every system call may    *)
(* fail, and some calls must: no socket without a family or beyond the     *)
(* limit, no bind or connect with too short an address.                    *)
(***************************************************************************)
EXTENDS Naturals, Sequences, FiniteSets

CONSTANTS
  Targets,        \* [pieces, dotted, iface]
  Ports,          \* port numbers, as written
  Interfaces,     \* names of the interfaces there are
  Announced,      \* what servers may announce: [name, host]
  Numeric,        \* the names that need no server, a function to hosts
  DEFAULT_RTP_PORT,
  MaxFds,         \* descriptors the process may have open
  MaxCalls        \* bound: calls that get as far as a socket

\* A text split at its ':' has a piece at least.
ASSUME TargetsAssumption ==
  \A t \in Targets : t.pieces \in Seq(STRING) \ {<<>>} /\ t.iface \in STRING

HostAddress == [family : STRING, multicast : BOOLEAN, ip : STRING \ {"none"}]

ASSUME HostsAssumption ==
  /\ Numeric \in [DOMAIN Numeric -> HostAddress]
  /\ \A a \in Announced : a.host \in HostAddress
  /\ DEFAULT_RTP_PORT \in STRING

ASSUME BoundsAssumption == MaxFds \in Nat /\ MaxCalls \in Nat

VARIABLES
  call,           \* the call being made: where it is, its target and purpose
  sockets,        \* every socket opened, in order
  names           \* the names the resolver knows, with their first address

vars == <<call, sockets, names>>

None == [family |-> "none", multicast |-> FALSE, ip |-> "none", port |-> "none"]

Idle == [at |-> "idle", target |-> [pieces |-> <<>>, dotted |-> FALSE, iface |-> ""],
         output |-> FALSE, sock |-> None]

Init ==
  /\ call = Idle
  /\ sockets = <<>>
  /\ names = Numeric

-----------------------------------------------------------------------------
\* The environment: a name is announced and stays.  A host is
\* [family, multicast, ip].
Announce(name, host) ==
  /\ name \notin DOMAIN names
  /\ names' = [n \in DOMAIN names \cup {name} |-> IF n = name THEN host ELSE names[n]]
  /\ UNCHANGED <<call, sockets>>

-----------------------------------------------------------------------------
\* An empty target (one that is but an interface is not empty) is not resolved,
\* and its result not looked at: the address stays all zeroes.
Empty(target) == target.pieces = <<"">> /\ target.iface = ""

setup_mcast(target, output) ==
  /\ call.at = "idle" /\ Len(sockets) < MaxCalls
  /\ call' = [at |-> IF Empty(target) THEN "socket" ELSE "resolve",
              target |-> target, output |-> output, sock |-> None]
  /\ UNCHANGED <<sockets, names>>

\* What is behind the last ':' is the port.
HasPort(target) == Len(target.pieces) > 1
Port(target) == target.pieces[Len(target.pieces)]
Host(target) ==
  IF HasPort(target) THEN SubSeq(target.pieces, 1, Len(target.pieces) - 1) ELSE target.pieces

full_host_Bare(target) == [host |-> Host(target), local |-> FALSE]  \* faulty: no zone is added

full_host(target) == [host |-> Host(target), local |-> ~target.dotted]

\* getaddrinfo knows the name and the port.
Resolves(target) ==
  /\ full_host(target) \in DOMAIN names
  /\ HasPort(target) => Port(target) \in Ports

Resolved(target, port) ==
  LET host == names[full_host(target)]
  IN  [family |-> host.family, multicast |-> host.multicast, ip |-> host.ip, port |-> port]

resolve_mcast_NoDefault ==              \* faulty: the default port is not inserted
  /\ call.at = "resolve" /\ Resolves(call.target)
  /\ call' = [call EXCEPT !.at = "socket",
                          !.sock = Resolved(call.target,
                            IF HasPort(call.target) THEN Port(call.target) ELSE "0")]
  /\ UNCHANGED <<sockets, names>>

\* Tried again and again until it succeeds; the first result is taken.
resolve_mcast ==
  /\ call.at = "resolve" /\ Resolves(call.target)
  /\ call' = [call EXCEPT !.at = "socket",
                          !.sock = Resolved(call.target,
                            IF HasPort(call.target) THEN Port(call.target)
                            ELSE DEFAULT_RTP_PORT)]
  /\ UNCHANGED <<sockets, names>>

Opened == {fd \in DOMAIN sockets : sockets[fd].open}
Fd == Len(sockets)              \* the descriptor of the call being made

\* Whatever the reason, -1 is returned, and the constructor throws.
SocketFails ==
  /\ call.at = "socket"
  /\ call' = Idle
  /\ UNCHANGED <<sockets, names>>

OpenSocket ==
  /\ call.at = "socket"
  /\ call.sock.family \in {"AF_INET", "AF_INET6"} /\ Cardinality(Opened) < MaxFds
  /\ sockets' = Append(sockets,
       [open |-> TRUE, owner |-> "none", target |-> call.target, output |-> call.output,
        addr |-> None, group |-> "none", on |-> "none", warned |-> FALSE])
  /\ call' = [call EXCEPT !.at = "join"]
  /\ UNCHANGED names

\* if_nametoindex is 0 for a name that is no interface's, as for no name: the
\* kernel chooses.
Interface(target) == IF target.iface \in Interfaces THEN target.iface ELSE "default"

Joined ==
  /\ call.sock.family = "AF_INET" /\ call.sock.multicast
  /\ sockets' = [sockets EXCEPT ![Fd].group = call.sock.ip,
                                ![Fd].on = Interface(call.target)]

NotJoined ==
  /\ sockets' = [sockets EXCEPT ![Fd].warned = TRUE]

\* IPV6_ADD_MEMBERSHIP is set at the level of IPv4, where it joins nothing,
\* whatever it returns.
SomethingElse ==
  /\ call.sock.family = "AF_INET6" /\ call.sock.multicast
  /\ UNCHANGED sockets

\* A failure is reported and goes no further.
join_group ==
  /\ call.at = "join"
  /\ Joined \/ NotJoined \/ SomethingElse
  /\ call' = [call EXCEPT !.at = "attach"]
  /\ UNCHANGED names

\* 16 bytes of address are enough for IPv4 alone.
Attach ==
  /\ call.at = "attach"
  /\ call.sock.family = "AF_INET"
  /\ sockets' = [sockets EXCEPT ![Fd].addr = call.sock]
  /\ call' = [call EXCEPT !.at = "return"]
  /\ UNCHANGED names

AttachFails_Leaks ==                    \* faulty: the descriptor is not closed
  /\ call.at = "attach"
  /\ call' = Idle
  /\ UNCHANGED <<sockets, names>>

AttachFails ==
  /\ call.at = "attach"
  /\ sockets' = [sockets EXCEPT ![Fd].open = FALSE, ![Fd].group = "none", ![Fd].on = "none"]
  /\ call' = Idle
  /\ UNCHANGED names

\* The constructor keeps the socket.  It asks for a timeout of the receive calls
\* and goes on whether it gets one or not: nothing here depends on it.
Built ==
  /\ call.at = "return"
  /\ sockets' = [sockets EXCEPT ![Fd].owner = "live"]
  /\ call' = Idle
  /\ UNCHANGED names

\* ~source_impl: the socket stays open and in its group.
Destroy(fd) ==
  /\ sockets[fd].owner = "live" /\ ~sockets[fd].output
  /\ sockets' = [sockets EXCEPT ![fd].owner = "destroyed"]
  /\ UNCHANGED <<call, names>>

Step ==
  \/ resolve_mcast \/ SocketFails \/ OpenSocket \/ join_group
  \/ Attach \/ AttachFails \/ Built

Next ==
  \/ \E t \in Targets, output \in BOOLEAN : setup_mcast(t, output)
  \/ Step
  \/ \E fd \in DOMAIN sockets : Destroy(fd)
  \/ \E a \in Announced : Announce(a.name, a.host)

Spec == Init /\ [][Next]_vars

\* The constructor's thread runs; resolve_mcast comes back from its sleep.
LiveSpec == Spec /\ WF_vars(Step)

-----------------------------------------------------------------------------
Address == [family : STRING, multicast : BOOLEAN, ip : STRING, port : STRING]

TypeOK ==
  /\ call.at \in {"idle", "resolve", "socket", "join", "attach", "return"}
  /\ call.at # "idle" => call.target \in Targets
  /\ call.output \in BOOLEAN
  /\ sockets \in Seq([open : BOOLEAN, owner : {"none", "live", "destroyed"},
                      target : Targets, output : BOOLEAN, addr : Address \cup {None},
                      group : STRING \cup {"none"}, on : STRING \cup {"none", "default"},
                      warned : BOOLEAN])
  /\ names \in [DOMAIN names -> HostAddress]

\* Every construction that succeeded holds one descriptor, also after its block
\* is gone, and one that failed holds none: between calls the open descriptors
\* are those, however calls failed (setup_mcast, ~source_impl), and there are
\* never more than the process may have.
DescriptorsAccounted ==
  /\ \A fd \in DOMAIN sockets :
       sockets[fd].open <=>
         \/ sockets[fd].owner # "none"
         \/ fd = Fd /\ call.at \in {"join", "attach", "return"}
  /\ Cardinality(Opened) <= MaxFds

\* A block that was built is attached, over IPv4, to the address its name
\* stands for and the port asked for, or else the default port of setup_mcast,
\* where the comment of resolve_mcast has "port field in result will be zero"
\* (multicast.c:177): the property contradicts that comment.  The block is a
\* member of that group on the interface asked for, or the kernel's choice if
\* there is no such interface; and of no group only if a failure was reported.
ListensWhereAsked ==
  \A fd \in DOMAIN sockets :
    LET s == sockets[fd]
        pieces == s.target.pieces
        name == [host |-> IF Len(pieces) = 1 THEN pieces
                          ELSE SubSeq(pieces, 1, Len(pieces) - 1),
                 local |-> ~s.target.dotted]
    IN  s.owner # "none" =>
          /\ s.addr.family = "AF_INET"
          /\ s.addr.ip = names[name].ip
          /\ s.addr.port = IF Len(pieces) = 1 THEN DEFAULT_RTP_PORT ELSE pieces[Len(pieces)]
          /\ IF s.group = "none" THEN s.warned
             ELSE /\ s.group = s.addr.ip
                  /\ s.on \in {s.target.iface, "default"}
                  /\ s.target.iface \in Interfaces => s.on = s.target.iface

\* A call ends, one way or the other, once its name is known: a name without a
\* dot by its name in the zone local, as the comment of resolve_mcast says.
CallEnds ==
  \A t \in Targets :
    LET host == IF Len(t.pieces) = 1 THEN t.pieces
                ELSE SubSeq(t.pieces, 1, Len(t.pieces) - 1)
        known == \/ t.pieces = <<"">> /\ t.iface = ""
                 \/ /\ [host |-> host, local |-> ~t.dotted] \in DOMAIN names
                    /\ Len(t.pieces) > 1 => t.pieces[Len(t.pieces)] \in Ports
    IN  (call.at # "idle" /\ call.target = t /\ known) ~> call.at = "idle"
=============================================================================
