---------------------------- MODULE MCMcastSetup ----------------------------
(***************************************************************************)
(* Targets for McastSetup, one of every form the parsing tells apart.      *)
(***************************************************************************)
EXTENDS McastSetup

Target(pieces, dotted, iface) == [pieces |-> pieces, dotted |-> dotted, iface |-> iface]

MCTargets ==
  { Target(<<"">>, FALSE, ""),                     \* nothing
    Target(<<"">>, FALSE, "eth1"),                 \* ,eth1
    Target(<<"pcm">>, FALSE, ""),                  \* pcm
    Target(<<"pcm", "6004">>, FALSE, "eth1"),      \* pcm:6004,eth1
    Target(<<"pcm">>, FALSE, "gone"),              \* pcm,gone
    Target(<<"239.1.2.3", "6004">>, TRUE, ""),     \* 239.1.2.3:6004
    Target(<<"pcm", "rtp!">>, FALSE, ""),          \* pcm:rtp!
    Target(<<"ff02", "", "1">>, FALSE, "") }       \* ff02::1

Group == [family |-> "AF_INET", multicast |-> TRUE, ip |-> "239.1.2.3"]

Unicast == [family |-> "AF_INET", multicast |-> FALSE, ip |-> "10.0.0.1"]

Group6 == [family |-> "AF_INET6", multicast |-> TRUE, ip |-> "ff02::1"]

\* pcm.local is a group or a host, and pcm outside the zone another host.
MCAnnounced ==
  { [name |-> [host |-> <<"pcm">>, local |-> TRUE], host |-> h] : h \in {Group, Group6, Unicast} }
  \cup { [name |-> [host |-> <<"pcm">>, local |-> FALSE], host |-> Unicast] }

MCNumeric == [n \in {[host |-> <<"239.1.2.3">>, local |-> FALSE]} |-> Group]
=============================================================================
