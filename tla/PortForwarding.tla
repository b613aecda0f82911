--------------------------- MODULE PortForwarding ---------------------------
(***************************************************************************)
(* The NAT-PMP service (services.d/natpmp/run, apply-qbit-port) beside the *)
(* WireGuard service whose tunnel and marker it depends on: it leases one  *)
(* port for UDP and TCP from the tunnel's gateway, writes it to            *)
(* "forwarded_port" and tells the download client to listen on it.         *)
(*                                                                         *)
(* A rotation or a lost handshake may come between any two of its steps.   *)
(***************************************************************************)
EXTENDS VpnService

CONSTANTS
  Ports, FirstPort, NoPort,
  Grants   \* the ports each configuration's gateway can give this client

ASSUME PortAssumption ==
  /\ FirstPort \in Ports /\ NoPort \notin Ports
  /\ Grants \in [Configs -> SUBSET Ports \ {{}}]

VARIABLES
  lease,      \* the ports mapped at the gateway of wg0, per protocol
  at, port,   \* where the script is, and the port it asks for
  published,  \* what forwarded_port holds
  listen      \* the port the download client listens on

ports == <<lease, at, port, published, listen>>

NoLease == [protocol \in {"udp", "tcp"} |-> NoPort]

PortTypeOK ==
  /\ lease \in [{"udp", "tcp"} -> Ports \cup {NoPort}]
  /\ at \in {"gate", "top", "udp", "tcp", "publish", "tell", "withdraw"}
  /\ port \in Ports /\ published \in Ports \cup {NoPort}
  /\ listen \in Ports \cup {NoPort}

PortInit ==
  /\ Init
  /\ lease = NoLease /\ at = "gate" /\ port = FirstPort
  /\ published = NoPort /\ listen = NoPort

-----------------------------------------------------------------------------
(* The script *)

\* It starts when the tunnel is up for the first time.
Gate ==
  /\ at = "gate" /\ vpnUp /\ at' = "top"
  /\ UNCHANGED <<vars, lease, port, published, listen>>

\* Without the marker the port is withdrawn; the script looks again later.
Top ==
  /\ at = "top"
  /\ IF vpnUp THEN at' = "udp" /\ UNCHANGED published
              ELSE published' = NoPort /\ UNCHANGED at
  /\ UNCHANGED <<vars, lease, port, listen>>

\* The gateway gives the port it is asked for, if it can, or one of its own.
Offered == IF port \in Grants[interface] THEN {port} ELSE Grants[interface]

Mapped(protocol, p) == lease' = [lease EXCEPT ![protocol] = p]

\* Fault: a port of the gateway's own is not asked for in the next round.
MapUdpStubborn ==
  /\ at = "udp" /\ shaken
  /\ \E p \in Offered :
       Mapped("udp", p) /\ at' = (IF p = port THEN "tcp" ELSE "top") /\ UNCHANGED port
  /\ UNCHANGED <<vars, published, listen>>

\* Another port than asked for is what the next round asks for.
MapUdp ==
  /\ at = "udp" /\ shaken
  /\ \E p \in Offered :
       /\ Mapped("udp", p) /\ port' = p
       /\ at' = IF p = port THEN "tcp" ELSE "top"
  /\ UNCHANGED <<vars, published, listen>>

\* What the gateway gives for TCP; the port itself may just be taken.
TcpOffer(p) ==
  /\ p \in Grants[interface] /\ Mapped("tcp", p)
  /\ IF p \in Offered THEN UNCHANGED faults ELSE Fault
  /\ UNCHANGED <<file, conf, firewall, interface, shaken, vpnUp, pc, signature>>

\* Only the same port for both protocols is published.
MapTcp ==
  /\ at = "tcp" /\ shaken
  /\ \E p \in Ports : TcpOffer(p) /\ at' = IF p = port THEN "publish" ELSE "withdraw"
  /\ UNCHANGED <<port, published, listen>>

\* No answer: none without a tunnel, or it is lost.
Unmapped ==
  /\ at \in {"udp", "tcp"} /\ at' = "withdraw"
  /\ UNCHANGED <<lease, port, published, listen>>

NoAnswer == ~shaken /\ Unmapped /\ UNCHANGED vars

AnswerLost ==
  /\ shaken /\ Unmapped /\ Fault
  /\ UNCHANGED <<file, conf, firewall, interface, shaken, vpnUp, pc, signature>>

Publish ==
  /\ at = "publish" /\ published' = port /\ at' = "tell"
  /\ UNCHANGED <<vars, lease, port, listen>>

\* apply-qbit-port: the client is told, or cannot be reached, which is ignored:
\* it is told again in the next round.
Tell ==
  /\ at = "tell" /\ listen' = published /\ at' = "top"
  /\ UNCHANGED <<vars, lease, port, published>>

TellFails ==
  /\ at = "tell" /\ at' = "top" /\ Fault
  /\ UNCHANGED <<file, conf, firewall, interface, shaken, vpnUp, pc, signature,
                 lease, port, published, listen>>

Withdraw ==
  /\ at = "withdraw" /\ published' = NoPort /\ at' = "top"
  /\ UNCHANGED <<vars, lease, port, listen>>

\* The script is killed: s6 starts it with the first port; the file stays.
PortKilled ==
  /\ at # "gate" /\ at' = "gate" /\ port' = FirstPort /\ Fault
  /\ UNCHANGED <<file, conf, firewall, interface, shaken, vpnUp, pc, signature,
                 lease, published, listen>>

-----------------------------------------------------------------------------
PortScript ==
  Gate \/ Top \/ MapUdp \/ MapTcp \/ NoAnswer \/ Publish \/ Tell \/ Withdraw

\* Another interface is another gateway: the leases stay behind.
VpnStep ==
  /\ Next
  /\ lease' = IF interface' = interface THEN lease ELSE NoLease
  /\ UNCHANGED <<at, port, published, listen>>

\* Leases that are not renewed lapse after a minute; a gateway may also forget.
Lapse ==
  /\ lease # NoLease /\ lease' = NoLease /\ Fault
  /\ UNCHANGED <<file, conf, firewall, interface, shaken, vpnUp, pc, signature, at,
                 port, published, listen>>

PortNext == VpnStep \/ PortScript \/ AnswerLost \/ TellFails \/ PortKilled \/ Lapse

PortFairness ==
  /\ WF_<<vars, ports>>(Script /\ VpnStep) /\ WF_<<vars, ports>>(Shake /\ VpnStep)
  /\ WF_<<vars, ports>>(PortScript)

PortSpec == PortInit /\ [][PortNext]_<<vars, ports>> /\ PortFairness

-----------------------------------------------------------------------------
(* Properties *)

\* With a working configuration saved for good, the client ends up listening on
\* a port that the gateway of the present tunnel maps for both protocols: after
\* rotations to gateways that give other ports, lost tunnels and answers, lapsed
\* leases, killed scripts and a client that could not be told.
PortComesBack ==
  \A c \in Reachable :
    <>[](file = c) =>
      <>[](/\ listen # NoPort /\ published = listen
           /\ \A protocol \in {"udp", "tcp"} : lease[protocol] = listen)

\* "Never publish a half-successful TCP/UDP lease": a port that is newly
\* published is mapped for both protocols, as long as the tunnel it was asked
\* through and its leases are still there.
PublishedIsWhole ==
  [][\A p \in Ports :
       published' = p /\ published # p /\ lease["udp"] # NoPort /\ lease["tcp"] # NoPort
         => lease["udp"] = p /\ lease["tcp"] = p]_<<vars, ports>>
=============================================================================
