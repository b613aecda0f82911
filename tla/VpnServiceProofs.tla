-------------------------- MODULE VpnServiceProofs --------------------------
(***************************************************************************)
(* Theorems about VpnService and PortForwarding: types, what the marker    *)
(* stands for with and without the port script beside it, and what is      *)
(* published.                                                              *)
(***************************************************************************)
EXTENDS PortForwarding, TLAPS

LEMMA InitType == Init => TypeOK
<1> SUFFICES ASSUME Init PROVE TypeOK OBVIOUS
<1>1. Flags BY DEF Init, Flags
<1> QED BY <1>1 DEF Init, TypeOK, Known, ScriptStates

LEMMA NextFlags == Flags /\ [Next]_vars => Flags'
<1> SUFFICES ASSUME Flags, [Next]_vars PROVE Flags' OBVIOUS
<1> USE DEF Flags
<1>1. CASE UNCHANGED vars BY <1>1 DEF vars
<1>2. CASE Apply \/ Allow \/ BringUp \/ Route BY <1>2 DEF Apply, Allow, BringUp, Route
<1>3. CASE Connected \/ Unanswered BY <1>3 DEF Connected, Unanswered
<1>4. CASE Recover \/ Sign BY <1>4 DEF Recover, Sign
<1>5. CASE Watch \/ Compare \/ Restart BY <1>5 DEF Watch, Compare, Restart
<1>6. CASE AnsweredLate \/ ApplyFails \/ BringUpFails \/ Killed
  BY <1>6 DEF AnsweredLate, ApplyFails, BringUpFails, Killed, Fault
<1>7. CASE Shake \/ HandshakeLost BY <1>7 DEF Shake, HandshakeLost, Fault
<1>8. ASSUME NEW c \in Configs, Save(c) PROVE Flags' BY <1>8 DEF Save
<1> QED BY <1>1, <1>2, <1>3, <1>4, <1>5, <1>6, <1>7, <1>8 DEF Next, Script

LEMMA NextType == TypeOK /\ [Next]_vars => TypeOK'
<1> SUFFICES ASSUME TypeOK, [Next]_vars PROVE TypeOK' OBVIOUS
<1>0. Flags' BY NextFlags DEF TypeOK
<1> USE <1>0 DEF TypeOK, Known, ScriptStates
<1>1. CASE UNCHANGED vars BY <1>1 DEF vars
<1>2. CASE Apply \/ Allow \/ BringUp \/ Route BY <1>2 DEF Apply, Allow, BringUp, Route
<1>3. CASE Connected \/ Unanswered BY <1>3 DEF Connected, Unanswered
<1>4. CASE Recover \/ Sign BY <1>4 DEF Recover, Sign
<1>5. CASE Watch \/ Compare \/ Restart BY <1>5 DEF Watch, Compare, Restart
<1>6. CASE AnsweredLate \/ ApplyFails \/ BringUpFails \/ Killed
  BY <1>6 DEF AnsweredLate, ApplyFails, BringUpFails, Killed, Fault
<1>7. CASE Shake \/ HandshakeLost BY <1>7 DEF Shake, HandshakeLost, Fault
<1>8. ASSUME NEW c \in Configs, Save(c) PROVE TypeOK' BY <1>8 DEF Save
<1> QED BY <1>1, <1>2, <1>3, <1>4, <1>5, <1>6, <1>7, <1>8 DEF Next, Script

\* Every variable keeps its type.
THEOREM TypesAreKept == Spec => []TypeOK
BY InitType, NextType, PTL DEF Spec

-----------------------------------------------------------------------------
(* The marker *)

OneTunnel == interface # NoConfig /\ interface = conf /\ firewall = conf

\* The marker alone says nothing of how far the script is.  What it stands for
\* is established before "sign", outlives the script until its finish has run,
\* and is only given up by the next run, which begins without the marker.
MarkerInv ==
  /\ pc \in {"allow", "up"} => conf # NoConfig
  /\ pc = "up" => firewall = conf
  /\ pc \in {"route", "wait", "recover", "sign", "watch", "compare"} => OneTunnel
  /\ vpnUp => pc \in {"sign", "watch", "compare", "ended"} /\ OneTunnel

LEMMA InitMarker == Init => MarkerInv
BY DEF Init, MarkerInv, OneTunnel

LEMMA NextMarker == MarkerInv /\ [Next]_vars => MarkerInv'
<1> SUFFICES ASSUME MarkerInv, [Next]_vars PROVE MarkerInv' OBVIOUS
<1> USE DEF MarkerInv, OneTunnel
<1>1. CASE UNCHANGED vars BY <1>1 DEF vars
<1>2. CASE Apply \/ Allow \/ BringUp \/ Route BY <1>2 DEF Apply, Allow, BringUp, Route
<1>3. CASE Connected \/ Unanswered BY <1>3 DEF Connected, Unanswered
<1>4. CASE Recover \/ Sign BY <1>4 DEF Recover, Sign
<1>5. CASE Watch \/ Compare \/ Restart BY <1>5 DEF Watch, Compare, Restart
<1>6. CASE AnsweredLate \/ ApplyFails \/ BringUpFails \/ Killed
  BY <1>6 DEF AnsweredLate, ApplyFails, BringUpFails, Killed, Fault
<1>7. CASE Shake \/ HandshakeLost BY <1>7 DEF Shake, HandshakeLost, Fault
<1>8. ASSUME NEW c \in Configs, Save(c) PROVE MarkerInv' BY <1>8 DEF Save
<1> QED BY <1>1, <1>2, <1>3, <1>4, <1>5, <1>6, <1>7, <1>8 DEF Next, Script

\* Whenever the marker exists, wg0, its configuration and the kill switch are of
\* one configuration (wireguard/run, wireguard/finish).
THEOREM MarkersStandForTunnels == Spec => []MarkerMeansTunnel
<1>1. MarkerInv => MarkerMeansTunnel BY DEF MarkerInv, MarkerMeansTunnel, OneTunnel
<1> QED BY <1>1, InitMarker, NextMarker, PTL DEF Spec

-----------------------------------------------------------------------------
(* With the port script *)

PortVars == <<vars, ports>>

\* A step of the composition is one of the WireGuard service, or changes at most
\* the number of faults.
LEMMA Composed ==
  ASSUME [PortNext]_PortVars
  PROVE  [Next]_vars \/ UNCHANGED <<file, conf, firewall, interface, shaken, vpnUp, pc,
                                    signature>>
  BY DEF PortNext, PortVars, VpnStep, PortScript, Gate, Top, MapUdp, MapTcp, TcpOffer,
         NoAnswer, Unmapped, AnswerLost, Publish, Tell, TellFails, Withdraw, PortKilled,
         Lapse, Fault, vars

\* The marker stands for one tunnel whatever the port script does beside it.
THEOREM MarkersStandBesidePorts == PortSpec => []MarkerMeansTunnel
<1>1. MarkerInv => MarkerMeansTunnel BY DEF MarkerInv, MarkerMeansTunnel, OneTunnel
<1>2. MarkerInv /\ [PortNext]_PortVars => MarkerInv'
  BY NextMarker, Composed DEF MarkerInv, OneTunnel
<1> QED BY <1>1, <1>2, InitMarker, PTL DEF PortSpec, PortInit, PortVars

\* Handshakes are of accepted configurations, so their gateways' ports are known.
ShakenIsUp == interface \in Known /\ (shaken => interface \in Configs)

WholeInv ==
  /\ ShakenIsUp /\ PortTypeOK
  /\ at = "tcp" => lease["udp"] \in {port, NoPort}
  /\ at = "publish" /\ lease["udp"] # NoPort /\ lease["tcp"] # NoPort =>
       lease["udp"] = port /\ lease["tcp"] = port

LEMMA NextShaken == TypeOK /\ ShakenIsUp /\ [Next]_vars => ShakenIsUp'
<1> SUFFICES ASSUME TypeOK, ShakenIsUp, [Next]_vars PROVE ShakenIsUp' OBVIOUS
<1> USE VpnAssumption DEF TypeOK, ShakenIsUp, Known
<1>1. CASE UNCHANGED vars BY <1>1 DEF vars
<1>2. CASE Apply \/ Allow \/ BringUp \/ Route BY <1>2 DEF Apply, Allow, BringUp, Route
<1>3. CASE Connected \/ Unanswered BY <1>3 DEF Connected, Unanswered
<1>4. CASE Recover \/ Sign BY <1>4 DEF Recover, Sign
<1>5. CASE Watch \/ Compare \/ Restart BY <1>5 DEF Watch, Compare, Restart
<1>6. CASE AnsweredLate \/ ApplyFails \/ BringUpFails \/ Killed
  BY <1>6 DEF AnsweredLate, ApplyFails, BringUpFails, Killed, Fault
<1>7. CASE Shake \/ HandshakeLost BY <1>7 DEF Shake, HandshakeLost, Fault
<1>8. ASSUME NEW c \in Configs, Save(c) PROVE ShakenIsUp' BY <1>8 DEF Save
<1> QED BY <1>1, <1>2, <1>3, <1>4, <1>5, <1>6, <1>7, <1>8 DEF Next, Script

\* Type correctness beside the port script.
LEMMA ComposedType ==
  ASSUME TypeOK, ShakenIsUp, [PortNext]_PortVars
  PROVE  TypeOK' /\ ShakenIsUp'
<1>1. CASE [Next]_vars BY <1>1, NextType, NextShaken
<1>2. CASE UNCHANGED <<file, conf, firewall, interface, shaken, vpnUp, pc, signature>>
  <2>1. faults' \in Nat
    BY DEF PortNext, PortVars, VpnStep, PortScript, Gate, Top, MapUdp, MapTcp, TcpOffer,
           NoAnswer, Unmapped, AnswerLost, Publish, Tell, TellFails, Withdraw, PortKilled,
           Lapse, Fault, vars, TypeOK, Next, Script, Apply, Allow, BringUp, Route,
           Connected, Unanswered, Recover, Sign, Watch, Compare, Restart, AnsweredLate,
           ApplyFails, BringUpFails, Killed, Shake, HandshakeLost, Save
  <2> QED BY <1>2, <2>1 DEF TypeOK, ShakenIsUp, Flags, Known
<1> QED BY <1>1, <1>2, Composed

LEMMA OfferedPorts ==
  ASSUME ShakenIsUp, PortTypeOK, shaken
  PROVE  Offered \subseteq Ports /\ Grants[interface] \subseteq Ports
  BY PortAssumption DEF ShakenIsUp, PortTypeOK, Offered

LEMMA NextWhole ==
  ASSUME TypeOK, WholeInv, [PortNext]_PortVars
  PROVE  WholeInv'
<1> USE DEF WholeInv
<1>1. ShakenIsUp' BY ComposedType
<1>2. CASE VpnStep
  BY <1>1, <1>2 DEF VpnStep, NoLease, PortTypeOK
<1>3. CASE MapUdp
  <2>1. PICK p \in Ports :
          /\ lease' = [lease EXCEPT !["udp"] = p] /\ port' = p
          /\ at' = IF p = port THEN "tcp" ELSE "top"
    BY <1>3, OfferedPorts DEF MapUdp, Mapped
  <2> QED BY <1>1, <1>3, <2>1 DEF MapUdp, PortTypeOK
<1>4. CASE MapTcp
  <2>1. PICK p \in Ports :
          /\ lease' = [lease EXCEPT !["tcp"] = p]
          /\ at' = IF p = port THEN "publish" ELSE "withdraw"
    BY <1>4 DEF MapTcp, TcpOffer, Mapped
  <2> QED BY <1>1, <1>4, <2>1 DEF MapTcp, PortTypeOK
<1>5. CASE Gate \/ Top \/ Publish \/ Tell \/ TellFails \/ Withdraw
  BY <1>1, <1>5 DEF Gate, Top, Publish, Tell, TellFails, Withdraw, PortTypeOK
<1>6. CASE NoAnswer \/ AnswerLost \/ PortKilled
  BY <1>1, <1>6, PortAssumption DEF NoAnswer, AnswerLost, Unmapped, PortKilled, PortTypeOK
<1>7. CASE Lapse
  BY <1>1, <1>7 DEF Lapse, NoLease, PortTypeOK
<1>8. CASE UNCHANGED PortVars
  BY <1>1, <1>8 DEF PortVars, ports, PortTypeOK
<1> QED BY <1>2, <1>3, <1>4, <1>5, <1>6, <1>7, <1>8 DEF PortNext, PortScript

\* What is newly published is mapped for both protocols unless a lease is gone.
LEMMA StepWhole ==
  ASSUME WholeInv, [PortNext]_PortVars, NEW p \in Ports,
         published' = p, published # p, lease["udp"] # NoPort, lease["tcp"] # NoPort
  PROVE  lease["udp"] = p /\ lease["tcp"] = p
<1>1. CASE Publish BY <1>1 DEF Publish, WholeInv
<1>2. CASE Top \/ Withdraw BY <1>2, PortAssumption DEF Top, Withdraw
<1>3. CASE \/ VpnStep \/ Gate \/ MapUdp \/ MapTcp \/ NoAnswer \/ AnswerLost \/ Tell
           \/ TellFails \/ PortKilled \/ Lapse \/ UNCHANGED PortVars
  BY <1>3 DEF VpnStep, Gate, MapUdp, MapTcp, NoAnswer, AnswerLost, Unmapped, Tell,
              TellFails, PortKilled, Lapse, PortVars, ports
<1> QED BY <1>1, <1>2, <1>3 DEF PortNext, PortScript

\* For any configurations, gateways and faults, a newly published port is mapped
\* for UDP and TCP alike, unless a lease is already gone.
THEOREM WholePortsArePublished == PortSpec => PublishedIsWhole
<1>1. PortInit => TypeOK /\ WholeInv
  <2> SUFFICES ASSUME PortInit PROVE WholeInv BY InitType DEF PortInit
  <2>1. ShakenIsUp BY DEF PortInit, Init, ShakenIsUp, Known
  <2>2. PortTypeOK BY PortAssumption DEF PortInit, NoLease, PortTypeOK
  <2> QED BY <2>1, <2>2 DEF PortInit, WholeInv
<1>2. TypeOK /\ WholeInv /\ [PortNext]_PortVars => TypeOK' /\ WholeInv'
  BY NextWhole, ComposedType DEF WholeInv
<1>3. TypeOK /\ WholeInv /\ [PortNext]_PortVars =>
        [\A p \in Ports :
           published' = p /\ published # p /\ lease["udp"] # NoPort /\ lease["tcp"] # NoPort
             => lease["udp"] = p /\ lease["tcp"] = p]_PortVars
  BY StepWhole
<1> QED BY <1>1, <1>2, <1>3, PTL DEF PortSpec, PublishedIsWhole, PortVars
=============================================================================
