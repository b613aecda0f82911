----------------------------- MODULE VpnService -----------------------------
(***************************************************************************)
(* The WireGuard service (services.d/wireguard/run and finish), the        *)
(* configuration file the setup server saves (pompey_setup.save_wg), the   *)
(* rendered configuration and the kill switch (apply-vpn-config), and the  *)
(* marker "vpn-up" that other services read.                               *)
(*                                                                         *)
(* s6 runs the script again whenever it ends, after its finish script; the *)
(* interface and the firewall outlive it.                                  *)
(***************************************************************************)
EXTENDS Naturals

CONSTANTS
  Configs,    \* accepted WireGuard configurations
  Reachable,  \* those whose server answers
  NoConfig,   \* nothing saved, rendered, installed or signed yet
  MaxFaults   \* bound: commands that fail, lost handshakes, killed scripts

ASSUME VpnAssumption ==
  /\ NoConfig \notin Configs /\ Reachable \subseteq Configs /\ MaxFaults \in Nat

VARIABLES
  file,       \* what POMPEY_WG_FILE holds
  conf,       \* the configuration POMPEY_WG_CONF was rendered from
  firewall,   \* the configuration whose endpoint the kill switch admits
  interface,  \* the configuration wg0 was brought up with
  shaken,     \* is the latest handshake of wg0 recent?
  vpnUp,      \* the marker
  pc,         \* where the script is
  signature,  \* the file it signed
  faults

vars == <<file, conf, firewall, interface, shaken, vpnUp, pc, signature, faults>>

ScriptStates == {"apply", "allow", "up", "route", "wait", "recover", "sign", "watch",
                 "compare", "ended"}
Known == Configs \cup {NoConfig}

Flags == shaken \in BOOLEAN /\ vpnUp \in BOOLEAN

TypeOK ==
  /\ Flags
  /\ file \in Known /\ conf \in Known /\ firewall \in Known /\ interface \in Known
  /\ signature \in Known
  /\ pc \in ScriptStates /\ faults \in Nat

Init ==
  /\ file = NoConfig /\ conf = NoConfig /\ firewall = NoConfig
  /\ interface = NoConfig /\ signature = NoConfig
  /\ shaken = FALSE /\ vpnUp = FALSE
  /\ pc = "apply" /\ faults = 0

Fault == faults < MaxFaults /\ faults' = faults + 1

-----------------------------------------------------------------------------
(* The setup server accepts and replaces the file at any time *)

Save(c) ==
  /\ file # c /\ file' = c
  /\ UNCHANGED <<conf, firewall, interface, shaken, vpnUp, pc, signature, faults>>

-----------------------------------------------------------------------------
(* The script *)

\* Nothing is done until a configuration has been saved.
Apply ==
  /\ pc = "apply" /\ file # NoConfig
  /\ conf' = file /\ pc' = "allow"
  /\ UNCHANGED <<file, firewall, interface, shaken, vpnUp, signature, faults>>

\* One nft batch: the new rules or the old ones.
Allow ==
  /\ pc = "allow" /\ pc' = "up" /\ firewall' = conf
  /\ UNCHANGED <<file, conf, interface, shaken, vpnUp, signature, faults>>

\* The old interface is taken down first.
BringUp ==
  /\ pc = "up"
  /\ pc' = "route" /\ interface' = conf /\ shaken' = FALSE
  /\ UNCHANGED <<file, conf, firewall, vpnUp, signature, faults>>

\* Routes and the filter again, now that the interface exists.
Route ==
  /\ pc = "route" /\ pc' = "wait" /\ firewall' = conf
  /\ UNCHANGED <<file, conf, interface, shaken, vpnUp, signature, faults>>

\* wait-for-vpn: a recent handshake...
Connected ==
  /\ pc = "wait" /\ shaken /\ pc' = "recover"
  /\ UNCHANGED <<file, conf, firewall, interface, shaken, vpnUp, signature, faults>>

\* ...or none within ninety seconds, from a server that does not answer...
Unanswered ==
  /\ pc = "wait" /\ ~shaken /\ interface \notin Reachable /\ pc' = "ended"
  /\ UNCHANGED <<file, conf, firewall, interface, shaken, vpnUp, signature, faults>>

\* ...or from one that does, too late.
AnsweredLate ==
  /\ Fault /\ pc = "wait" /\ ~shaken /\ pc' = "ended"
  /\ UNCHANGED <<file, conf, firewall, interface, shaken, vpnUp, signature>>

\* The downloader is recovered, which may take minutes; then the marker is set.
Recover ==
  /\ pc = "recover" /\ pc' = "sign" /\ vpnUp' = TRUE
  /\ UNCHANGED <<file, conf, firewall, interface, shaken, signature, faults>>

Sign ==
  /\ pc = "sign" /\ pc' = "watch" /\ signature' = file
  /\ UNCHANGED <<file, conf, firewall, interface, shaken, vpnUp, faults>>

Watch ==
  /\ pc = "watch"
  /\ pc' = IF shaken THEN "compare" ELSE "ended"
  /\ UNCHANGED <<file, conf, firewall, interface, shaken, vpnUp, signature, faults>>

Compare ==
  /\ pc = "compare"
  /\ pc' = IF file = signature THEN "watch" ELSE "ended"
  /\ UNCHANGED <<file, conf, firewall, interface, shaken, vpnUp, signature, faults>>

\* Fault: the script's end leaves the marker.
RestartMarked ==
  /\ pc = "ended" /\ pc' = "apply"
  /\ UNCHANGED <<file, conf, firewall, interface, shaken, vpnUp, signature, faults>>

\* The EXIT trap and the finish script; s6 starts the script again.
Restart ==
  /\ pc = "ended" /\ pc' = "apply" /\ vpnUp' = FALSE
  /\ UNCHANGED <<file, conf, firewall, interface, shaken, signature, faults>>

\* The endpoint does not resolve or the batch is refused: apply-vpn-config is
\* run again in two seconds.
ApplyFails ==
  /\ Fault /\ pc = "allow" /\ pc' = "apply"
  /\ UNCHANGED <<file, conf, firewall, interface, shaken, vpnUp, signature>>

\* wg-quick fails twice and removes what it made.
BringUpFails ==
  /\ Fault /\ pc = "up" /\ pc' = "ended"
  /\ interface' = NoConfig /\ shaken' = FALSE
  /\ UNCHANGED <<file, conf, firewall, vpnUp, signature>>

\* The script is killed, or a command of it fails (set -e).
Killed ==
  /\ Fault /\ pc # "ended" /\ pc' = "ended"
  /\ UNCHANGED <<file, conf, firewall, interface, shaken, vpnUp, signature>>

-----------------------------------------------------------------------------
(* The tunnel (external) *)

\* A handshake leaves through the kill switch, for the interface's own endpoint.
Shake ==
  /\ interface \in Reachable /\ interface = firewall /\ ~shaken
  /\ shaken' = TRUE
  /\ UNCHANGED <<file, conf, firewall, interface, vpnUp, pc, signature, faults>>

HandshakeLost ==
  /\ Fault /\ shaken /\ shaken' = FALSE
  /\ UNCHANGED <<file, conf, firewall, interface, vpnUp, pc, signature>>

-----------------------------------------------------------------------------
Script == Apply \/ Allow \/ BringUp \/ Route \/ Connected \/ Unanswered
          \/ Recover \/ Sign \/ Watch \/ Compare \/ Restart

Next ==
  \/ Script \/ AnsweredLate \/ ApplyFails \/ BringUpFails \/ Killed
  \/ Shake \/ HandshakeLost
  \/ \E c \in Configs : Save(c)

\* s6 keeps the script running, and a handshake that can be made is made.
Fairness == WF_vars(Script) /\ WF_vars(Shake)

Spec == Init /\ [][Next]_vars
FairSpec == Spec /\ Fairness

-----------------------------------------------------------------------------
(* Properties *)

\* The marker other services act on stands for one tunnel: the interface, the
\* rendered configuration and the kill switch are of the same configuration.
MarkerMeansTunnel ==
  vpnUp => interface # NoConfig /\ interface = conf /\ firewall = conf

\* pompey_setup: the WireGuard service "detects the saved file and applies it,
\* including after rotation", whenever it was saved.
SavedIsApplied == \A c \in Configs : <>[](file = c) => []<>(interface = c)
=============================================================================
