-------------------------------- MODULE Gateway --------------------------------
(***************************************************************************)
(* Agent.run of ecpg/main.py: first Pairing, then, with the token, the     *)
(* CloudConnector; a crash or a stop takes both down, and the process      *)
(* starts again with what the spool has.                                   *)
(***************************************************************************)
EXTENDS Pairing, CloudConnector

CONSTANT MaxCrashes    \* bound: restarts other than the end of Agent.run

ASSUME GatewayAssumption == MaxCrashes \in Nat

VARIABLE crashes

gatewayVars == <<pairVars, connVars, crashes>>

TypeOK == PairingTypeOK /\ ConnectorTypeOK /\ crashes \in 0..MaxCrashes

Init == PairingInit /\ ConnectorInit /\ crashes = 0

Pairs == PairingStep /\ UNCHANGED <<connVars, crashes>>

\* The connector exists once there is a token, and carries it.
Connects ==
    /\ agent = "running"
    /\ ConnectorStep
    /\ UNCHANGED <<pairVars, crashes>>

Crash ==
    /\ crashes < MaxCrashes
    /\ crashes' = crashes + 1
    /\ PairingCrash /\ ConnectorCrash

Next == Pairs \/ Connects \/ Crash

Spec == Init /\ [][Next]_gatewayVars

\* run() connects again and again, the reader reads, handlers that are not stuck
\* end, and on a connection that lives the network and the cloud do their part.
ConnectorFairness ==
    LET Goes(A) == agent = "running" /\ A IN
    /\ WF_connVars(Goes(Connect)) /\ WF_connVars(Goes(ReaderEnds))
    /\ \A i \in Order : WF_connVars(Goes(OnOrder(i))) /\ WF_connVars(Goes(CloudSends(i)))
    /\ WF_connVars(Goes(HandlerEnds)) /\ WF_connVars(Goes(OnIntentResult))
    /\ WF_connVars(Goes(CloudReads))

FairSpec == Spec /\ PairingFairness /\ ConnectorFairness

-----------------------------------------------------------------------------
(* Properties of the whole.                                                *)

\* Once paired, every order of the cloud is handled and acknowledged, through
\* crashes and lost connections, unless a passthrough client holds the reader in
\* the handler of a config_sync for good.
EveryOrderAcked == Paired ~> acked = Order \/ []stuck
==============================================================================
