---- MODULE MCRelay ----
(***************************************************************************)
(* The two uses of the relay, in one run: sessions of enrolled browsers    *)
(* and the pairing of a new one.  They share no state; `part' says which   *)
(* of them a behaviour is about.                                           *)
(***************************************************************************)
EXTENDS RelaySession, RelayPairing

CONSTANTS d, e, p, q, n

VARIABLE part

RelayInit == part \in {"session", "pairing"} /\ SessionInit /\ PairingInit

InSession == part = "session" /\ SessionNext /\ UNCHANGED <<part, pairingVars>>
InPairing == part = "pairing" /\ PairingNext /\ UNCHANGED <<part, relayVars>>

RelayNext == InSession \/ InPairing
allVars == <<part, relayVars, pairingVars>>

RelaySpec == RelayInit /\ [][RelayNext]_allVars

\* SessionFairness, of the behaviours about sessions.
Of(A) == part = "session" /\ A /\ UNCHANGED <<part, pairingVars>>

RelayFairness ==
  /\ WF_allVars(Of(HostConnects)) /\ WF_allVars(Of(HostTimesOut)) /\ WF_allVars(Of(HostReads))
  /\ WF_allVars(Of(RelayHearsHost)) /\ WF_allVars(Of(DetectExternalRevokes))
  /\ \A i \in ConnId : WF_allVars(Of(RelayHearsClient(i)))
  /\ \A b \in Device : /\ SF_allVars(Of(Dial(b))) /\ WF_allVars(Of(ClientReads(b)))
                       /\ WF_allVars(Of(ClientTimesOut(b)))

RelayFairSpec == RelaySpec /\ RelayFairness
====
