-------------------------- MODULE ServerLinkProofs --------------------------
(***************************************************************************)
(* What the self-healing link never does, for any threshold, any number of   *)
(* pods and of failures.                                                    *)
(***************************************************************************)
EXTENDS ServerLink, TLAPS

LEMMA ServerLinkInit == LinkInit => LinkType
BY LinkAssumption DEF LinkInit, LinkType, Pods, Serves

(***************************************************************************)
(* Recreate is the only step that gives the connection another address, and *)
(* it leaves no stream of the old one taken for live.                       *)
(***************************************************************************)
LEMMA RecreateType ==
    ASSUME LinkType, Failed, pod' = pod, dns' = dns
    PROVE  /\ conn' \in Pods
           /\ fails' \in 0 .. Threshold - 1
           /\ rstream' \in {"none", "live", "dead", "broken"}
           /\ rstream' = "live" => conn' = conn /\ rstream = "live"
<1>1. CASE fails + 1 >= Threshold
  BY <1>1, LinkAssumption DEF Failed, Recreate, LinkType
<1>2. CASE ~(fails + 1 >= Threshold)
  BY <1>2, LinkAssumption DEF Failed, LinkType
<1> QED BY <1>1, <1>2

LEMMA FaultType ==
    ASSUME LinkType, MayFail, Fault
    PROVE  faults' \in 0 .. MaxFaults
BY LinkAssumption DEF LinkType, MayFail, Fault

LEMMA LinkTypeStep == LinkType /\ [LinkNext]_linkvars => LinkType'
<1> SUFFICES ASSUME LinkType, [LinkNext]_linkvars PROVE LinkType'
  OBVIOUS
<1> USE LinkAssumption
<1>1. CASE PodReplaced
  BY <1>1 DEF PodReplaced, LinkType, Pods, Serves
<1>2. CASE DnsFollows
  BY <1>2 DEF DnsFollows, LinkType, Serves
<1>3. CASE KeepaliveBreaks
  BY <1>3 DEF KeepaliveBreaks, LinkType, Serves
<1>4. CASE OpenFails
  BY <1>4, RecreateType, FaultType DEF OpenFails, LinkType, Serves
<1>5. CASE Opens
  BY <1>5 DEF Opens, remote, LinkType, Serves
<1>6. CASE Silent
  BY <1>6, RecreateType, FaultType DEF Silent, LinkType, Serves
<1>7. CASE Drops
  BY <1>7, FaultType DEF Drops, LinkType, Serves
<1>8. CASE Wakes
  BY <1>8 DEF Wakes, remote, LinkType, Serves
<1>9. CASE Receives
  BY <1>9 DEF Receives, remote, LinkType, Serves
<1>10. CASE Reports
  BY <1>10 DEF Reports, Arrives, Lost, remote, LinkType, Serves
<1>11. CASE UNCHANGED linkvars
  BY <1>11 DEF linkvars, LinkType, Serves
<1> QED
  BY <1>1, <1>2, <1>3, <1>4, <1>5, <1>6, <1>7, <1>8, <1>9, <1>10, <1>11
     DEF LinkNext, LinkStep

-----------------------------------------------------------------------------
(***************************************************************************)
(* The types, the threshold that fails never reaches, and, with them, the    *)
(* Report stream: it is only taken for good while it reaches the pod that   *)
(* runs, whatever pods, DNS, keepalive and Recreate do to the connection.   *)
(***************************************************************************)
THEOREM LinkTyped == LinkSpec => []LinkType
BY ServerLinkInit, LinkTypeStep, PTL DEF LinkSpec
=============================================================================
