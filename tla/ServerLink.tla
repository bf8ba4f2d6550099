----------------------------- MODULE ServerLink -----------------------------
(***************************************************************************)
(* The coverer's one connection to the server: the Watch loop that keeps it *)
(* up (watchclient.go), the self-healing ClientConn (serverconn.go) and the *)
(* Report stream on it (reportclient.go).  The server's pod is replaced and *)
(* DNS follows later; a connection to the old pod refuses streams, or opens *)
(* one that delivers nothing until keepalive breaks it.  Delays are any     *)
(* time.                                                                    *)
(***************************************************************************)
EXTENDS Naturals

CONSTANTS
    Threshold,    \* watchRecreateThreshold
    MaxPods,      \* server pods, one after the other (bound)
    MaxFaults     \* failures of a connection to the running pod (bound)

ASSUME LinkAssumption ==
    Threshold \in Nat \ {0} /\ MaxPods \in Nat \ {0} /\ MaxFaults \in Nat

Pods == 1 .. MaxPods

VARIABLES
    pod,          \* the server that runs
    dns,          \* what the server's name resolves to
    conn,         \* what the ClientConn resolved when it was made
    faults,
    watch,        \* the Watch loop: "open" before the call, "opened" and nothing
                  \* received yet, "fed", "sleep"
    fails,        \* consecutive failures
    rstream       \* reportClient.stream: "none", "live", "dead" and nobody knows,
                  \* "broken": its next Send returns an error

linkvars == <<pod, dns, conn, faults, watch, fails, rstream>>
remote == <<pod, dns, faults>>

LinkInit ==
    /\ pod = 1 /\ dns = 1 /\ conn = 1
    /\ faults = 0
    /\ watch = "open" /\ fails = 0
    /\ rstream = "none"

-----------------------------------------------------------------------------
(***************************************************************************)
(* Outside.                                                                *)
(***************************************************************************)
PodReplaced ==
    /\ pod < MaxPods
    /\ pod' = pod + 1
    /\ rstream' = IF rstream = "live" THEN "dead" ELSE rstream
    /\ UNCHANGED <<dns, conn, faults, watch, fails>>

DnsFollows ==
    /\ dns # pod
    /\ dns' = pod
    /\ UNCHANGED <<pod, conn, faults, watch, fails, rstream>>

\* A connection to the running pod works, but for MaxFaults times.
Serves == conn = pod
Fault == faults' = IF Serves THEN faults + 1 ELSE faults
MayFail == Serves => faults < MaxFaults

KeepaliveBreaks ==      \* the ping of main.go is not answered
    /\ rstream = "dead"
    /\ rstream' = "broken"
    /\ UNCHANGED <<pod, dns, conn, faults, watch, fails>>

-----------------------------------------------------------------------------
(***************************************************************************)
(* runWatchClient.  The fails that count are those in a row: opens refused  *)
(* and opens that delivered nothing.  At the threshold, Recreate re-resolves *)
(* the name; closing the old connection breaks the Report stream with it.    *)
(***************************************************************************)
Recreate_SameAddress ==   \* mutant: dials the address it had resolved
    conn' = conn /\ rstream' = IF rstream = "none" THEN "none" ELSE "broken"

Recreate == conn' = dns /\ rstream' = IF rstream = "none" THEN "none" ELSE "broken"

Failed_OffByOne ==      \* mutant: one failure too many
    IF fails + 1 > Threshold
    THEN Recreate /\ fails' = 0
    ELSE fails' = fails + 1 /\ UNCHANGED <<conn, rstream>>

Failed ==
    IF fails + 1 >= Threshold
    THEN Recreate /\ fails' = 0
    ELSE fails' = fails + 1 /\ UNCHANGED <<conn, rstream>>

OpenFails ==
    /\ watch = "open" /\ MayFail /\ Fault
    /\ watch' = "sleep" /\ Failed
    /\ UNCHANGED <<pod, dns>>

Opens_ResetFails ==     \* mutant: takes an open stream for a healthy link
    /\ watch = "open"
    /\ watch' = "opened" /\ fails' = 0
    /\ UNCHANGED <<remote, conn, rstream>>

Opens ==
    /\ watch = "open"
    /\ watch' = "opened"
    /\ UNCHANGED <<remote, conn, fails, rstream>>

Receives ==             \* the first of what the server sends a new Watch
    /\ watch = "opened" /\ Serves
    /\ watch' = "fed" /\ fails' = 0
    /\ UNCHANGED <<remote, conn, rstream>>

Silent ==               \* Recv fails, with nothing received: half-open
    /\ watch = "opened" /\ MayFail /\ Fault
    /\ watch' = "sleep" /\ Failed
    /\ UNCHANGED <<pod, dns>>

Drops ==                \* Recv fails on a stream that worked
    /\ watch = "fed" /\ MayFail /\ Fault
    /\ watch' = "sleep"
    /\ rstream' = IF Serves /\ rstream = "live" THEN "broken" ELSE rstream
    /\ UNCHANGED <<pod, dns, conn, fails>>

Wakes ==
    /\ watch = "sleep"
    /\ watch' = "open"
    /\ UNCHANGED <<remote, conn, fails, rstream>>

-----------------------------------------------------------------------------
(***************************************************************************)
(* reportClient.Send: reopens the stream if there is none; a Send that fails *)
(* drops stream and report, and a dead stream swallows it.                  *)
(***************************************************************************)
Arrives ==
    /\ Serves /\ rstream \in {"none", "live"}
    /\ rstream' = "live"

Lost_KeepsStream ==     \* mutant: a Send that failed leaves the stream in place
    \/ rstream = "none" /\ ~Serves /\ rstream' \in {"none", "dead"}
    \/ rstream \in {"dead", "broken"} /\ rstream' = rstream

Lost ==
    \/ rstream = "none" /\ ~Serves /\ rstream' \in {"none", "dead"}
    \/ rstream = "dead" /\ rstream' = "dead"
    \/ rstream = "broken" /\ rstream' = "none"

-----------------------------------------------------------------------------
Reports == (Arrives \/ Lost) /\ UNCHANGED <<remote, conn, watch, fails>>

LinkStep ==
    \/ PodReplaced \/ DnsFollows \/ KeepaliveBreaks
    \/ OpenFails \/ Opens \/ Silent \/ Drops \/ Wakes

LinkNext == LinkStep \/ Receives \/ Reports

LinkSpec == LinkInit /\ [][LinkNext]_linkvars

(***************************************************************************)
(* The loop retries for ever, and keepalive breaks what is dead; DNS comes   *)
(* to name the running pod, which feeds a Watch.  Nothing makes a pod, or a  *)
(* connection to the running one, fail.                                     *)
(***************************************************************************)
WatchLoop == Opens \/ Wakes \/ (~Serves /\ (OpenFails \/ Silent \/ Drops))

LinkFairSpec ==
    LinkSpec /\ WF_linkvars(DnsFollows) /\ WF_linkvars(KeepaliveBreaks)
             /\ WF_linkvars(WatchLoop) /\ WF_linkvars(Receives)

-----------------------------------------------------------------------------
(***************************************************************************)
(* The types; fails stays below the threshold at which Recreate resets it,  *)
(* and a Report stream is only taken for good while it reaches the pod.     *)
(***************************************************************************)
LinkType ==
    /\ pod \in Pods /\ dns \in Pods /\ conn \in Pods
    /\ faults \in 0 .. MaxFaults
    /\ watch \in {"open", "opened", "fed", "sleep"}
    /\ fails \in 0 .. Threshold - 1
    /\ rstream \in {"none", "live", "dead", "broken"}
    /\ rstream = "live" => Serves

(***************************************************************************)
(* The total-restart wedge (serverconn.go:16-24): once pods stop being       *)
(* replaced and the connection stops failing, the Watch is fed by the pod    *)
(* that runs and stays so, whatever address the ClientConn had cached.      *)
(***************************************************************************)
LinkHeals == <>[](watch = "fed" /\ Serves)

(***************************************************************************)
(* And with it the Report stream, which reports nothing itself when it dies *)
(* (reportclient.go:64-68): if reports keep coming, they arrive in the end.  *)
(***************************************************************************)
ReportsHeal == WF_linkvars(Reports) => <>[](rstream = "live")
=============================================================================
