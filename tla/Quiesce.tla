------------------------------ MODULE Quiesce ------------------------------
(***************************************************************************)
(* The quiesce protocol: the host asks, the agent stops the workload or    *)
(* relays the request, the SDK parks, the host takes its snapshot and      *)
(* resumes.  This composes the supervisor with quiesce_check of the SDK    *)
(* and with a host that follows the protocol, one quiesce at a time, each  *)
(* with a token of its own.                                                *)
(***************************************************************************)
EXTENDS Supervisor

CONSTANT Paths          \* the ways this host quiesces

\* A way to quiesce: the mode asked for, the ring its Resume rides, and whether
\* the host may give up waiting for the acknowledgement.
Path(mode, ring, timeout) == [mode |-> mode, ring |-> ring, timeout |-> timeout]
AllPaths == [mode : {"COOP", "FORCED"}, ring : {"C", "I"}, timeout : BOOLEAN]

ASSUME QuiesceAssumption ==
    /\ Tokens \subseteq Nat
    /\ Paths \subseteq AllPaths /\ Paths # {}

VARIABLES sdk,          \* the workload inside or outside park_until_resume
          host          \* the host's side of the protocol

qvars == <<vars, sdk, host>>

NotParked == [parked |-> FALSE, token |-> 0]

QInit ==
    /\ Init
    /\ sdk = NotParked
    /\ \E path \in Paths : host = [phase |-> "idle", token |-> 0, path |-> path]

-----------------------------------------------------------------------------
(***************************************************************************)
(* quiesce_check and park_until_resume.  The two loops take one record     *)
(* from ring I at a time; the acknowledgement is a critical event on ring  *)
(* W and a doorbell, so the host has it before the first poll in park.     *)
(***************************************************************************)
Parks ==
    /\ Runs(child) /\ ~sdk.parked
    /\ ringI # <<>> /\ Head(ringI).kind = "QuiesceReq"
    /\ ringI' = Tail(ringI)
    /\ sdk' = [parked |-> TRUE, token |-> Head(ringI).token]
    /\ ready' = ready \cup {Head(ringI).token}
    /\ UNCHANGED <<kernel, ringC, pushed, started, exited, agent, owed, host>>

Unparks ==
    /\ Runs(child) /\ sdk.parked
    /\ ringI # <<>> /\ Head(ringI) = Resume(sdk.token)
    /\ ringI' = Tail(ringI)
    /\ sdk' = NotParked
    /\ UNCHANGED <<kernel, ringC, pushed, emitted, agent, owed, host>>

\* A Resume nobody is parked for, and anything else while parked.
Ignores ==
    /\ Runs(child)
    /\ ringI # <<>>
    /\ IF sdk.parked THEN Head(ringI) # Resume(sdk.token) ELSE Head(ringI).kind = "Resume"
    /\ ringI' = Tail(ringI)
    /\ UNCHANGED <<kernel, ringC, pushed, emitted, agent, owed, sdk, host>>

Sdk == Parks \/ Unparks \/ Ignores

-----------------------------------------------------------------------------
(***************************************************************************)
(* The host, which acts while the vCPU is paused.                          *)
(***************************************************************************)
HostQuiesces(path) ==
    /\ host.phase = "idle"
    /\ \E t \in Tokens :
         /\ \A u \in Tokens : u < t <=> u <= host.token
         /\ PushCommand(Quiesce(t, path.mode))
         /\ host' = [phase |-> "waiting", token |-> t, path |-> path]
    /\ UNCHANGED sdk

HostSeesReady ==
    /\ host.phase = "waiting" /\ host.token \in ready
    /\ host' = [host EXCEPT !.phase = "ready"]
    /\ UNCHANGED <<vars, sdk>>

\* The wait is bounded by virtual time; the snapshot is then taken anyway.
HostTimesOut ==
    /\ host.phase = "waiting" /\ host.path.timeout
    /\ host' = [host EXCEPT !.phase = "gaveup"]
    /\ UNCHANGED <<vars, sdk>>

\* Channel::push_workload_ctrl or Channel::push_command.
HostResumes ==
    /\ host.phase \in {"ready", "gaveup"}
    /\ IF host.path.ring = "I"
       THEN /\ Len(ringI) < CapI
            /\ ringI' = Append(ringI, Resume(host.token))
            /\ UNCHANGED <<kernel, ringC, pushed, emitted, agent, owed>>
       ELSE PushCommand(Resume(host.token))
    /\ host' = [host EXCEPT !.phase = "idle"]
    /\ UNCHANGED sdk

\* A workload that has exited may be started again, between two quiesces.
HostRestarts ==
    /\ host.phase = "idle" /\ started = exited
    /\ PushCommand(StartWorkload)
    /\ UNCHANGED <<sdk, host>>

-----------------------------------------------------------------------------
\* A fresh workload begins outside quiesce_check.
SupervisorStep ==
    /\ Environment \/ Agent
    /\ sdk' = IF started' # started THEN NotParked ELSE sdk
    /\ UNCHANGED host

QNext ==
    \/ SupervisorStep
    \/ Sdk
    \/ \E path \in Paths : HostQuiesces(path)
    \/ HostSeesReady
    \/ HostTimesOut
    \/ HostResumes
    \/ HostRestarts

\* On top of the supervisor's: the workload calls quiesce_check at its natural
\* boundaries for ever, and a host that sees the answer goes on to resume.
QFairness ==
    /\ WF_qvars(SupervisorStep /\ Agent)
    /\ WF_qvars(SupervisorStep /\ ChildStops)
    /\ WF_qvars(Sdk)
    /\ WF_qvars(HostSeesReady)
    /\ WF_qvars(HostResumes)

QSpec == QInit /\ [][QNext]_qvars /\ QFairness

-----------------------------------------------------------------------------
\* While the host holds an acknowledgement, from the QuiesceReady that echoed
\* its token to the Resume it has not sent yet, no workload code runs outside
\* the park loop: the snapshot is what the host asked for.
SnapshotIsQuiesced ==
    host.phase = "ready" =>
        IF host.path.mode = "FORCED"
        THEN ~Runs(child)
        ELSE Runs(child) => sdk = [parked |-> TRUE, token |-> host.token]

\* A host that has resumed finds the workload running again (or gone), or has
\* gone on to the next quiesce.
Free == ~Alive(child) \/ (Runs(child) /\ ~sdk.parked)
ResumeSetsFree == host.phase = "idle" ~> (Free \/ host.phase # "idle")

-----------------------------------------------------------------------------
(***************************************************************************)
(* The inductive invariant behind SnapshotIsQuiesced.  Ring C is a queue   *)
(* and the host pushes nothing between its Quiesce and its Resume, so      *)
(* until the agent has taken the Quiesce nothing anywhere speaks of its    *)
(* token, and from then on ring C is empty: no start, no Resume and no     *)
(* other Quiesce can come between the acknowledgement and the snapshot.    *)
(***************************************************************************)
CommandC == {StartWorkload}
              \cup [kind : {"Quiesce"}, token : Nat, mode : {"COOP", "FORCED"}]
              \cup [kind : {"Resume"}, token : Nat]
ControlI == [kind : {"QuiesceReq", "Resume"}, token : Nat]

QTyped ==
    /\ host \in [phase : {"idle", "waiting", "ready", "gaveup"}, token : Nat, path : AllPaths]
    /\ sdk \in [parked : BOOLEAN, token : Nat]
    /\ ringC \in Seq(CommandC) /\ ringI \in Seq(ControlI)
    /\ forced_token \in Nat /\ ready \subseteq Nat

\* The host's token is the newest there is.
NewestToken ==
    /\ \A i \in DOMAIN ringC : ringC[i] # StartWorkload => ringC[i].token <= host.token
    /\ \A i \in DOMAIN ringI : ringI[i].token <= host.token
    /\ \A t \in ready : t <= host.token
    /\ forced_token <= host.token

NoResumeYet ==
    /\ \A i \in DOMAIN ringC : ringC[i] # Resume(host.token)
    /\ \A i \in DOMAIN ringI : ringI[i] # Resume(host.token)

NotRelayed == \A i \in DOMAIN ringI : ringI[i] # QuiesceReq(host.token)

\* The host's Quiesce waits in ring C, behind commands of earlier tokens.
Undelivered ==
    /\ ringC # <<>> /\ ringC[Len(ringC)] = Quiesce(host.token, host.path.mode)
    /\ \A i \in 1 .. Len(ringC) - 1 :
          ringC[i] # StartWorkload => ringC[i].token # host.token
    /\ host.token \notin ready /\ forced_token # host.token /\ NotRelayed

\* The agent has taken it.
Delivered ==
    /\ ringC = <<>>
    /\ IF host.path.mode = "FORCED"
       THEN NotRelayed /\ (host.token \in ready => ~Runs(child))
       ELSE /\ forced_token # host.token
            /\ host.token \in ready /\ Runs(child)
                 => sdk = [parked |-> TRUE, token |-> host.token]

QInv ==
    /\ SInv /\ QTyped /\ NewestToken
    /\ host.phase # "idle" => NoResumeYet /\ (Undelivered \/ Delivered)
    /\ host.phase = "ready" => host.token \in ready
=============================================================================
