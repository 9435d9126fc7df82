------------------------------- MODULE Replay -------------------------------
(***************************************************************************)
(* The host half of a detchannel as the recorder and the replayer see it:  *)
(* what Channel writes into guest memory while the vCPU is paused, what it *)
(* reports of it through ChannelWriteSink, and what a snapshot has to keep *)
(* of the state the host holds outside guest RAM.                          *)
(*                                                                         *)
(* Ring I, its two producers and its consumer are RingI's.  Added here are *)
(* ring W with the records of an inject point, the drain, the answer, and  *)
(* the twin: the channel that a replay of the trace rebuilds.  The twin's  *)
(* guest executes the same instructions, so it takes the guest's steps     *)
(* with the other; of the host's steps it only sees what the sink was      *)
(* told, through apply_sink_op.                                            *)
(***************************************************************************)
EXTENDS RingI, FaultPlan, FiniteSets

CONSTANTS Point,       \* the inject point's name, a sequence of letters
          Rules,       \* the fault plan of the record leg
          WCap,        \* records that fit in ring W
          MaxQueries,  \* bound: inject queries the workload makes
          MaxRestores  \* bound: restores of the snapshot

VARIABLES
  wring, wcons,  \* ring W: the records not drained, and the consumer index
  guest,         \* the workload's thread in inject_point
  host,          \* interns, pending_injects, unmatched_injects of the Channel
  plan,          \* the TableFaultPlan of this burst
  ans,           \* what the last inject answer was
  twin,          \* the channel the trace rebuilds, and its responder
  raced,         \* history: the host wrote to ring I while a relay was under way,
  botched,       \* and one of those writes was a push that failed
  usedSeq,       \* history: one more than the last seq the host used
  snap, restores \* the snapshot, and how often it was restored

wvars == <<wring, wcons, guest, host, plan, ans>>
svars == <<snap, restores>>
hvars == <<raced, botched, usedSeq>>
rvars == <<ivars, wvars, svars, hvars, twin>>

ASSUME ReplayAssumption == WCap \in Nat \ {0} /\ MaxQueries \in Nat

NameId == 1
FreshHost == [interns |-> {}, pending |-> {}, unmatched |-> 0]
FreshGuest == [pc |-> "run", iseq |-> 0, named |-> FALSE]
FreshPlan == NewTable(Rules)

RInit ==
    /\ Init
    /\ wring = <<>> /\ wcons = 0
    /\ guest = FreshGuest /\ host = FreshHost /\ plan = FreshPlan /\ ans = "none"
    /\ twin = [mem |-> mem, prod |-> 0, wcons |-> 0, log |-> NewLog(<<>>), answer |-> 0, value |-> 0]
    /\ raced = FALSE /\ botched = FALSE /\ usedSeq = 0
    /\ snap = <<>> /\ restores = 0

-----------------------------------------------------------------------------
(***************************************************************************)
(* replay.rs.  A push is put back from its bytes and the published index   *)
(* alone; an answer leaves channel memory as it is.                        *)
(***************************************************************************)

\* Mutant: the span of a push is taken to be contiguous.
ApplyCut(t, op) ==
    CASE op.kind = "RingPush" ->
           [t EXCEPT !.mem = WriteCut(@, wrapping_sub(op.new_prod, Len(op.bytes)), op.bytes),
                     !.prod = op.new_prod]
      [] op.kind = "ConsBump" -> [t EXCEPT !.wcons = op.new_cons]
      [] op.kind = "PioAnswer" -> t

apply_sink_op(t, op) ==
    CASE op.kind = "RingPush" ->
           [t EXCEPT !.mem = Write(@, wrapping_sub(op.new_prod, Len(op.bytes)), op.bytes),
                     !.prod = op.new_prod]
      [] op.kind = "ConsBump" -> [t EXCEPT !.wcons = op.new_cons]
      [] op.kind = "PioAnswer" -> t

ring_push(bytes, new_prod) == [kind |-> "RingPush", bytes |-> bytes, new_prod |-> new_prod]
cons_bump(new_cons) == [kind |-> "ConsBump", new_cons |-> new_cons]
pio_answer(value) == [kind |-> "PioAnswer", value |-> value]

-----------------------------------------------------------------------------
\* push_record: the pad and the record are one reported span.
HostPushes(rec) ==
    /\ HostPush(rec)
    /\ twin' = apply_sink_op(twin, ring_push(HostSpan(rec), prod'))
    /\ raced' = (raced \/ rpc # "idle")
    /\ usedSeq' = next_seq_i'
    /\ UNCHANGED <<wvars, svars, botched>>

\* push_record whose second write fails: the pad is in memory, nothing is
\* published or reported, and the local copy of the seq is dropped.
HostPushFails(rec) ==
    /\ HostWaits => rpc = "idle"
    /\ HasRoom /\ bytes_needed(prod, Len1) > Len1 /\ next_seq_i < MaxPushes
    /\ mem' = Write(mem, prod, SubSeq(HostSpan(rec), 1, contiguous_tail(prod)))
    /\ raced' = (raced \/ rpc # "idle") /\ botched' = (botched \/ rpc # "idle")
    /\ UNCHANGED <<prod, cons, next_seq_i, rpc, relay, queue, out>>
    /\ UNCHANGED <<wvars, svars, twin, usedSeq>>

\* The relay's three steps and the poll, in both channels.
GuestOnRingI ==
    /\ \/ \E rec \in Records : RelayLoad(rec) /\ UNCHANGED twin
       \/ RelayWrite /\ twin' = [twin EXCEPT !.mem = Write(@, relay.prod, RelaySpan)]
       \/ RelayPublish /\ twin' = [twin EXCEPT !.prod = prod']
       \/ Poll /\ UNCHANGED twin
    /\ UNCHANGED <<wvars, svars, hvars>>

-----------------------------------------------------------------------------
(***************************************************************************)
(* The SDK's inject_point: the name once, the query and its doorbell, then *)
(* the detcall.  Both records are critical: on a full ring the SDK rings   *)
(* the doorbell, which has the host drain, until there is room.            *)
(***************************************************************************)
Emit(ev) == Len(wring) < WCap /\ wring' = Append(wring, ev)

GuestNames ==
    /\ guest.pc = "run" /\ ~guest.named
    /\ Emit([kind |-> "NameIntern", name_id |-> NameId])
    /\ guest' = [guest EXCEPT !.named = TRUE]
    /\ UNCHANGED <<ivars, svars, wcons, host, plan, ans, twin, hvars>>

GuestAsks ==
    /\ guest.pc = "run" /\ guest.named /\ guest.iseq < MaxQueries
    /\ Emit([kind |-> "InjectQuery", iseq |-> guest.iseq + 1, name_id |-> NameId])
    /\ guest' = [guest EXCEPT !.pc = "published", !.iseq = @ + 1]
    /\ UNCHANGED <<ivars, svars, wcons, host, plan, ans, twin, hvars>>

\* drain_events: what it folds into the Channel, and the one consumer bump,
\* which is reported when there was something to consume.
NamesIn(evs) == {evs[i].name_id : i \in {j \in DOMAIN evs : evs[j].kind = "NameIntern"}}
QueriesIn(evs) == {[iseq |-> evs[i].iseq, name_id |-> evs[i].name_id] :
                     i \in {j \in DOMAIN evs : evs[j].kind = "InjectQuery"}}
Folded(h, evs) == [interns |-> h.interns \cup NamesIn(evs),
                   pending |-> h.pending \cup QueriesIn(evs),
                   unmatched |-> h.unmatched]
Bumps == wcons' = wcons + Len(wring) /\ wring' = <<>>
Bumped(t) == IF wring = <<>> THEN t ELSE apply_sink_op(t, cons_bump(wcons + Len(wring)))

\* At any pause, and for the doorbell of a full ring.
HostDrains ==
    /\ wring # <<>>
    /\ host' = Folded(host, wring)
    /\ Bumps /\ twin' = Bumped(twin)
    /\ UNCHANGED <<ivars, svars, guest, plan, ans, hvars>>

\* The doorbell behind the query.
GuestRings ==
    /\ guest.pc = "published" /\ guest' = [guest EXCEPT !.pc = "asked"]
    /\ host' = Folded(host, wring)
    /\ Bumps /\ twin' = Bumped(twin)
    /\ UNCHANGED <<ivars, svars, plan, ans, hvars>>

\* The INJECT exit: the handler drains ring W, then InjectResponder::answer takes
\* the query of this iseq, asks the plan and reports the packed decision.  The
\* replay's responder holds a LogFaultPlan over the decisions recorded.
HostAnswers ==
    LET h == Folded(host, wring)
        mine == {q \in h.pending : q.iseq = guest.iseq}
        name_id == (CHOOSE q \in mine : TRUE).name_id
        r == table_decide(Rules, plan, guest.iseq, IF name_id \in h.interns THEN Point ELSE NoName)
        t == Bumped(twin)
        entry == [iseq |-> guest.iseq, name_id |-> name_id, decision |-> r.out]
        l == log_decide([t.log EXCEPT !.log = Append(@, entry)], guest.iseq, name_id)
        value == IF mine = {} THEN pack(Proceed) ELSE pack(r.out)
    IN
    /\ guest.pc = "asked" /\ guest' = [guest EXCEPT !.pc = "run"]
    /\ Bumps
    /\ host' = [h EXCEPT !.pending = @ \ mine,
                         !.unmatched = IF mine = {} THEN @ + 1 ELSE @]
    /\ plan' = IF mine = {} THEN plan ELSE r.plan
    /\ ans' = IF mine = {} THEN "unmatched" ELSE IF name_id \in h.interns THEN "named" ELSE "nameless"
    /\ twin' = [apply_sink_op(t, pio_answer(value)) EXCEPT
                  !.log = IF mine = {} THEN @ ELSE l.plan,
                  !.answer = IF mine = {} THEN pack(Proceed) ELSE pack(l.out),
                  !.value = value]
    /\ UNCHANGED <<ivars, svars, hvars>>

-----------------------------------------------------------------------------
(***************************************************************************)
(* A snapshot is guest RAM and the exported host state; a restore attaches *)
(* a fresh Channel and puts the exported state back.  The metrics are not  *)
(* exported, and a burst has its own plan and its own trace.               *)
(***************************************************************************)
Ram == [mem |-> mem, prod |-> prod, cons |-> cons, rpc |-> rpc, relay |-> relay,
        queue |-> queue, out |-> out, wring |-> wring, wcons |-> wcons, guest |-> guest,
        ans |-> ans, raced |-> raced, botched |-> botched, usedSeq |-> usedSeq]

producer_seqs == next_seq_i
Exported == [interns |-> host.interns, pending |-> host.pending, seqs |-> producer_seqs]

Snapshot ==
    /\ snap = <<>>
    /\ snap' = <<[ram |-> Ram, saved |-> Exported]>>
    /\ UNCHANGED <<ivars, wvars, twin, hvars, restores>>

\* Mutant: the restore leaves out the pending queries.
ReattachForgetsQueries(saved) ==
    /\ next_seq_i' = saved.seqs
    /\ host' = [FreshHost EXCEPT !.interns = saved.interns]

\* Channel::attach, then restore_producer_seqs, restore_interns and
\* restore_pending_injects.
Reattach(saved) ==
    /\ next_seq_i' = saved.seqs
    /\ host' = [FreshHost EXCEPT !.interns = saved.interns, !.pending = saved.pending]

Restore ==
    /\ snap # <<>> /\ restores < MaxRestores
    /\ LET s == snap[1].ram IN
         /\ mem' = s.mem /\ prod' = s.prod /\ cons' = s.cons /\ rpc' = s.rpc /\ relay' = s.relay
         /\ queue' = s.queue /\ out' = s.out /\ wring' = s.wring /\ wcons' = s.wcons
         /\ guest' = s.guest /\ ans' = s.ans /\ raced' = s.raced
         /\ botched' = s.botched /\ usedSeq' = s.usedSeq
         /\ twin' = [mem |-> s.mem, prod |-> s.prod, wcons |-> s.wcons,
                     log |-> NewLog(<<>>), answer |-> 0, value |-> 0]
    /\ Reattach(snap[1].saved)
    /\ plan' = FreshPlan
    /\ restores' = restores + 1
    /\ UNCHANGED snap

RNext ==
    \/ \E rec \in Records : HostPushes(rec) \/ HostPushFails(rec)
    \/ GuestOnRingI
    \/ GuestNames
    \/ GuestAsks
    \/ GuestRings
    \/ HostDrains
    \/ HostAnswers
    \/ Snapshot
    \/ Restore

RSpec == RInit /\ [][RNext]_rvars

-----------------------------------------------------------------------------
\* The trace alone puts back everything the host did to the channel
\* (ChannelWriteSink, apply_trace): the rebuilt channel has the same indices,
\* the same words wherever a consumer may read, and its log plan gave the guest
\* the same answer without a divergence.  A push that fails half-way is not
\* reported and leaves bytes that no consumer reads, unless a relay is about to
\* publish them.
ReplayReproduces ==
    /\ twin.prod = prod /\ twin.wcons = wcons
    /\ ~botched => \A d \in 0 .. (used(prod, cons) - 1) :
         twin.mem[Offset(cons + d)] = mem[Offset(cons + d)]
    /\ twin.answer = twin.value /\ twin.log.divergences = <<>> /\ remaining(twin.log) = 0

\* A restored channel goes on where the snapshot was taken (producer_seqs,
\* interns, pending_injects and their restores): the host gives no seq out
\* twice on one timeline, and every inject query is answered as that query and
\* by its name, wherever drains, snapshots and restores fall between the
\* records and the detcall.
RestoreIsComplete ==
    /\ next_seq_i = usedSeq
    /\ guest.pc = "run" /\ guest.iseq > 0 => ans = "named"

\* The relay's "temporally exclusive" argument: while the host keeps off ring I
\* during a relay, every push of either producer stays in the ring until polled.
ExclusiveIsSafe == ~raced => NoPushLost

-----------------------------------------------------------------------------
(***************************************************************************)
(* The inductive invariant behind RestoreIsComplete: between them, the     *)
(* host's tables and ring W carry the name and the query the guest is in   *)
(* the middle of, in the channel and in the snapshot alike.                *)
(***************************************************************************)
WEvents == [kind : {"NameIntern"}, name_id : {NameId}]
             \cup [kind : {"InjectQuery"}, iseq : Nat, name_id : {NameId}]
Pending == [iseq : Nat, name_id : {NameId}]

Carries(interns, pending, evs, g, a) ==
    /\ interns \subseteq Nat /\ pending \subseteq Pending /\ evs \in Seq(WEvents)
    /\ g \in [pc : {"run", "published", "asked"}, iseq : Nat, named : BOOLEAN]
    /\ g.named => \/ NameId \in interns
                  \/ \E i \in DOMAIN evs : evs[i].kind = "NameIntern"
    /\ g.iseq > 0 => g.named
    /\ g.pc # "run" =>
         /\ g.iseq > 0
         /\ \/ \E q \in pending : q.iseq = g.iseq
            \/ \E i \in DOMAIN evs : evs[i].kind = "InjectQuery" /\ evs[i].iseq = g.iseq
    /\ g.pc = "run" /\ g.iseq > 0 => a = "named"

RInv ==
    /\ Carries(host.interns, host.pending, wring, guest, ans)
    /\ next_seq_i = usedSeq
    /\ snap # <<>> =>
         /\ Carries(snap[1].saved.interns, snap[1].saved.pending,
                    snap[1].ram.wring, snap[1].ram.guest, snap[1].ram.ans)
         /\ snap[1].saved.seqs = snap[1].ram.usedSeq

(***************************************************************************)
(* The inductive invariant behind ReplayReproduces.  Where a record can    *)
(* begin there is a record once a producer has come by, whichever of the   *)
(* two it was, so no poll runs past the producer index into the pad that a *)
(* failed push has left in the channel and not in its twin.                *)
(***************************************************************************)
Slot(o) == o % Len1 = 0
Pads(p) == bytes_needed(p, Len1) > Len1

Begins(m, o) == m[o].rec \in Records /\ m[o].at = 1
Filled(m, n) == \A o \in 0 .. (n - 1) : Slot(o) => Begins(m, o)

Heads(m) ==
    /\ DOMAIN m = 0 .. (Size - 1)
    /\ \A o \in DOMAIN m : Begins(m, o) => Slot(o) /\ o + Len1 <= Size

\* A position a producer can write at, with records all the way up to it.
Reached(m, p) == p \in Index /\ Slot(Offset(p)) /\ Filled(m, Offset(p))

Laid(m, p, c, pc, r) ==
    /\ Heads(m)
    /\ Reached(m, p)
    /\ c \in Index /\ Slot(Offset(c))
    /\ pc \in {"idle", "write", "publish"}
    /\ pc # "idle" => Reached(m, r.prod) /\ r.rec \in Records
    /\ pc = "publish" => Begins(m, IF Pads(r.prod) THEN 0 ELSE Offset(r.prod))

\* The pad of a failed push is in the channel alone.
Stray ==
    /\ Pads(prod) /\ used(prod, cons) <= Offset(prod)
    /\ rpc # "publish" /\ (rpc = "write" => relay.prod = prod)
    /\ \A o \in 0 .. (Offset(prod) - 1) : twin.mem[o] = mem[o]

Rebuilt ==
    /\ DOMAIN twin = {"mem", "prod", "wcons", "log", "answer", "value"}
    /\ twin.prod = prod /\ twin.wcons = wcons /\ wcons \in Nat
    /\ DOMAIN twin.mem = 0 .. (Size - 1)
    /\ ~botched => twin.mem = mem \/ Stray
    /\ twin.answer = twin.value

\* The log plan of the twin is at the end of what was recorded.
CaughtUp(l) ==
    /\ DOMAIN l = {"log", "cursor", "divergences"}
    /\ l.log \in Seq({l.log[i] : i \in DOMAIN l.log})
    /\ l.cursor = Len(l.log) /\ l.divergences = <<>>

TInv ==
    /\ Laid(mem, prod, cons, rpc, relay)
    /\ Rebuilt
    /\ CaughtUp(twin.log)
    /\ snap # <<>> =>
         /\ Laid(snap[1].ram.mem, snap[1].ram.prod, snap[1].ram.cons, snap[1].ram.rpc, snap[1].ram.relay)
         /\ snap[1].ram.wcons \in Nat
=============================================================================
