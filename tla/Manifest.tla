------------------------------ MODULE Manifest ------------------------------
(***************************************************************************)
(* Region publication: the SDK's client of the agent's region socket, the  *)
(* agent's server and its ledger, the manifest it writes under the         *)
(* seqlock, and the host that reads the manifest with the vCPU paused at   *)
(* any instruction.                                                        *)
(*                                                                         *)
(* The manifest is written in the units of the code: one extent, one entry,*)
(* the header, the generation word.  A host read is one step, since the    *)
(* guest does not run during it.  The pages behind a region are any of     *)
(* PageMaps each time they are walked: what a page maps to is the kernel's.*)
(***************************************************************************)
EXTENDS Translate, RegionWire, FiniteSets

CONSTANTS Names, EmptyName, NoName, REGION_CAPACITY, MAX_CONNS,
          PageMaps, Gva, RegionLen,   \* a region's pages, and its range
          MaxGeneration,    \* bound on the generation word
          MaxPid,           \* bound: workloads started one after the other
          MaxLinks          \* bound: connections made

ASSUME ManifestAssumption ==
    /\ REGION_CAPACITY \in Nat \ {0} /\ MAX_CONNS \in Nat \ {0}
    /\ NoName \notin Names /\ Gva \in Nat /\ RegionLen \in Nat \ {0}
    /\ \A pages \in PageMaps : \A p \in DOMAIN pages : pages[p].pfn \in Nat

VARIABLES
  generation, region_count, extent_count, entries, extents,     \* the manifest
  records,      \* RegionIpc.records, the ledger
  conns,        \* RegionIpc.conns: the links accepted, in order
  si, closed,   \* where service is in conns, and what it will drop
  wpc, op, reverifying,     \* where the agent is
  pid,          \* the supervised workload, or 0
  alive,        \* whether that process is still there
  lastpid,      \* bound: the last process id used
  links,        \* every connection made, with what is queued in it
  client,       \* CLIENT: the cached connection of the workload, or 0
  pending,      \* the request the workload waits for a reply to
  handles,      \* the RegionHandles it holds
  swept         \* history: a sweep has ended since the workload was started

header == <<generation, region_count, extent_count>>
manifest == <<header, entries, extents>>
server == <<conns, si, closed>>
writing == <<wpc, op, reverifying>>
process == <<pid, alive, lastpid>>
sdk == <<client, pending, handles>>
vars == <<manifest, records, server, writing, process, links, sdk, swept>>

Slots == 0 .. (REGION_CAPACITY - 1)
Unused == [name |-> NoName, dead |-> FALSE, off |-> 0, n |-> 0]
NoRequest == [kind |-> "none"]
NoOp == [kind |-> "none"]

\* init_manifest
Init ==
    /\ generation = 0 /\ region_count = 0 /\ extent_count = 0
    /\ entries = [s \in Slots |-> Unused]
    /\ extents = [x \in 0 .. (EXTENT_CAPACITY - 1) |-> [gpa |-> 0, len |-> 0]]
    /\ records = <<>>
    /\ conns = <<>> /\ si = 0 /\ closed = {}
    /\ wpc = "idle" /\ op = NoOp /\ reverifying = 0
    /\ pid = 1 /\ alive = TRUE /\ lastpid = 1
    /\ links = <<>> /\ client = 0 /\ pending = NoRequest /\ handles = {}
    /\ swept = FALSE

-----------------------------------------------------------------------------
(***************************************************************************)
(* The workload: register_region and RegionHandle::unregister go through   *)
(* agent_client::call, which sends one request and waits for its reply.    *)
(***************************************************************************)
\* The SDK's end of a link is closed: what it has sent stays, what it was sent
\* is gone.
Hangs(ls, l) == [ls EXCEPT ![l].sdk = FALSE, ![l].out = <<>>]

\* A connection that is not there is made, which the backlog takes; one the
\* agent has dropped fails the send, and so does a name the codec refuses.
Call(req) ==
    /\ alive /\ pending = NoRequest
    /\ client = 0 => Len(links) < MaxLinks
    /\ LET fresh == [pid |-> pid, sdk |-> TRUE, agent |-> "backlog", in |-> <<>>, out |-> <<>>]
           ls == IF client = 0 THEN Append(links, fresh) ELSE links
           l == IF client = 0 THEN Len(ls) ELSE client
           datagram == encode_request(req)
           fails == "kind" \in DOMAIN datagram \/ ls[l].agent = "dropped"
       IN IF fails
          THEN client' = 0 /\ links' = Hangs(ls, l) /\ pending' = NoRequest
          ELSE /\ client' = l /\ pending' = req
               /\ links' = [ls EXCEPT ![l].in = Append(@, datagram)]
    /\ UNCHANGED <<manifest, records, server, writing, process, swept>>

Registration(n) ==
    [kind |-> "Register", dead |-> FALSE, name |-> n, name_id |-> 1, len |-> RegionLen,
     name_len |-> IF n = EmptyName THEN 0 ELSE 1]
Unregistration(id) == [kind |-> "Unregister", region_id |-> id]

SdkRegisters(n) ==
    /\ Call(Registration(n))
    /\ UNCHANGED handles

\* send_unregister: the handle is spent before the call is made.
SdkUnregisters(h) ==
    /\ Call(Unregistration(h.id))
    /\ handles' = handles \ {h}

\* The reply is read; an OK to a registration makes a handle.
SdkReceives ==
    /\ alive /\ pending # NoRequest /\ links[client].out # <<>>
    /\ LET reply == decode_reply(Head(links[client].out))
       IN handles' = IF pending.kind = "Register" /\ reply.status = "OK"
                     THEN handles \cup {[id |-> reply.region_id, name |-> pending.name]}
                     ELSE handles
    /\ links' = [links EXCEPT ![client].out = Tail(@)]
    /\ pending' = NoRequest
    /\ UNCHANGED <<manifest, records, server, writing, process, client, swept>>

\* Mutant: the connection is kept when the wait for a reply failed.
SdkFailsAndKeeps ==
    /\ alive /\ pending # NoRequest /\ links[client].out = <<>>
    /\ links[client].agent # "dropped" => Len(links) < MaxLinks
    /\ pending' = NoRequest
    /\ UNCHANGED <<manifest, records, server, writing, process, client, links, handles, swept>>

\* recv fails: a signal handler interrupted it, or the agent hung up.  The
\* cached connection is dropped with whatever may still arrive on it.
SdkFails ==
    /\ alive /\ pending # NoRequest /\ links[client].out = <<>>
    /\ links[client].agent # "dropped" => Len(links) < MaxLinks
    /\ links' = Hangs(links, client)
    /\ client' = 0 /\ pending' = NoRequest
    /\ UNCHANGED <<manifest, records, server, writing, process, handles, swept>>

\* The process dies at any moment, its ends of the links with it ...
WorkloadDies ==
    /\ alive
    /\ alive' = FALSE
    /\ links' = [l \in DOMAIN links |-> [links[l] EXCEPT !.sdk = FALSE, !.out = <<>>]]
    /\ client' = 0 /\ pending' = NoRequest /\ handles' = {}
    /\ UNCHANGED <<manifest, records, server, writing, pid, lastpid, swept>>

\* ... and the agent, which has one thread, reaps and starts between two of its
\* operations.
AgentFree == wpc = "idle" /\ reverifying = 0 /\ si = 0

WorkloadReaped ==
    /\ AgentFree /\ pid # 0 /\ ~alive
    /\ pid' = 0
    /\ UNCHANGED <<manifest, records, server, writing, alive, lastpid, links, sdk, swept>>

WorkloadStarts ==
    /\ AgentFree /\ pid = 0 /\ lastpid < MaxPid
    /\ pid' = lastpid + 1 /\ lastpid' = lastpid + 1 /\ alive' = TRUE
    /\ swept' = FALSE
    /\ UNCHANGED <<manifest, records, server, writing, links, sdk>>

-----------------------------------------------------------------------------
(***************************************************************************)
(* RegionIpc::service.                                                     *)
(***************************************************************************)
Ready(l) == links[l].in # <<>> \/ ~links[l].sdk

\* The elements of s that are in S, in their order.
Keep(s, S) ==
    LET kept[i \in 0 .. Len(s)] ==
          IF i = 0 THEN <<>>
          ELSE IF s[i] \in S THEN Append(kept[i - 1], s[i]) ELSE kept[i - 1]
    IN  kept[Len(s)]

Backlog == Keep([l \in 1 .. Len(links) |-> l], {l \in DOMAIN links : links[l].agent = "backlog"})

\* accept_pending takes the whole backlog, and drops what is over MAX_CONNS;
\* what is about to be closed still counts.
Service ==
    /\ AgentFree
    /\ Backlog # <<>> \/ \E i \in DOMAIN conns : Ready(conns[i])
    /\ LET room == MAX_CONNS - Len(conns)
           taken == SubSeq(Backlog, 1, Min({room, Len(Backlog)}))
       IN /\ conns' = conns \o taken
          /\ links' = [l \in DOMAIN links |->
                         IF links[l].agent # "backlog" THEN links[l]
                         ELSE [links[l] EXCEPT !.agent = IF l \in Range(taken) THEN "open"
                                                         ELSE "dropped"]]
    /\ si' = 1 /\ closed' = {}
    /\ UNCHANGED <<manifest, records, writing, process, sdk, swept>>

Here == conns[si]

\* A connection with nothing to read is left; one at its end is to be closed.
ServiceNext ==
    /\ wpc = "idle" /\ si \in DOMAIN conns /\ links[Here].in = <<>>
    /\ closed' = IF links[Here].sdk THEN closed ELSE closed \cup {si}
    /\ si' = si + 1
    /\ UNCHANGED <<manifest, records, conns, writing, process, links, sdk, swept>>

ServiceDone ==
    /\ si > Len(conns)
    /\ links' = [l \in DOMAIN links |->
                   IF \E i \in closed : conns[i] = l THEN [links[l] EXCEPT !.agent = "dropped"]
                   ELSE links[l]]
    /\ conns' = Keep(conns, DOMAIN links \ {conns[i] : i \in closed})
    /\ si' = 0 /\ closed' = {}
    /\ UNCHANGED <<manifest, records, writing, process, sdk, swept>>

\* The datagram is answered; a reply that cannot be sent closes the connection.
Answers(status, id) ==
    LET reply == encode_reply([status |-> status, region_id |-> id])
    IN  IF links[Here].sdk
        THEN /\ links' = [links EXCEPT ![Here].in = Tail(@), ![Here].out = Append(@, reply)]
             /\ UNCHANGED <<si, closed>>
        ELSE /\ links' = [links EXCEPT ![Here].in = Tail(@)]
             /\ closed' = closed \cup {si} /\ si' = si + 1

-----------------------------------------------------------------------------
(***************************************************************************)
(* RegionIpc::handle.                                                      *)
(***************************************************************************)
\* real_translator: a process that is gone has no pages to walk.
translate(owner, pages) ==
    IF owner = pid /\ alive THEN build_extents(pages, Gva, RegionLen) ELSE Err("Io")

LiveRecord(id) == id + 1 \in DOMAIN records /\ ~records[id + 1].dead

\* The status a request is answered with: the checks of handle and write_region
\* in their order.
handle(req, peer, walk) ==
    CASE req.kind = "Err" -> "BAD_REQUEST"
      [] req.kind # "Err" /\ peer # pid -> "UNKNOWN_PID"
      [] req.kind = "Unregister" /\ peer = pid ->
           IF LiveRecord(req.region_id) THEN "OK" ELSE "UNKNOWN_REGION"
      [] req.kind = "Register" /\ peer = pid ->
           IF ~walk.ok THEN build_error_status(walk.e)
           ELSE IF region_count >= REGION_CAPACITY THEN "MANIFEST_FULL"
           ELSE IF extent_count + Len(walk.v) > EXTENT_CAPACITY THEN "TOO_MANY_EXTENTS"
           ELSE "OK"

WriteRegion(req, walk) ==
    [kind |-> "register", id |-> region_count, exts |-> walk, off |-> extent_count,
     bump |-> TRUE, w |-> 0,
     entry |-> [name |-> req.name, dead |-> FALSE, off |-> extent_count, n |-> Len(walk)]]

\* mark_region_dead
Dead(id) ==
    [kind |-> "dead", id |-> id, exts |-> <<>>, off |-> 0, bump |-> FALSE, w |-> 0,
     entry |-> [entries[id] EXCEPT !.dead = TRUE]]

ServiceRecv(pages) ==
    /\ wpc = "idle" /\ si \in DOMAIN conns /\ links[Here].in # <<>>
    /\ LET req == decode_request(Head(links[Here].in))
           walk == translate(links[Here].pid, pages)
           status == handle(req, links[Here].pid, walk)
       IN \/ /\ status # "OK"
             /\ Answers(status, 0)
             /\ UNCHANGED writing
          \/ /\ status = "OK" /\ generation + 2 <= MaxGeneration
             /\ op' = IF req.kind = "Register" THEN WriteRegion(req, walk.v)
                      ELSE Dead(req.region_id)
             /\ wpc' = "begin"
             /\ UNCHANGED <<links, si, closed, reverifying>>
    /\ UNCHANGED <<manifest, records, conns, process, sdk, swept>>

-----------------------------------------------------------------------------
(***************************************************************************)
(* RegionIpc::reverify takes the live records one after the other.         *)
(***************************************************************************)
ReverifyRegions ==
    /\ AgentFree
    /\ reverifying' = 1
    /\ UNCHANGED <<manifest, records, server, wpc, op, process, links, sdk, swept>>

\* Mutant: a list that has grown is written over the old one's place.
RewriteInPlace(id, walk) ==
    [kind |-> "rewrite", id |-> id, exts |-> walk, off |-> entries[id].off, bump |-> FALSE, w |-> 0,
     entry |-> [entries[id] EXCEPT !.n = Len(walk)]]

\* rewrite_extents: in place, or at the end of the pool when the list has grown.
Rewrite(id, walk) ==
    LET grows == Len(walk) > entries[id].n
        off == IF grows THEN extent_count ELSE entries[id].off
    IN [kind |-> "rewrite", id |-> id, exts |-> walk, off |-> off, bump |-> grows, w |-> 0,
        entry |-> [entries[id] EXCEPT !.off = off, !.n = Len(walk)]]

RewriteFits(id, walk) ==
    Len(walk) <= entries[id].n \/ extent_count + Len(walk) <= EXTENT_CAPACITY

\* Mutant: a region that no longer translates is left as it is.
SweepSpares(id, walk) ==
    walk.ok /\ walk.v # records[id + 1].exts

\* Whether the sweep has to write: the walk failed, or it found other pages.
Drifted(id, walk) ==
    ~walk.ok \/ walk.v # records[id + 1].exts

ReverifyNext(pages) ==
    /\ wpc = "idle" /\ reverifying \in DOMAIN records
    /\ LET id == reverifying - 1
           walk == translate(records[reverifying].pid, pages)
       IN IF records[reverifying].dead \/ ~Drifted(id, walk)
          THEN reverifying' = reverifying + 1 /\ UNCHANGED <<wpc, op>>
          ELSE /\ generation + 2 <= MaxGeneration
               /\ op' = IF walk.ok /\ RewriteFits(id, walk.v) THEN Rewrite(id, walk.v)
                        ELSE Dead(id)
               /\ wpc' = "begin"
               /\ UNCHANGED reverifying
    /\ UNCHANGED <<manifest, records, server, process, links, sdk, swept>>

\* The batch of RegionUpdates is emitted, and one doorbell closes it.
ReverifyDone ==
    /\ wpc = "idle" /\ reverifying > Len(records)
    /\ reverifying' = 0 /\ swept' = TRUE
    /\ UNCHANGED <<manifest, records, server, wpc, op, process, links, sdk>>

-----------------------------------------------------------------------------
(***************************************************************************)
(* A manifest write: writer_begin, the extents, the entry, the header,     *)
(* writer_end, and what follows it.                                        *)
(***************************************************************************)
Begin ==
    /\ wpc = "begin"
    /\ generation' = generation + 1
    /\ wpc' = "extents"
    /\ UNCHANGED <<region_count, extent_count, entries, extents, op, reverifying>>

WriteExtent ==
    /\ wpc = "extents" /\ op.w < Len(op.exts)
    /\ extents' = [extents EXCEPT ![op.off + op.w] = op.exts[op.w + 1]]
    /\ op' = [op EXCEPT !.w = @ + 1]
    /\ UNCHANGED <<header, entries, wpc, reverifying>>

WriteEntry ==
    /\ wpc = "extents" /\ op.w = Len(op.exts)
    /\ entries' = [entries EXCEPT ![op.id] = op.entry]
    /\ wpc' = IF op.bump THEN "header" ELSE "end"
    /\ UNCHANGED <<header, extents, op, reverifying>>

\* Mutant: the header copy that is written back holds the generation from
\* before writer_begin.
WriteHeaderStale ==
    /\ wpc = "header"
    /\ generation' = generation - 1
    /\ region_count' = region_count + IF op.kind = "register" THEN 1 ELSE 0
    /\ extent_count' = extent_count + Len(op.exts)
    /\ wpc' = "end"
    /\ UNCHANGED <<entries, extents, op, reverifying>>

\* The header copy carries the odd generation, so writing it back changes only
\* the two counts.
WriteHeader ==
    /\ wpc = "header"
    /\ region_count' = region_count + IF op.kind = "register" THEN 1 ELSE 0
    /\ extent_count' = extent_count + Len(op.exts)
    /\ wpc' = "end"
    /\ UNCHANGED <<generation, entries, extents, op, reverifying>>

End ==
    /\ wpc = "end"
    /\ generation' = generation + 1
    /\ wpc' = "after"
    /\ UNCHANGED <<region_count, extent_count, entries, extents, op, reverifying>>

Write ==
    /\ Begin \/ WriteExtent \/ WriteEntry \/ WriteHeader \/ End
    /\ UNCHANGED <<records, server, process, links, sdk, swept>>

\* Mutant: an unregistered region stays live in the ledger.
LedgerForgetsDead(owner) ==
    CASE op.kind = "register" ->
           Append(records, [pid |-> owner, name |-> op.entry.name, exts |-> op.exts,
                            dead |-> FALSE, lost |-> FALSE])
      [] op.kind = "rewrite" -> [records EXCEPT ![op.id + 1].exts = op.exts]
      [] op.kind = "dead" -> records

\* lost is history: the sweep marked the region dead, not its owner.
Ledger(owner) ==
    CASE op.kind = "register" ->
           Append(records, [pid |-> owner, name |-> op.entry.name, exts |-> op.exts,
                            dead |-> FALSE, lost |-> FALSE])
      [] op.kind = "rewrite" -> [records EXCEPT ![op.id + 1].exts = op.exts]
      [] op.kind = "dead" -> [records EXCEPT ![op.id + 1].dead = TRUE,
                                             ![op.id + 1].lost = reverifying # 0]

\* The events (critical, on ring A), the ledger and the reply, or the next
\* region of the sweep.
After ==
    /\ wpc = "after"
    /\ IF reverifying = 0
       THEN /\ records' = Ledger(links[Here].pid)
            /\ Answers("OK", op.id)
            /\ UNCHANGED reverifying
       ELSE /\ records' = Ledger(0)
            /\ reverifying' = reverifying + 1
            /\ UNCHANGED <<links, si, closed>>
    /\ op' = NoOp /\ wpc' = "idle"
    /\ UNCHANGED <<manifest, conns, process, sdk, swept>>

Writer == Write \/ After

Next ==
    \/ \E n \in Names : SdkRegisters(n)
    \/ \E h \in handles : SdkUnregisters(h)
    \/ SdkReceives \/ SdkFails
    \/ WorkloadDies \/ WorkloadReaped \/ WorkloadStarts
    \/ Service \/ ServiceNext \/ ServiceDone
    \/ \E pages \in PageMaps : ServiceRecv(pages) \/ ReverifyNext(pages)
    \/ ReverifyRegions \/ ReverifyDone
    \/ Writer

\* The agent runs on: a write that was begun is finished.
Spec == Init /\ [][Next]_vars /\ WF_vars(Writer)

-----------------------------------------------------------------------------
(***************************************************************************)
(* The host: read_manifest and resolve.                                    *)
(***************************************************************************)
\* The retries are all made in one pause, so an odd generation exhausts them.
Readable == generation % 2 = 0

\* validate and validate_extents over every entry that is not DEAD, the unused
\* slots included.
Valid ==
    /\ region_count <= REGION_CAPACITY /\ extent_count <= EXTENT_CAPACITY
    /\ \A s \in Slots : ~entries[s].dead => entries[s].off + entries[s].n <= extent_count

ExtentsOf(s) == [i \in 1 .. entries[s].n |-> extents[entries[s].off + i - 1]]

Candidates(n) == {s \in Slots : ~entries[s].dead /\ entries[s].name = n}

\* The first live entry of the name; a name without one has no region.
resolve(n) == Min(Candidates(n))

-----------------------------------------------------------------------------
\* Whatever instruction the vCPU is paused at, a manifest the host can read
\* passes its checks, and every region in it has the extents it was published
\* with last: the ones in the ledger, or those of the write just closed.
ReadIsConsistent ==
    Readable =>
        /\ Valid
        /\ \A i \in DOMAIN records :
             LET closing == wpc = "after" /\ op.id = i - 1
             IN ~entries[i - 1].dead =>
                    ExtentsOf(i - 1) = IF closing THEN op.exts ELSE records[i].exts
        /\ wpc = "after" /\ op.kind = "register" => ExtentsOf(op.id) = op.exts

\* Between two operations the ledger and the manifest say the same: the same
\* regions, the same names, the same ones dead.
LedgerAgrees ==
    wpc = "idle" =>
        /\ Len(records) = region_count
        /\ \A i \in DOMAIN records : /\ records[i].dead = entries[i - 1].dead
                                     /\ records[i].name = entries[i - 1].name

\* A handle the workload holds is of a region that it registered itself, under
\* the name it gave, and that is live unless a sweep found its pages gone: no
\* reply, however late, is taken for the answer to another request.
HandleIsTrue ==
    \A h \in handles :
        LET r == records[h.id + 1]
        IN /\ h.id + 1 \in DOMAIN records
           /\ r.pid = pid /\ r.name = h.name
           /\ r.dead => r.lost

\* Once a ReverifyRegions sweep has ended, a name resolves to a region of the
\* workload that was started last, never to one an earlier workload left live.
ResolveIsCurrent ==
    swept /\ Readable =>
        \A n \in Names : Candidates(n) # {} /\ resolve(n) + 1 \in DOMAIN records
                            => records[resolve(n) + 1].pid = lastpid

\* A pause that lands in the middle of a write is followed by one that does
\* not: a read that ran out of retries succeeds later.
BecomesReadable == ~Readable ~> Readable

-----------------------------------------------------------------------------
(***************************************************************************)
(* The inductive invariant behind the four safety properties, in layers:   *)
(* the manifest and the ledger during a write, the agent's place in its    *)
(* loops, the sweep, and the links.                                        *)
(***************************************************************************)
Extent == [gpa : Nat, len : Nat]
Entry == [name : Names \cup {NoName}, dead : BOOLEAN, off : Nat, n : Nat]
Record == [pid : Nat, name : Names, exts : Seq(Extent), dead : BOOLEAN, lost : BOOLEAN]
Op == [kind : {"register", "rewrite", "dead"}, id : Slots, exts : Seq(Extent), off : Nat,
       bump : BOOLEAN, w : Nat, entry : Entry]

MTyped ==
    /\ generation \in Nat /\ region_count \in Nat /\ extent_count \in Nat
    /\ region_count <= REGION_CAPACITY /\ extent_count <= EXTENT_CAPACITY
    /\ entries \in [Slots -> Entry]
    /\ extents \in [0 .. (EXTENT_CAPACITY - 1) -> Extent]
    /\ records \in Seq(Record)
    /\ wpc \in {"idle", "begin", "extents", "header", "end", "after"}
    /\ wpc # "idle" => op \in Op

InWrite == wpc \in {"extents", "header", "end", "after"}
Written == wpc \in {"header", "end", "after"}        \* the entry is written
Counted == wpc \in {"end", "after"}                  \* so is the header

\* Two runs of the extent pool share no slot.
Apart(off1, n1, off2, n2) ==
    n1 = 0 \/ n2 = 0 \/ off1 + n1 <= off2 \/ off2 + n2 <= off1

Parity == generation % 2 = IF wpc \in {"extents", "header", "end"} THEN 1 ELSE 0

\* The entries share out the part of the pool that is in use.
Layout ==
    /\ \A s \in Slots : ~(wpc = "header" /\ s = op.id) =>
                            entries[s].off + entries[s].n <= extent_count
    /\ \A s, t \in Slots :
          s # t => Apart(entries[s].off, entries[s].n, entries[t].off, entries[t].n)

\* The ledger says what the manifest says, but for the region being written.
LedgerKept ==
    /\ Len(records) = region_count - IF Counted /\ op.kind = "register" THEN 1 ELSE 0
    /\ \A i \in DOMAIN records :
          /\ records[i].name = entries[i - 1].name
          /\ ~(Written /\ op.id = i - 1) => records[i].dead = entries[i - 1].dead
          /\ ~(InWrite /\ op.kind = "rewrite" /\ op.id = i - 1) =>
               /\ entries[i - 1].n = Len(records[i].exts)
               /\ \A k \in 1 .. Len(records[i].exts) :
                    extents[entries[i - 1].off + k - 1] = records[i].exts[k]

\* A write fills a run of the pool that no other region has.
OpFits ==
    /\ op.w <= Len(op.exts) /\ (wpc = "begin" => op.w = 0)
    /\ Written => op.w = Len(op.exts) /\ entries[op.id] = op.entry
    /\ \A k \in 1 .. op.w : extents[op.off + k - 1] = op.exts[k]
    /\ op.off + Len(op.exts) <= EXTENT_CAPACITY
    /\ op.kind # "dead" =>
         /\ op.entry.off = op.off /\ op.entry.n = Len(op.exts) /\ ~op.entry.dead
         /\ \A s \in Slots :
               s # op.id => Apart(op.off, Len(op.exts), entries[s].off, entries[s].n)
    /\ op.kind = "dead" =>
         /\ op.exts = <<>> /\ ~op.bump /\ op.entry.dead
         /\ op.entry.off = entries[op.id].off /\ op.entry.n = entries[op.id].n
    /\ IF op.bump THEN op.off = extent_count - IF Counted THEN Len(op.exts) ELSE 0
       ELSE wpc # "header" /\ op.off + Len(op.exts) <= extent_count
    /\ IF op.kind = "register"
       THEN op.bump /\ op.id = Len(records) /\ op.entry.name \in Names
       ELSE /\ op.id + 1 \in DOMAIN records /\ ~records[op.id + 1].dead
            /\ op.entry.name = entries[op.id].name

WInv == MTyped /\ Parity /\ Layout /\ LedgerKept /\ (wpc # "idle" => OpFits)

\* Where the agent is: in service with a link, or in a sweep with a region.
AInv ==
    /\ si \in Nat /\ reverifying \in Nat /\ conns \in Seq(1 .. Len(links))
    /\ si # 0 => reverifying = 0
    /\ wpc # "idle" /\ reverifying = 0 => si \in DOMAIN conns /\ op.kind # "rewrite"
    /\ wpc # "idle" /\ reverifying # 0 => op.id = reverifying - 1 /\ op.kind # "register"

\* What a sweep has passed is dead or of the workload that was started last.
VInv ==
    /\ lastpid \in Nat \ {0} /\ pid \in {0, lastpid} /\ alive \in BOOLEAN
    /\ alive => pid = lastpid
    /\ \A i \in DOMAIN records :
          swept \/ i < reverifying => records[i].dead \/ records[i].pid = lastpid
    /\ wpc # "idle" /\ op.kind = "rewrite" => records[op.id + 1].pid = lastpid

\* What travels on a link.
Sendable == {Registration(n) : n \in Names \ {EmptyName}} \cup {Unregistration(id) : id \in Slots}
Status == {"OK", "BAD_REQUEST", "UNKNOWN_PID", "UNKNOWN_REGION", "MANIFEST_FULL",
           "TOO_MANY_EXTENTS", "INTERNAL", "NOT_PINNED"}
Datagram == {encode_request(req) : req \in Sendable}
Reply == {encode_reply(reply) : reply \in [status : Status, region_id : Slots]}
Link == [pid : Nat, sdk : BOOLEAN, agent : {"backlog", "open", "dropped"},
         in : Seq(Datagram), out : Seq(Reply)]

\* Only the cached connection is open at the SDK's end, and on it there is the
\* pending request or the reply to it, and nothing else.
LinkUse ==
    /\ links \in Seq(Link) /\ client \in 0 .. Len(links)
    /\ \A l \in DOMAIN links :
          /\ links[l].pid \in 1 .. lastpid
          /\ l # client => ~links[l].sdk /\ links[l].out = <<>>
    /\ client # 0 => alive /\ links[client].sdk /\ links[client].pid = pid
    /\ pending = NoRequest \/ (client # 0 /\ pending \in Sendable)
    /\ client # 0 =>
         LET q == links[client]
         IN  \/ pending = NoRequest /\ q.in = <<>> /\ q.out = <<>>
             \/ pending # NoRequest /\ q.in = <<encode_request(pending)>> /\ q.out = <<>>
             \/ pending # NoRequest /\ q.in = <<>> /\ Len(q.out) = 1

\* An OK to a registration that the workload has not read yet.
Offered ==
    /\ pending # NoRequest /\ pending.kind = "Register" /\ links[client].out # <<>>
    /\ decode_reply(links[client].out[1]).status = "OK"
OfferedId == decode_reply(links[client].out[1]).region_id

\* The region is the workload's own, under this name, and live or lost.
Owns(id, name) ==
    /\ id + 1 \in DOMAIN records
    /\ records[id + 1].pid = pid /\ records[id + 1].name = name
    /\ records[id + 1].dead => records[id + 1].lost

\* The workload owns what it has a handle of, and what it is about to have one
\* of; it has no handle of what it has asked to unregister.
Ownership ==
    /\ handles \subseteq [id : Slots, name : Names] /\ (~alive => handles = {})
    /\ \A h \in handles : Owns(h.id, h.name)
    /\ Offered => /\ Owns(OfferedId, pending.name)
                  /\ \A h \in handles : h.id # OfferedId
    /\ \A l \in DOMAIN links : \A k \in DOMAIN links[l].in : \A id \in Slots :
          links[l].in[k] = encode_request(Unregistration(id)) =>
              /\ id + 1 \in DOMAIN records
              /\ links[l].pid = pid =>
                   /\ \A h \in handles : h.id # id
                   /\ Offered => OfferedId # id

\* The write in hand is of the request at the head of the link being served.
Serving ==
    wpc # "idle" /\ reverifying = 0 =>
        /\ links[Here].in # <<>> /\ links[Here].pid = pid
        /\ Head(links[Here].in) = encode_request(IF op.kind = "register"
                                                 THEN Registration(op.entry.name)
                                                 ELSE Unregistration(op.id))

MInv == WInv /\ AInv /\ VInv /\ LinkUse /\ Ownership /\ Serving
=============================================================================
