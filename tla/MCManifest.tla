----------------------------- MODULE MCManifest -----------------------------
(***************************************************************************)
(* The instance of Manifest for TLC, and the bounded inputs on which the   *)
(* extent walks and the datagram codec are compared with their reference   *)
(* definitions.                                                            *)
(***************************************************************************)
EXTENDS Manifest, RegionRead

VARIABLE probe   \* an input for Translate or RegionWire, or NoProbe and Manifest runs

Page(n) == [present |-> TRUE, swapped |-> FALSE, pfn |-> n]
Absent == [present |-> FALSE, swapped |-> FALSE, pfn |-> 0]
Swapped == [present |-> FALSE, swapped |-> TRUE, pfn |-> 1]
Hidden == [present |-> TRUE, swapped |-> FALSE, pfn |-> 0]

\* Two pages that follow each other, two that do not, and one that is not there.
MCPageMaps ==
    {0 :> Page(2) @@ 1 :> Page(3), 0 :> Page(2) @@ 1 :> Page(5), 0 :> Page(2) @@ 1 :> Absent}

-----------------------------------------------------------------------------
\* Pages 0 to 3 are all there is of the address space; a walk may find the
\* third one unreadable.
ProbeMaps ==
    UNION {[pages -> {Page(2), Page(3), Page(5), Absent, Swapped, Hidden}] :
             pages \in {0 .. 3, {0, 1, 3}}}

AllMemory == {[base |-> 0, size |-> 16]}
SplitMemory == {[base |-> 4, size |-> 3], [base |-> 7, size |-> 9]}

Requests ==
    [kind : {"Register"}, dead : BOOLEAN, name_id : 0 .. 1, len : 0 .. 1,
     name_len : {0, 1, MAX_NAME_LEN, MAX_NAME_LEN + 1}]
      \cup [kind : {"Unregister"}, region_id : 0 .. 1]

Heads(kinds) ==
    [magic : BOOLEAN, version : 1 .. 2, kind : kinds,
     size : {7, 8, UNREG_LEN, REPLY_LEN} \cup (REG_OFF_NAME - 1 .. REG_OFF_NAME + 2)
              \cup {REG_OFF_NAME + MAX_NAME_LEN, REGIONIPC_MAX_DATAGRAM}]

Datagrams ==
    [head : Heads({KIND_UNREGISTER}), body : {r \in Requests : r.kind = "Unregister"}]
      \cup [head : Heads(0 .. 4 \ {KIND_UNREGISTER}), body : {r \in Requests : r.kind = "Register"}]

NoProbe == [of |-> "none"]
Probes ==
    {NoProbe}
      \cup [of : {"walk"}, pages : ProbeMaps, start : 0 .. 1, len : {1, 3, 4, 6, 7, 8}]
      \cup [of : {"request"}, req : Requests]
      \cup [of : {"datagram"}, datagram : Datagrams]

MCInit == Init /\ probe \in Probes
MCNext == probe = NoProbe /\ Next /\ UNCHANGED probe
MCSpec == MCInit /\ [][MCNext]_<<vars, probe>> /\ WF_<<vars, probe>>(Writer /\ UNCHANGED probe)

-----------------------------------------------------------------------------
\* build_extents and read_region together: what the host reads of a region, at
\* any offset, are the bytes the process has there, translated one by one.  The
\* walk fails exactly when a page of the range does not translate, with that
\* page's error, or the pages fall into too many pieces; and the extents are
\* the fewest there can be, so that a sweep that finds the same pages finds the
\* same list.
RegionReadsBack ==
    probe.of = "walk" /\ probe.start + probe.len <= VTop =>
      LET range == probe.start .. (probe.start + probe.len - 1)
          Gpa(v) == gva_to_gpa(probe.pages, v)
          bad == {v \in range : ~Gpa(v).ok}
          walk == build_extents(probe.pages, probe.start, probe.len)
          Breaks(v) == v = probe.start \/ Gpa(v).v # Gpa(v - 1).v + 1
          region == [len |-> probe.len, extents |-> walk.v]
          Read(segments, offset, want) == read_region(segments, region, offset, want)
      IN  /\ walk.ok =>
               /\ bad = {}
               /\ Len(walk.v) = Cardinality({v \in range : Breaks(v)})
               /\ \A offset \in 0 .. probe.len, want \in 0 .. (probe.len + 1) :
                    IF offset + want > probe.len
                    THEN Read(AllMemory, offset, want) = Err("OutOfBounds")
                    ELSE Read(AllMemory, offset, want).v =
                           [i \in 1 .. want |-> Gpa(probe.start + offset + i - 1).v]
               /\ \A want \in 0 .. probe.len :
                    LET r == Read(SplitMemory, 0, want)
                    IN r.ok => r.v = [i \in 1 .. want |-> Gpa(probe.start + i - 1).v]
          /\ ~walk.ok /\ walk.e # "TooManyExtents" => bad # {} /\ walk = Gpa(Min(bad))
          /\ ~walk.ok /\ walk.e = "TooManyExtents" =>
               \/ probe.start + probe.len = VTop
               \/ Cardinality({v \in range \ bad : Breaks(v)}) > EXTENT_CAPACITY

\* The codec takes one datagram per request and no other: what decodes encodes
\* back to the same bytes, a request the SDK can make arrives as it was sent
\* unless it carries the DEAD flag, and no request passes for a reply.
CodecAgrees ==
    /\ probe.of = "datagram" =>
         LET req == decode_request(probe.datagram)
         IN  /\ req.kind # "Err" => encode_request(req).head = probe.datagram.head
             /\ req.kind # "Err" => decode_reply(probe.datagram).kind = "Err"
    /\ probe.of = "request" /\ "kind" \notin DOMAIN encode_request(probe.req) =>
         LET back == decode_request(encode_request(probe.req))
             legal == probe.req.kind = "Register" =>
                        ~probe.req.dead /\ probe.req.name_id # 0 /\ probe.req.len # 0
         IN  IF legal THEN back = probe.req ELSE back = BadDatagram("BadField")
=============================================================================
