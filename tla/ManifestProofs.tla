--------------------------- MODULE ManifestProofs ---------------------------
(***************************************************************************)
(* Region publication is safe for any number of regions, extents, links,   *)
(* names and workloads, whatever pages a walk finds.                       *)
(***************************************************************************)
EXTENDS ManifestWriterProofs

-----------------------------------------------------------------------------
(***************************************************************************)
(* The codec: what one side encodes the other decodes.                     *)
(***************************************************************************)
\* A request that the SDK can send is encoded, and decode_request gives it back.
LEMMA RequestCodec ==
    ASSUME NEW req \in Sendable
    PROVE  /\ "kind" \notin DOMAIN encode_request(req)
           /\ decode_request(encode_request(req)) = req
<1> USE DEF Header, HEADER_LEN, REG_OFF_NAME, UNREG_LEN, MAX_NAME_LEN, KIND_REGISTER, KIND_UNREGISTER
<1>1. CASE req \in {Registration(n) : n \in Names \ {EmptyName}}
  <2>1. PICK n \in Names \ {EmptyName} : req = Registration(n)
    BY <1>1
  <2>2. /\ req.kind = "Register" /\ req.name_len = 1 /\ req.dead = FALSE /\ req.name_id = 1
        /\ req.len = RegionLen
    BY <2>1 DEF Registration
  <2>3. encode_request(req) = [head |-> Header(1, 39), body |-> req]
    BY <2>2 DEF encode_request
  <2> DEFINE d == encode_request(req)
  <2>4. /\ d.head.size = 39 /\ d.head.magic = TRUE /\ d.head.version = 1 /\ d.head.kind = 1
        /\ d.body = req
    BY SMTT(30), <2>3
  <2>5. DOMAIN d = {"head", "body"}
    BY ZenonT(30), <2>3
  <2> HIDE DEF d
  <2>6. check_header(d.head) = "none"
    BY SMTT(30), <2>4 DEF check_header
  <2>7. decode_request(d) = req
    BY <2>2, <2>4, <2>6, ManifestAssumption DEF decode_request
  <2> QED
    BY <2>5, <2>7 DEF d
<1>2. CASE req \in {Unregistration(id) : id \in Slots}
  <2>1. req.kind = "Unregister"
    BY <1>2 DEF Unregistration
  <2>2. encode_request(req) = [head |-> Header(2, 12), body |-> req]
    BY Zenon, <2>1 DEF encode_request
  <2> DEFINE d == encode_request(req)
  <2>4. /\ d.head.size = 12 /\ d.head.magic = TRUE /\ d.head.version = 1 /\ d.head.kind = 2
        /\ d.body = req
    BY <2>2
  <2>5. DOMAIN d = {"head", "body"}
    BY <2>2
  <2> HIDE DEF d
  <2>6. check_header(d.head) = "none"
    BY <2>4 DEF check_header
  <2>7. decode_request(d) = req
    BY <2>4, <2>6 DEF decode_request
  <2> QED
    BY Zenon, <2>5, <2>7 DEF d
<1> QED
  BY <1>1, <1>2 DEF Sendable

\* The empty name does not get as far as the socket.
LEMMA EmptyNameRefused == "kind" \in DOMAIN encode_request(Registration(EmptyName))
<1>1. Registration(EmptyName).kind = "Register" /\ Registration(EmptyName).name_len = 0
  BY Zenon DEF Registration
<1>2. encode_request(Registration(EmptyName)) = [kind |-> "Err", why |-> "FieldTooLong"]
  BY <1>1 DEF encode_request, BadDatagram
<1> QED
  BY <1>2

\* Two different requests are two different datagrams.
LEMMA RequestsDiffer ==
    ASSUME NEW r1 \in Sendable, NEW r2 \in Sendable, encode_request(r1) = encode_request(r2)
    PROVE  r1 = r2
BY RequestCodec

\* What a request is.
LEMMA SendableFacts ==
    /\ \A n \in Names : n # EmptyName => Registration(n) \in Sendable
    /\ \A id \in Slots : Unregistration(id) \in Sendable
    /\ \A n : Registration(n).kind = "Register" /\ Registration(n).name = n
    /\ \A id : Unregistration(id).kind = "Unregister" /\ Unregistration(id).region_id = id
    /\ \A r \in Sendable : /\ r.kind = "Register" =>
                                \E n \in Names \ {EmptyName} : r = Registration(n)
                           /\ r.kind = "Unregister" => \E id \in Slots : r = Unregistration(id)
                           /\ r.kind \in {"Register", "Unregister"}
                           /\ r # NoRequest
<1>1. /\ \A n : Registration(n).kind = "Register" /\ Registration(n).name = n
      /\ \A id : Unregistration(id).kind = "Unregister" /\ Unregistration(id).region_id = id
  BY Zenon DEF Registration, Unregistration
<1>2. NoRequest.kind = "none"
  BY DEF NoRequest
<1> QED
  BY <1>1, <1>2 DEF Sendable

\* A reply is read as it was written.
LEMMA ReplyCodec ==
    ASSUME NEW status, NEW id
    PROVE  /\ decode_reply(encode_reply([status |-> status, region_id |-> id])).status = status
           /\ decode_reply(encode_reply([status |-> status, region_id |-> id])).region_id = id
<1> DEFINE r == [status |-> status, region_id |-> id]
           d == encode_reply(r)
<1>1. /\ d.head.size = 28 /\ d.head.magic = TRUE /\ d.head.version = 1 /\ d.head.kind = 3
      /\ d.body = r
  BY DEF encode_reply, Header, KIND_REPLY, REPLY_LEN
<1> HIDE DEF d
<1>2. check_header(d.head) = "none"
  BY SMTT(30), <1>1 DEF check_header, HEADER_LEN
<1>3. decode_reply(d) = r
  BY SMTT(30), <1>1, <1>2 DEF decode_reply, KIND_REPLY, REPLY_LEN
<1> QED
  BY <1>3 DEF d

\* The status of a request that was decoded, and what an OK stands for.
LEMMA HandleFacts ==
    ASSUME WInv, NEW req \in Sendable, NEW peer, NEW walk, Walked(walk)
    PROVE  /\ handle(req, peer, walk) \in Status
           /\ handle(req, peer, walk) = "OK" =>
                /\ peer = pid
                /\ req.kind = "Unregister" => LiveRecord(req.region_id)
                /\ req.kind = "Register" =>
                     /\ walk.ok /\ region_count < REGION_CAPACITY
                     /\ extent_count + Len(walk.v) <= EXTENT_CAPACITY
<1>1. req.kind \in {"Register", "Unregister"}
  BY SendableFacts
<1>2. ~walk.ok => build_error_status(walk.e) \in Status \ {"OK"}
  BY DEF Walked, BuildError, build_error_status, Status
<1>3. region_count \in Nat /\ extent_count \in Nat /\ (walk.ok => Len(walk.v) \in Nat)
  BY EntryFacts DEF Walked
<1>4. CASE peer # pid
  BY Zenon, <1>1, <1>4 DEF handle, Status
<1>5. CASE peer = pid /\ req.kind = "Unregister"
  BY Zenon, <1>5 DEF handle, Status
<1>6. CASE peer = pid /\ req.kind = "Register"
  <2>1. handle(req, peer, walk) =
          IF ~walk.ok THEN build_error_status(walk.e)
          ELSE IF region_count >= REGION_CAPACITY THEN "MANIFEST_FULL"
          ELSE IF extent_count + Len(walk.v) > EXTENT_CAPACITY THEN "TOO_MANY_EXTENTS"
          ELSE "OK"
    BY <1>6 DEF handle
  <2> QED
    BY <1>2, <1>3, <1>6, <2>1, ManifestAssumption, TranslateAssumption DEF Status
<1> QED
  BY <1>1, <1>4, <1>5, <1>6

-----------------------------------------------------------------------------
(***************************************************************************)
(* The links, step by step.                                                *)
(***************************************************************************)
\* What the types say of a link.
LEMMA LinkFacts ==
    ASSUME LinkUse
    PROVE  /\ Len(links) \in Nat /\ DOMAIN links = 1 .. Len(links)
           /\ \A l \in DOMAIN links :
                /\ links[l] \in Link /\ links[l].pid \in Nat /\ links[l].sdk \in BOOLEAN
                /\ links[l].agent \in {"backlog", "open", "dropped"}
                /\ links[l].in \in Seq(Datagram) /\ links[l].out \in Seq(Reply)
           /\ client # 0 => client \in DOMAIN links
<1>1. links \in Seq(Link) /\ client \in 0 .. Len(links)
  BY DEF LinkUse
<1>2. \A q \in Link : /\ q.pid \in Nat /\ q.sdk \in BOOLEAN
                      /\ q.agent \in {"backlog", "open", "dropped"}
                      /\ q.in \in Seq(Datagram) /\ q.out \in Seq(Reply)
  BY DEF Link
<1> QED
  BY SMTT(30), <1>1, <1>2

\* A step that leaves the agent's place alone.
LEMMA QuietAInv == AInv /\ UNCHANGED <<si, reverifying, conns, links, wpc, op>> => AInv'
BY DEF AInv

\* A step that leaves the sweep and the workload's life alone.
LEMMA QuietVInv ==
    VInv /\ UNCHANGED <<lastpid, pid, alive, records, swept, reverifying, wpc, op>> => VInv'
BY SMTT(30) DEF VInv

\* A step in which nothing travels.
LEMMA QuietLinkUse ==
    LinkUse /\ UNCHANGED <<links, client, lastpid, alive, pid, pending>> => LinkUse'
BY SMTT(30) DEF LinkUse

\* A step in which nobody gains or loses a region.
LEMMA QuietOwnership ==
    Ownership /\ UNCHANGED <<records, handles, alive, pid, links, client, pending>> => Ownership'
<1> SUFFICES ASSUME Ownership, UNCHANGED <<records, handles, alive, pid, links, client, pending>>
             PROVE  Ownership'
  OBVIOUS
<1>1. (Offered' <=> Offered) /\ OfferedId' = OfferedId
  BY DEF Offered, OfferedId
<1>2. \A id, name : Owns(id, name) => Owns(id, name)'
  BY DEF Owns
<1> QED
  BY ZenonT(30), <1>1, <1>2 DEF Ownership

\* What agent_client::call does to the links: the cached connection, or one just
\* made, carries the request, or it is closed without having carried anything.
CallSends(l, req) ==
    /\ client' = l /\ pending' = req /\ req \in Sendable
    /\ links'[l].sdk = TRUE /\ links'[l].in = <<encode_request(req)>>
CallFails(l) ==
    /\ client' = 0 /\ pending' = NoRequest
    /\ links'[l].sdk = FALSE /\ links'[l].in = <<>>

\* A call uses the cached connection or a new one, and no other; the empty name
\* fails in the codec.
LEMMA CallFacts ==
    ASSUME MInv, NEW req \in Sendable \cup {Registration(EmptyName)}, Call(req)
    PROVE  /\ pending = NoRequest /\ alive
           /\ \E l : /\ l \in DOMAIN links' /\ (l \in DOMAIN links => l = client)
                     /\ links' \in Seq(Link) /\ Len(links) <= Len(links')
                     /\ DOMAIN links' = DOMAIN links \cup {l}
                     /\ client \in {0, l}
                     /\ \A k \in DOMAIN links : k # l => links'[k] = links[k]
                     /\ links'[l].pid = pid /\ links'[l].out = <<>>
                     /\ CallSends(l, req) \/ CallFails(l)
<1> DEFINE fresh == [pid |-> pid, sdk |-> TRUE, agent |-> "backlog", in |-> <<>>, out |-> <<>>]
           ls == IF client = 0 THEN Append(links, fresh) ELSE links
           l == IF client = 0 THEN Len(ls) ELSE client
           datagram == encode_request(req)
           fails == "kind" \in DOMAIN datagram \/ ls[l].agent = "dropped"
<1>1. /\ pending = NoRequest /\ alive
      /\ IF fails
         THEN client' = 0 /\ links' = Hangs(ls, l) /\ pending' = NoRequest
         ELSE /\ client' = l /\ pending' = req
              /\ links' = [ls EXCEPT ![l].in = Append(@, datagram)]
  BY ZenonT(30) DEF Call
<1>2. LinkUse /\ pid \in Nat /\ links \in Seq(Link)
  BY SMTT(30) DEF MInv, VInv, LinkUse
<1>3. /\ Len(links) \in Nat /\ DOMAIN links = 1 .. Len(links) /\ (client # 0 => client \in DOMAIN links)
  BY <1>2, LinkFacts
<1>4. /\ ls \in Seq(Link) /\ l \in DOMAIN ls /\ (l \in DOMAIN links => l = client)
      /\ Len(links) <= Len(ls) /\ DOMAIN ls = DOMAIN links \cup {l} /\ client \in {0, l}
      /\ \A k \in DOMAIN links : ls[k] = links[k]
      /\ ls[l].pid = pid /\ ls[l].out = <<>> /\ ls[l].in = <<>> /\ ls[l].sdk = TRUE
  <2>1. CASE client = 0
    <3>1. fresh \in Link
      <4>1. <<>> \in Seq(Datagram) /\ <<>> \in Seq(Reply)
        OBVIOUS
      <4> QED
        BY Zenon, <1>2, <4>1 DEF Link
    <3>2. fresh.pid = pid /\ fresh.out = <<>> /\ fresh.in = <<>> /\ fresh.sdk = TRUE
      OBVIOUS
    <3>3. ls = Append(links, fresh) /\ l = Len(ls)
      BY <2>1
    <3> HIDE DEF fresh, ls, l
    <3>4. /\ ls \in Seq(Link) /\ Len(ls) = Len(links) + 1 /\ ls[Len(links) + 1] = fresh
          /\ \A k \in DOMAIN links : ls[k] = links[k]
      BY SMTT(30), <1>2, <3>1, <3>3
    <3> QED
      BY SMTT(30), <1>3, <2>1, <3>2, <3>3, <3>4
  <2>2. CASE client # 0
    <3>1. ls = links /\ l = client
      BY <2>2
    <3>2. /\ links[client].pid = pid /\ links[client].sdk /\ links[client].in = <<>>
          /\ links[client].out = <<>> /\ links[client].sdk \in BOOLEAN
      BY SMTT(30), <1>1, <1>2, <1>3, <2>2, LinkFacts DEF LinkUse
    <3> QED
      BY <1>2, <1>3, <2>2, <3>1, <3>2
  <2> QED
    BY ZenonT(30), <2>1, <2>2
<1>5. ~fails => req \in Sendable
  BY EmptyNameRefused
<1>6. req \in Sendable => datagram \in Datagram
  BY DEF Datagram
<1> HIDE DEF ls, l, fails
<1>7. ls[l] \in Link
  BY <1>4
<1>8. CASE fails
  <2> DEFINE q == [ls[l] EXCEPT !.sdk = FALSE, !.out = <<>>]
  <2>1. client' = 0 /\ pending' = NoRequest /\ links' = [ls EXCEPT ![l] = q]
    BY ZenonT(30), <1>1, <1>8 DEF Hangs
  <2>2. q \in Link
    <3>1. <<>> \in Seq(Reply)
      OBVIOUS
    <3> QED
      BY ZenonT(30), <1>7, <3>1 DEF Link
  <2>3. q.sdk = FALSE /\ q.out = <<>> /\ q.in = <<>> /\ q.pid = pid
    BY <1>4, <1>7 DEF Link
  <2> HIDE DEF q
  <2>4. /\ links' \in Seq(Link) /\ DOMAIN links' = DOMAIN ls /\ Len(links') = Len(ls)
        /\ links'[l] = q /\ \A k \in DOMAIN ls : k # l => links'[k] = ls[k]
    BY <1>4, <2>1, <2>2
  <2> QED
    BY <1>1, <1>3, <1>4, <2>1, <2>3, <2>4 DEF CallFails
<1>9. CASE ~fails
  <2> DEFINE q == [ls[l] EXCEPT !.in = Append(@, datagram)]
  <2>1. client' = l /\ pending' = req /\ links' = [ls EXCEPT ![l] = q]
    BY <1>1, <1>9
  <2>2. req \in Sendable /\ datagram \in Datagram
    BY <1>5, <1>6, <1>9
  <2>3. q = [ls[l] EXCEPT !.in = <<datagram>>] /\ <<datagram>> \in Seq(Datagram)
    BY <1>4, <1>7, <2>2 DEF Link
  <2>4. q \in Link
    BY Zenon, <1>7, <2>3 DEF Link
  <2>5. q.sdk = TRUE /\ q.out = <<>> /\ q.in = <<datagram>> /\ q.pid = pid
    BY <1>4, <1>7, <2>3 DEF Link
  <2> HIDE DEF q
  <2>6. /\ links' \in Seq(Link) /\ DOMAIN links' = DOMAIN ls /\ Len(links') = Len(ls)
        /\ links'[l] = q /\ \A k \in DOMAIN ls : k # l => links'[k] = ls[k]
    BY <1>4, <2>1, <2>4
  <2> QED
    BY <1>1, <1>3, <1>4, <2>1, <2>2, <2>5, <2>6 DEF CallSends
<1> QED
  BY ZenonT(30), <1>8, <1>9

\* A sequence over a set is one over any larger set.
LEMMA SeqWiden ==
    ASSUME NEW S, NEW T, S \subseteq T, NEW s \in Seq(S)
    PROVE  s \in Seq(T)
<1>1. /\ s = [i \in 1 .. Len(s) |-> s[i]] /\ Len(s) \in Nat /\ \A i \in 1 .. Len(s) : s[i] \in T
  OBVIOUS
<1>2. [i \in 1 .. Len(s) |-> s[i]] \in Seq(T)
  BY <1>1
<1> QED
  BY Zenon, <1>1, <1>2

\* A call, whatever comes of it.
LEMMA CallMInv ==
    ASSUME MInv, NEW req \in Sendable \cup {Registration(EmptyName)}, Call(req),
           handles' \subseteq handles,
           \A id \in Slots : req = Unregistration(id) =>
               id + 1 \in DOMAIN records /\ \A h \in handles' : h.id # id
    PROVE  MInv'
<1>1. PICK l : /\ l \in DOMAIN links' /\ (l \in DOMAIN links => l = client)
               /\ links' \in Seq(Link) /\ Len(links) <= Len(links')
               /\ DOMAIN links' = DOMAIN links \cup {l}
               /\ client \in {0, l}
               /\ \A k \in DOMAIN links : k # l => links'[k] = links[k]
               /\ links'[l].pid = pid /\ links'[l].out = <<>>
               /\ CallSends(l, req) \/ CallFails(l)
  BY ZenonT(30), CallFacts
<1>2. pending = NoRequest /\ alive
  BY ZenonT(30), CallFacts
<1>3. UNCHANGED <<manifest, records, server, writing, process, swept>>
  BY DEF Call
<1>4. WInv'
  BY <1>3, QuietWInv DEF MInv, wvars, manifest, header, writing
<1>5. VInv'
  BY <1>3, QuietVInv DEF MInv, writing, process
<1>6. /\ LinkUse /\ Len(links) \in Nat /\ DOMAIN links = 1 .. Len(links) /\ DOMAIN links' = 1 .. Len(links')
      /\ Len(links') \in Nat
  <2>1. LinkUse
    BY DEF MInv
  <2>2. DOMAIN links' = 1 .. Len(links') /\ Len(links') \in Nat
    BY <1>1
  <2> QED
    BY <2>1, <2>2, LinkFacts
<1>7. AInv'
  <2>1. conns \in Seq(1 .. Len(links))
    BY Zenon DEF MInv, AInv
  <2>2. 1 .. Len(links) \subseteq 1 .. Len(links')
    BY ZenonT(30), <1>1, <1>6
  <2>3. conns \in Seq(1 .. Len(links'))
    BY ZenonT(30), <2>1, <2>2, SeqWiden
  <2> QED
    BY Zenon, <1>3, <2>3 DEF MInv, AInv, server, writing
<1>8. pid \in 1 .. lastpid
  BY <1>2 DEF MInv, VInv
<1>9. LinkUse'
  <2>1. ASSUME NEW k \in DOMAIN links'
        PROVE  links'[k].pid \in 1 .. lastpid /\ (k # client' => ~links'[k].sdk /\ links'[k].out = <<>>)
    <3>1. CASE k = l
      BY SMTT(30), <1>1, <1>8, <3>1 DEF CallSends, CallFails
    <3>2. CASE k # l
      <4>1. k \in DOMAIN links /\ k # client /\ links'[k] = links[k]
        BY SMTT(30), <1>1, <1>6, <2>1, <3>2
      <4> QED
        BY SMTT(30), <1>6, <4>1 DEF LinkUse
    <3> QED
      BY Zenon, <3>1, <3>2
  <2>2. l # 0 /\ 0 \in 0 .. Len(links') /\ l \in 0 .. Len(links')
    BY SMTT(30), <1>1, <1>6
  <2>3. CASE CallSends(l, req)
    <3>1. /\ client' = l /\ pending' = req /\ req \in Sendable /\ req # NoRequest
          /\ links'[l].sdk /\ links'[l].in = <<encode_request(req)>>
      BY ZenonT(30), <2>3, SendableFacts DEF CallSends
    <3> QED
      BY ZenonT(30), <1>1, <1>2, <1>3, <2>1, <2>2, <3>1 DEF LinkUse, process
  <2>4. CASE CallFails(l)
    <3>1. client' = 0 /\ pending' = NoRequest
      BY SMTT(30), <2>4 DEF CallFails
    <3> QED
      BY ZenonT(30), <1>1, <1>3, <2>1, <2>2, <3>1 DEF LinkUse, process
  <2> QED
    BY Zenon, <1>1, <2>3, <2>4
<1>10. Ownership'
  <2>1. ~Offered'
    BY <1>1 DEF Offered, CallSends, CallFails
  <2>2. \A id, name : Owns(id, name) => Owns(id, name)'
    BY <1>3 DEF Owns, process
  <2>3. ASSUME NEW k \in DOMAIN links', NEW j \in DOMAIN links'[k].in, NEW id \in Slots,
               links'[k].in[j] = encode_request(Unregistration(id))
        PROVE  /\ id + 1 \in DOMAIN records
               /\ links'[k].pid = pid => \A h \in handles' : h.id # id
    <3>1. CASE k = l
      <4>1. CallSends(l, req)
        BY SMTT(30), <1>1, <2>3, <3>1 DEF CallFails
      <4>2. req \in Sendable /\ links'[l].in = <<encode_request(req)>>
        BY Zenon, <4>1 DEF CallSends
      <4>3. encode_request(req) = encode_request(Unregistration(id))
        BY <2>3, <3>1, <4>2
      <4>4. req = Unregistration(id)
        BY Zenon, <4>2, <4>3, RequestsDiffer, SendableFacts
      <4> QED
        BY ZenonT(30), <4>4
    <3>2. CASE k # l
      <4>1. k \in DOMAIN links /\ links'[k] = links[k]
        BY ZenonT(30), <1>1, <2>3, <3>2
      <4> QED
        BY ZenonT(30), <2>3, <4>1 DEF MInv, Ownership
    <3> QED
      BY <3>1, <3>2
  <2> QED
    BY ZenonT(30), <1>2, <1>3, <2>1, <2>2, <2>3 DEF MInv, Ownership, process
<1>11. Serving'
  <2> SUFFICES ASSUME wpc # "idle", reverifying = 0
               PROVE  /\ Here' = Here /\ links'[Here] = links[Here]
    BY <1>3 DEF MInv, Serving, writing, process
  <2>1. si \in DOMAIN conns /\ Here \in DOMAIN links
    BY SMTT(30), <1>6 DEF MInv, AInv, Here
  <2>2. links[Here].in # <<>>
    BY Zenon DEF MInv, Serving
  <2>3. Here # l
    BY SMTT(30), <1>1, <1>2, <1>6, <2>1, <2>2 DEF LinkUse
  <2> QED
    BY ZenonT(30), <1>1, <1>3, <2>1, <2>3 DEF Here, server
<1> QED
  BY Zenon, <1>4, <1>5, <1>7, <1>9, <1>10, <1>11 DEF MInv

\* register_region sends a request, or fails.
LEMMA SdkRegistersMInv == \A n \in Names : MInv /\ SdkRegisters(n) => MInv'
<1> SUFFICES ASSUME NEW n \in Names, MInv, SdkRegisters(n) PROVE MInv'
  OBVIOUS
<1>1. Call(Registration(n)) /\ handles' = handles
  BY DEF SdkRegisters
<1>2. Registration(n) \in Sendable \cup {Registration(EmptyName)}
  BY SendableFacts
<1>3. \A id : Registration(n) # Unregistration(id)
  BY SendableFacts
<1> QED
  BY <1>1, <1>2, <1>3, CallMInv

\* unregister: the handle is spent, and it was the only one of its region.
LEMMA SdkUnregistersMInv == \A h \in handles : MInv /\ SdkUnregisters(h) => MInv'
<1> SUFFICES ASSUME NEW h \in handles, MInv, SdkUnregisters(h) PROVE MInv'
  OBVIOUS
<1>1. Call(Unregistration(h.id)) /\ handles' = handles \ {h}
  BY Zenon DEF SdkUnregisters
<1>2. /\ handles \subseteq [id : Slots, name : Names]
      /\ \A g \in handles : Owns(g.id, g.name)
  BY ZenonT(30) DEF MInv, Ownership
<1>3. Unregistration(h.id) \in Sendable /\ h.id + 1 \in DOMAIN records
  BY <1>2, SendableFacts DEF Owns
<1>4. \A g \in handles' : g.id # h.id
  <2> SUFFICES ASSUME NEW g \in handles, g.id = h.id PROVE g = h
    BY <1>1
  <2>1. g.name = h.name
    BY Zenon, <1>2 DEF Owns
  <2> QED
    BY <1>2, <2>1
<1>5. \A id : Unregistration(h.id) = Unregistration(id) => id = h.id
  BY SendableFacts
<1> QED
  BY <1>1, <1>3, <1>4, <1>5, CallMInv

\* One link changes, the others stay.
LEMMA LinkUpdate ==
    ASSUME links \in Seq(Link), NEW l \in DOMAIN links, NEW q \in Link,
           links' = [links EXCEPT ![l] = q]
    PROVE  /\ links' \in Seq(Link) /\ Len(links') = Len(links) /\ DOMAIN links' = DOMAIN links
           /\ links'[l] = q /\ \A k \in DOMAIN links : k # l => links'[k] = links[k]
OBVIOUS

\* A queue with one message in it.
LEMMA SingletonSeq ==
    ASSUME NEW S, NEW s \in Seq(S), Len(s) = 1
    PROVE  Tail(s) = <<>> /\ Head(s) = s[1] /\ s[1] \in S
<1>1. s # <<>>
  OBVIOUS
<1>2. Tail(s) \in Seq(S) /\ Len(Tail(s)) = 0
  BY <1>1
<1>3. \A t \in Seq(S) : t # <<>> => Len(t) \in Nat \ {0}
  OBVIOUS
<1>4. Tail(s) = <<>>
  BY ZenonT(30), <1>2, <1>3
<1> QED
  BY <1>1, <1>4

\* The reply that is read is the one to the pending request.
LEMMA SdkReceivesMInv == MInv /\ SdkReceives => MInv'
<1> SUFFICES ASSUME MInv, SdkReceives PROVE MInv'
  OBVIOUS
<1> DEFINE q == [links[client] EXCEPT !.out = Tail(@)]
           reply == decode_reply(Head(links[client].out))
<1>1. /\ alive /\ pending # NoRequest /\ links[client].out # <<>>
      /\ handles' = IF pending.kind = "Register" /\ reply.status = "OK"
                    THEN handles \cup {[id |-> reply.region_id, name |-> pending.name]}
                    ELSE handles
      /\ links' = [links EXCEPT ![client] = q]
      /\ pending' = NoRequest
      /\ UNCHANGED <<manifest, records, server, writing, process, client, swept>>
  BY Zenon DEF SdkReceives
<1>2. WInv' /\ VInv'
  BY ZenonT(30), <1>1, QuietWInv, QuietVInv DEF MInv, wvars, manifest, header, writing, process
<1>3. LinkUse /\ links \in Seq(Link) /\ client # 0 /\ pending \in Sendable
  BY Zenon, <1>1 DEF MInv, LinkUse
<1>4. client \in DOMAIN links /\ links[client] \in Link /\ links[client].out \in Seq(Reply)
  BY ZenonT(30), <1>3, LinkFacts
<1>5. /\ links[client].in = <<>> /\ Len(links[client].out) = 1 /\ links[client].sdk
      /\ links[client].pid = pid
  BY <1>1, <1>3 DEF LinkUse
<1>6. Tail(links[client].out) = <<>> /\ Head(links[client].out) = links[client].out[1]
      /\ links[client].out[1] \in Reply
  BY <1>4, <1>5, SingletonSeq
<1>7. /\ q \in Link /\ q.in = <<>> /\ q.out = <<>> /\ q.sdk = links[client].sdk /\ q.pid = pid
  <2>1. <<>> \in Seq(Reply)
    OBVIOUS
  <2> QED
    BY ZenonT(30), <1>4, <1>5, <1>6, <2>1 DEF Link
<1> HIDE DEF q
<1>8. /\ links' \in Seq(Link) /\ Len(links') = Len(links) /\ DOMAIN links' = DOMAIN links
      /\ links'[client] = q /\ \A k \in DOMAIN links : k # client => links'[k] = links[k]
  BY <1>1, <1>3, <1>4, <1>7, LinkUpdate
<1>9. \A k \in DOMAIN links : links'[k].in = links[k].in /\ links'[k].pid = links[k].pid
  BY ZenonT(30), <1>5, <1>7, <1>8
<1>10. AInv'
  BY SMTT(30), <1>1, <1>8 DEF MInv, AInv, server, writing
<1>11. LinkUse'
  <2>1. \A k \in DOMAIN links : k # client => ~links'[k].sdk /\ links'[k].out = <<>>
    BY ZenonT(30), <1>3, <1>8 DEF LinkUse
  <2>2. links'[client].sdk /\ links'[client].pid = pid /\ links'[client].in = <<>>
        /\ links'[client].out = <<>>
    BY ZenonT(30), <1>5, <1>7, <1>8
  <2> QED
    BY ZenonT(30), <1>1, <1>3, <1>8, <1>9, <2>1, <2>2 DEF LinkUse, process
<1>12. Ownership'
  <2>1. ~Offered'
    BY ZenonT(30), <1>1 DEF Offered
  <2>2. \A id, name : Owns(id, name) => Owns(id, name)'
    BY Zenon, <1>1 DEF Owns, process
  <2>3. Ownership
    BY Zenon DEF MInv
  <2>4. ASSUME NEW h \in handles', h \notin handles
        PROVE  /\ Offered /\ h.id = OfferedId /\ h.name = pending.name
               /\ h \in [id : Slots, name : Names]
    <3>1. pending.kind = "Register" /\ reply.status = "OK"
          /\ h = [id |-> reply.region_id, name |-> pending.name]
      BY <1>1, <2>4
    <3>2. reply = decode_reply(links[client].out[1])
      BY ZenonT(30), <1>6
    <3>3. reply.region_id \in Slots
      <4>1. PICK r \in [status : Status, region_id : Slots] : links[client].out[1] = encode_reply(r)
        BY Zenon, <1>6 DEF Reply
      <4>2. r = [status |-> r.status, region_id |-> r.region_id]
        BY Zenon, <4>1
      <4> QED
        BY SMTT(30), <3>2, <4>1, <4>2, ReplyCodec
    <3>4. pending.name \in Names
      <4>1. PICK n \in Names \ {EmptyName} : pending = Registration(n)
        BY SMTT(30), <1>3, <3>1, SendableFacts
      <4> QED
        BY SMTT(30), <4>1, SendableFacts
    <3> HIDE DEF reply
    <3> QED
      BY ZenonT(30), <1>1, <3>1, <3>2, <3>3, <3>4 DEF Offered, OfferedId
  <2>5. handles' \subseteq [id : Slots, name : Names] /\ \A h \in handles' : Owns(h.id, h.name)
    BY <2>3, <2>4 DEF Ownership
  <2>6. ASSUME NEW k \in DOMAIN links', NEW j \in DOMAIN links'[k].in, NEW id \in Slots,
               links'[k].in[j] = encode_request(Unregistration(id))
        PROVE  /\ id + 1 \in DOMAIN records
               /\ links'[k].pid = pid => \A h \in handles' : h.id # id
    <3>1. k \in DOMAIN links /\ j \in DOMAIN links[k].in /\ links[k].pid = links'[k].pid
          /\ links[k].in[j] = encode_request(Unregistration(id))
      BY SMTT(30), <1>8, <1>9, <2>6
    <3>2. /\ id + 1 \in DOMAIN records
          /\ links'[k].pid = pid => (\A h \in handles : h.id # id) /\ (Offered => OfferedId # id)
      BY ZenonT(30), <2>3, <3>1 DEF Ownership
    <3> QED
      BY SMTT(30), <2>4, <3>2
  <2> QED
    BY SMTT(30), <1>1, <2>1, <2>2, <2>5, <2>6 DEF Ownership, process
<1>13. Serving'
  <2> SUFFICES ASSUME wpc # "idle", reverifying = 0
               PROVE  Here' = Here /\ Here \in DOMAIN links
    BY ZenonT(30), <1>1, <1>9 DEF MInv, Serving, writing, process
  <2>1. DOMAIN links = 1 .. Len(links)
    BY ZenonT(30), <1>3, LinkFacts
  <2> QED
    BY SMTT(30), <1>1, <2>1 DEF MInv, AInv, Here, server
<1> QED
  BY <1>2, <1>10, <1>11, <1>12, <1>13 DEF MInv

\* A wait that failed drops the connection: a late reply finds nobody.
LEMMA SdkFailsMInv == MInv /\ SdkFails => MInv'
<1> SUFFICES ASSUME MInv, SdkFails PROVE MInv'
  OBVIOUS
<1> DEFINE q == [links[client] EXCEPT !.sdk = FALSE, !.out = <<>>]
<1>1. /\ alive /\ pending # NoRequest
      /\ links' = [links EXCEPT ![client] = q]
      /\ client' = 0 /\ pending' = NoRequest
      /\ UNCHANGED <<manifest, records, server, writing, process, handles, swept>>
  BY ZenonT(30) DEF SdkFails, Hangs
<1>2. WInv' /\ VInv'
  BY <1>1, QuietWInv, QuietVInv DEF MInv, wvars, manifest, header, writing, process
<1>3. LinkUse /\ links \in Seq(Link) /\ client # 0 /\ DOMAIN links = 1 .. Len(links) /\ Len(links) \in Nat
  <2>1. LinkUse
    BY DEF MInv
  <2> QED
    BY <1>1, <2>1, LinkFacts DEF LinkUse
<1>4. client \in DOMAIN links /\ links[client] \in Link
  BY <1>3, LinkFacts
<1>5. /\ q \in Link /\ q.in = links[client].in /\ q.out = <<>> /\ q.sdk = FALSE
      /\ q.pid = links[client].pid
  <2>1. <<>> \in Seq(Reply)
    OBVIOUS
  <2> QED
    BY ZenonT(30), <1>4, <2>1 DEF Link
<1> HIDE DEF q
<1>6. /\ links' \in Seq(Link) /\ Len(links') = Len(links) /\ DOMAIN links' = DOMAIN links
      /\ links'[client] = q /\ \A k \in DOMAIN links : k # client => links'[k] = links[k]
  BY <1>1, <1>3, <1>4, <1>5, LinkUpdate
<1>7. \A k \in DOMAIN links : /\ links'[k].in = links[k].in /\ links'[k].pid = links[k].pid
                              /\ ~links'[k].sdk /\ links'[k].out = <<>>
  BY ZenonT(30), <1>3, <1>5, <1>6 DEF LinkUse
<1>8. AInv'
  BY ZenonT(30), <1>1, <1>6 DEF MInv, AInv, server, writing
<1>9. LinkUse'
  BY SMTT(30), <1>1, <1>3, <1>6, <1>7 DEF LinkUse, process
<1>10. Ownership'
  <2>1. ~Offered'
    BY Zenon, <1>1 DEF Offered
  <2>2. \A id, name : Owns(id, name) => Owns(id, name)'
    BY <1>1 DEF Owns, process
  <2> QED
    BY SMTT(30), <1>1, <1>6, <1>7, <2>1, <2>2 DEF MInv, Ownership, process
<1>11. Serving'
  <2> SUFFICES ASSUME wpc # "idle", reverifying = 0
               PROVE  Here' = Here /\ Here \in DOMAIN links
    BY <1>1, <1>7 DEF MInv, Serving, writing, process
  <2> QED
    BY SMTT(30), <1>1, <1>3 DEF MInv, AInv, Here, server
<1> QED
  BY <1>2, <1>8, <1>9, <1>10, <1>11 DEF MInv

\* Every link changes, in a way that keeps it a link.
LEMMA LinksUpdate ==
    ASSUME links \in Seq(Link), NEW g, links' = [l \in DOMAIN links |-> g[l]],
           \A l \in DOMAIN links : g[l] \in Link
    PROVE  /\ links' \in Seq(Link) /\ Len(links') = Len(links) /\ DOMAIN links' = DOMAIN links
           /\ \A l \in DOMAIN links : links'[l] = g[l]
<1>1. Len(links) \in Nat /\ DOMAIN links = 1 .. Len(links)
  OBVIOUS
<1>2. links' = [l \in 1 .. Len(links) |-> g[l]] /\ \A l \in 1 .. Len(links) : g[l] \in Link
  BY <1>1
<1>3. links' \in Seq(Link)
  BY <1>1, <1>2
<1> QED
  BY <1>1, <1>2, <1>3

\* The end of the workload closes its ends of the links, and nothing else.
LEMMA WorkloadDiesMInv == MInv /\ WorkloadDies => MInv'
<1> SUFFICES ASSUME MInv, WorkloadDies PROVE MInv'
  OBVIOUS
<1> DEFINE g == [l \in DOMAIN links |-> [links[l] EXCEPT !.sdk = FALSE, !.out = <<>>]]
<1>1. /\ alive' = FALSE /\ links' = g
      /\ client' = 0 /\ pending' = NoRequest /\ handles' = {}
      /\ UNCHANGED <<manifest, records, server, writing, pid, lastpid, swept>>
  BY ZenonT(30) DEF WorkloadDies
<1>2. WInv'
  BY ZenonT(30), <1>1, QuietWInv DEF MInv, wvars, manifest, header, writing
<1>3. VInv'
  BY ZenonT(30), <1>1 DEF MInv, VInv, writing
<1>4. LinkUse /\ links \in Seq(Link) /\ DOMAIN links = 1 .. Len(links) /\ Len(links) \in Nat
  <2>1. LinkUse
    BY DEF MInv
  <2> QED
    BY ZenonT(30), <2>1, LinkFacts DEF LinkUse
<1>5. \A l \in DOMAIN links :
         /\ g[l] \in Link /\ g[l].in = links[l].in /\ g[l].pid = links[l].pid
         /\ g[l].sdk = FALSE /\ g[l].out = <<>>
  <2> SUFFICES ASSUME NEW l \in DOMAIN links
               PROVE  /\ g[l] \in Link /\ g[l].in = links[l].in /\ g[l].pid = links[l].pid
                      /\ g[l].sdk = FALSE /\ g[l].out = <<>>
    BY ZenonT(30)
  <2>1. links[l] \in Link /\ <<>> \in Seq(Reply)
    BY SMTT(30), <1>4
  <2> QED
    BY ZenonT(30), <2>1 DEF Link
<1>6. links' = [l \in DOMAIN links |-> g[l]]
  BY ZenonT(30), <1>1
<1> HIDE DEF g
<1>7. /\ links' \in Seq(Link) /\ Len(links') = Len(links) /\ DOMAIN links' = DOMAIN links
      /\ \A l \in DOMAIN links : links'[l] = g[l]
  BY ZenonT(30), <1>4, <1>5, <1>6, LinksUpdate
<1>8. AInv'
  BY ZenonT(30), <1>1, <1>7 DEF MInv, AInv, server, writing
<1>9. LinkUse'
  BY SMTT(30), <1>1, <1>4, <1>5, <1>7 DEF LinkUse
<1>10. Ownership'
  <2>1. ~Offered'
    BY ZenonT(30), <1>1 DEF Offered
  <2> QED
    BY SMTT(30), <1>1, <1>5, <1>7, <2>1 DEF MInv, Ownership
<1>11. Serving'
  <2> SUFFICES ASSUME wpc # "idle", reverifying = 0
               PROVE  Here' = Here /\ Here \in DOMAIN links
    BY SMTT(30), <1>1, <1>5, <1>7 DEF MInv, Serving, writing
  <2> QED
    BY <1>1, <1>4 DEF MInv, AInv, Here, server
<1> QED
  BY SMTT(30), <1>2, <1>3, <1>8, <1>9, <1>10, <1>11 DEF MInv

\* A workload that is not there holds nothing and waits for nothing.
LEMMA NoWorkload ==
    ASSUME MInv, ~alive
    PROVE  client = 0 /\ pending = NoRequest /\ handles = {} /\ ~Offered
BY ZenonT(30) DEF MInv, LinkUse, Ownership, Offered

\* The agent reaps it.
LEMMA WorkloadReapedMInv == MInv /\ WorkloadReaped => MInv'
<1> SUFFICES ASSUME MInv, WorkloadReaped PROVE MInv'
  OBVIOUS
<1>1. /\ wpc = "idle" /\ ~alive /\ pid' = 0
      /\ UNCHANGED <<manifest, records, server, writing, alive, lastpid, links, sdk, swept>>
  BY Zenon DEF WorkloadReaped, AgentFree
<1>2. WInv'
  BY ZenonT(30), <1>1, QuietWInv DEF MInv, wvars, manifest, header, writing
<1>3. VInv' /\ AInv'
  BY <1>1 DEF MInv, VInv, AInv, writing, server
<1>4. client = 0 /\ pending = NoRequest /\ handles = {} /\ ~Offered
  BY ZenonT(30), <1>1, NoWorkload
<1>5. LinkUse'
  BY ZenonT(30), <1>1, <1>4 DEF MInv, LinkUse, sdk
<1>6. ~Offered'
  BY SMTT(30), <1>1, <1>4 DEF Offered, sdk
<1>7. Ownership'
  BY ZenonT(30), <1>1, <1>4, <1>6 DEF MInv, Ownership, sdk
<1>8. Serving'
  BY ZenonT(30), <1>1 DEF Serving, writing
<1> QED
  BY <1>2, <1>3, <1>5, <1>7, <1>8 DEF MInv

\* The agent starts the next one, under a process id that no link has.
LEMMA WorkloadStartsMInv == MInv /\ WorkloadStarts => MInv'
<1> SUFFICES ASSUME MInv, WorkloadStarts PROVE MInv'
  OBVIOUS
<1>1. /\ wpc = "idle" /\ reverifying = 0 /\ pid = 0
      /\ pid' = lastpid + 1 /\ lastpid' = lastpid + 1 /\ alive' = TRUE /\ swept' = FALSE
      /\ UNCHANGED <<manifest, records, server, writing, links, sdk>>
  BY DEF WorkloadStarts, AgentFree
<1>2. WInv'
  BY ZenonT(30), <1>1, QuietWInv DEF MInv, wvars, manifest, header, writing
<1>3. lastpid \in Nat \ {0} /\ ~alive
  BY ZenonT(30), <1>1 DEF MInv, VInv
<1>4. VInv'
  <2>1. \A i \in DOMAIN records : ~(i < 0)
    BY EntryFacts DEF MInv
  <2> QED
    BY SMTT(30), <1>1, <1>3, <2>1 DEF MInv, VInv, writing
<1>5. AInv'
  BY Zenon, <1>1 DEF MInv, AInv, writing, server
<1>6. client = 0 /\ pending = NoRequest /\ handles = {} /\ ~Offered
  BY Zenon, <1>3, NoWorkload
<1>7. LinkUse'
  <2>1. \A l \in DOMAIN links : links[l].pid \in 1 .. (lastpid + 1)
    BY SMTT(30), <1>3 DEF MInv, LinkUse
  <2> QED
    BY ZenonT(30), <1>1, <1>6, <2>1 DEF MInv, LinkUse, sdk
<1>8. ~Offered'
  BY SMTT(30), <1>1, <1>6 DEF Offered, sdk
<1>9. Ownership'
  BY ZenonT(30), <1>1, <1>6, <1>8 DEF MInv, Ownership, sdk
<1>10. Serving'
  BY Zenon, <1>1 DEF Serving, writing
<1> QED
  BY <1>2, <1>4, <1>5, <1>7, <1>9, <1>10 DEF MInv

-----------------------------------------------------------------------------
(***************************************************************************)
(* RegionIpc::service.                                                     *)
(***************************************************************************)
\* Accepting or dropping a link at the agent's end moves no message.
LEMMA AgentEndOnly ==
    ASSUME LinkUse, Ownership, links' \in Seq(Link), Len(links') = Len(links),
           DOMAIN links' = DOMAIN links,
           \A l \in DOMAIN links : /\ links'[l].pid = links[l].pid /\ links'[l].sdk = links[l].sdk
                                   /\ links'[l].in = links[l].in /\ links'[l].out = links[l].out,
           UNCHANGED <<records, process, sdk>>
    PROVE  LinkUse' /\ Ownership'
<1>1. client # 0 => client \in DOMAIN links
  BY SMTT(30), LinkFacts
<1>2. UNCHANGED <<records, pid, alive, lastpid, client, pending, handles>>
  BY ZenonT(30) DEF process, sdk
<1>3. LinkUse'
  BY ZenonT(30), <1>1, <1>2 DEF LinkUse
<1>4. pending # NoRequest => client # 0
  BY ZenonT(30) DEF LinkUse
<1>5. (Offered' <=> Offered) /\ (Offered => OfferedId' = OfferedId)
  BY ZenonT(30), <1>1, <1>2, <1>4 DEF Offered, OfferedId
<1>6. \A id, name : Owns(id, name) => Owns(id, name)'
  BY ZenonT(30), <1>2 DEF Owns
<1>7. Ownership'
  BY ZenonT(30), <1>2, <1>5, <1>6 DEF Ownership
<1> QED
  BY ZenonT(30), <1>3, <1>7

\* accept_pending: what is accepted is links of the backlog.
LEMMA ServiceMInv == MInv /\ Service => MInv'
<1> SUFFICES ASSUME MInv, Service PROVE MInv'
  OBVIOUS
<1> DEFINE room == MAX_CONNS - Len(conns)
           n == Min({room, Len(Backlog)})
           taken == SubSeq(Backlog, 1, n)
           g == [l \in DOMAIN links |->
                   IF links[l].agent # "backlog" THEN links[l]
                   ELSE [links[l] EXCEPT !.agent = IF l \in Range(taken) THEN "open"
                                                   ELSE "dropped"]]
<1>1. /\ wpc = "idle" /\ reverifying = 0 /\ conns' = conns \o taken /\ links' = g /\ si' = 1
      /\ UNCHANGED <<manifest, records, writing, process, sdk, swept>>
  BY Zenon DEF Service, AgentFree
<1>2. LinkUse /\ links \in Seq(Link) /\ DOMAIN links = 1 .. Len(links) /\ Len(links) \in Nat
  <2>1. LinkUse
    BY DEF MInv
  <2> QED
    BY ZenonT(30), <2>1, LinkFacts DEF LinkUse
<1>3. taken \in Seq(1 .. Len(links))
  <2> DEFINE ids == [l \in 1 .. Len(links) |-> l]
             S == {l \in DOMAIN links : links[l].agent = "backlog"}
  <2>1. ids \in Seq(1 .. Len(links))
    BY <1>2
  <2>2. Backlog = Keep(ids, S)
    BY DEF Backlog
  <2> HIDE DEF ids, S
  <2>3. Backlog \in Seq((1 .. Len(links)) \cap S)
    BY <2>1, <2>2, KeepTyped
  <2>4. Backlog \in Seq(1 .. Len(links))
    BY ZenonT(30), <2>3, SeqWiden
  <2>5. room \in Int /\ Len(Backlog) \in Nat /\ Len(Backlog) \in Int
    BY <2>4, ManifestAssumption DEF MInv, AInv
  <2> HIDE DEF room
  <2>6. n \in Int /\ n <= Len(Backlog)
    <3>1. n = IF room <= Len(Backlog) THEN room ELSE Len(Backlog)
      BY ZenonT(30), <2>5, MaxMinOfTwo
    <3> HIDE DEF n
    <3> QED
      BY <2>5, <3>1
  <2> HIDE DEF n
  <2>7. \A i \in 1 .. n : Backlog[i] \in 1 .. Len(links)
    BY <2>4, <2>5, <2>6
  <2> QED
    BY <2>6, <2>7
<1> HIDE DEF taken
<1>4. \A l \in DOMAIN links :
         /\ g[l] \in Link /\ g[l].in = links[l].in /\ g[l].pid = links[l].pid
         /\ g[l].sdk = links[l].sdk /\ g[l].out = links[l].out
  <2> SUFFICES ASSUME NEW l \in DOMAIN links
               PROVE  /\ g[l] \in Link /\ g[l].in = links[l].in /\ g[l].pid = links[l].pid
                      /\ g[l].sdk = links[l].sdk /\ g[l].out = links[l].out
    OBVIOUS
  <2> DEFINE a == IF l \in Range(taken) THEN "open" ELSE "dropped"
  <2>1. links[l] \in Link /\ a \in {"open", "dropped"}
    BY <1>2
  <2>2. g[l] = IF links[l].agent # "backlog" THEN links[l] ELSE [links[l] EXCEPT !.agent = a]
    OBVIOUS
  <2> HIDE DEF a, g
  <2> QED
    BY <2>1, <2>2 DEF Link
<1>5. links' = [l \in DOMAIN links |-> g[l]]
  BY Zenon, <1>1
<1> HIDE DEF g
<1>6. /\ links' \in Seq(Link) /\ Len(links') = Len(links) /\ DOMAIN links' = DOMAIN links
      /\ \A l \in DOMAIN links : links'[l] = g[l]
  BY ZenonT(30), <1>2, <1>4, <1>5, LinksUpdate
<1>7. LinkUse' /\ Ownership'
  BY ZenonT(30), <1>1, <1>2, <1>4, <1>6, AgentEndOnly DEF MInv
<1>8. WInv' /\ VInv'
  BY ZenonT(30), <1>1, QuietWInv, QuietVInv DEF MInv, wvars, manifest, header, writing, process
<1>9. AInv'
  <2>1. conns' \in Seq(1 .. Len(links))
    BY SMTT(30), <1>1, <1>3 DEF MInv, AInv
  <2> QED
    BY ZenonT(30), <1>1, <1>6, <2>1 DEF MInv, AInv, writing
<1>10. Serving'
  BY <1>1 DEF Serving, writing
<1> QED
  BY Zenon, <1>7, <1>8, <1>9, <1>10 DEF MInv

\* service goes on to the next connection.
LEMMA ServiceNextMInv == MInv /\ ServiceNext => MInv'
<1> SUFFICES ASSUME MInv, ServiceNext PROVE MInv'
  OBVIOUS
<1>1. /\ wpc = "idle" /\ si \in DOMAIN conns /\ si' = si + 1
      /\ UNCHANGED <<manifest, records, conns, writing, process, links, sdk, swept>>
  BY ZenonT(30) DEF ServiceNext
<1>2. WInv' /\ VInv' /\ LinkUse' /\ Ownership'
  BY ZenonT(30), <1>1, QuietWInv, QuietVInv, QuietLinkUse, QuietOwnership
     DEF MInv, wvars, manifest, header, writing, process, sdk
<1>3. AInv'
  BY SMTT(30), <1>1 DEF MInv, AInv, writing
<1>4. Serving'
  BY ZenonT(30), <1>1 DEF Serving, writing
<1> QED
  BY SMTT(30), <1>2, <1>3, <1>4 DEF MInv

\* The closed connections are retained no longer.
LEMMA ServiceDoneMInv == MInv /\ ServiceDone => MInv'
<1> SUFFICES ASSUME MInv, ServiceDone PROVE MInv'
  OBVIOUS
<1> DEFINE g == [l \in DOMAIN links |->
                   IF \E i \in closed : conns[i] = l THEN [links[l] EXCEPT !.agent = "dropped"]
                   ELSE links[l]]
           S == DOMAIN links \ {conns[i] : i \in closed}
<1>1. /\ si > Len(conns) /\ conns' = Keep(conns, S) /\ links' = g /\ si' = 0
      /\ UNCHANGED <<manifest, records, writing, process, sdk, swept>>
  BY ZenonT(30) DEF ServiceDone
<1>2. LinkUse /\ links \in Seq(Link) /\ DOMAIN links = 1 .. Len(links) /\ Len(links) \in Nat
  <2>1. LinkUse
    BY DEF MInv
  <2> QED
    BY SMTT(30), <2>1, LinkFacts DEF LinkUse
<1>3. /\ conns \in Seq(1 .. Len(links)) /\ wpc = "idle" /\ reverifying = 0
  <2>1. conns \in Seq(1 .. Len(links)) /\ si \in Nat
    BY DEF MInv, AInv
  <2>2. si # 0 /\ si \notin DOMAIN conns
    BY <1>1, <2>1
  <2> QED
    BY <2>1, <2>2 DEF MInv, AInv
<1>4. \A l \in DOMAIN links :
         /\ g[l] \in Link /\ g[l].in = links[l].in /\ g[l].pid = links[l].pid
         /\ g[l].sdk = links[l].sdk /\ g[l].out = links[l].out
  <2> SUFFICES ASSUME NEW l \in DOMAIN links
               PROVE  /\ g[l] \in Link /\ g[l].in = links[l].in /\ g[l].pid = links[l].pid
                      /\ g[l].sdk = links[l].sdk /\ g[l].out = links[l].out
    OBVIOUS
  <2>1. links[l] \in Link
    BY <1>2
  <2>2. g[l] = links[l] \/ g[l] = [links[l] EXCEPT !.agent = "dropped"]
    OBVIOUS
  <2> HIDE DEF g
  <2> QED
    BY <2>1, <2>2 DEF Link
<1>5. links' = [l \in DOMAIN links |-> g[l]]
  BY ZenonT(30), <1>1
<1> HIDE DEF g, S
<1>6. /\ links' \in Seq(Link) /\ Len(links') = Len(links) /\ DOMAIN links' = DOMAIN links
      /\ \A l \in DOMAIN links : links'[l] = g[l]
  BY <1>2, <1>4, <1>5, LinksUpdate
<1>7. LinkUse' /\ Ownership'
  BY ZenonT(30), <1>1, <1>2, <1>4, <1>6, AgentEndOnly DEF MInv
<1>8. WInv' /\ VInv'
  BY SMTT(30), <1>1, QuietWInv, QuietVInv DEF MInv, wvars, manifest, header, writing, process
<1>9. AInv'
  <2>1. conns' \in Seq((1 .. Len(links)) \cap S)
    BY <1>1, <1>3, KeepTyped
  <2>2. conns' \in Seq(1 .. Len(links))
    BY ZenonT(30), <2>1, SeqWiden
  <2> QED
    BY ZenonT(30), <1>1, <1>3, <1>6, <2>2 DEF MInv, AInv, writing
<1>10. Serving'
  BY SMTT(30), <1>1, <1>3 DEF Serving, writing
<1> QED
  BY <1>7, <1>8, <1>9, <1>10 DEF MInv

\* The answer takes the datagram off the link, and puts the reply on it when
\* somebody is there to read it: the workload, which waits for just this one.
AnsweredTo(l, status, id) ==
    /\ l = client /\ pending # NoRequest /\ links[l].in = <<encode_request(pending)>>
    /\ links'[l].in = <<>> /\ links'[l].out = <<encode_reply([status |-> status, region_id |-> id])>>
    /\ si' = si
AnsweredToNobody(l) ==
    /\ l # client /\ links'[l].in = Tail(links[l].in) /\ links'[l].out = links[l].out
    /\ si' = si + 1

\* Either somebody waits on the link for this reply, or nobody is there.
LEMMA AnswerFacts ==
    ASSUME MInv, si \in DOMAIN conns, links[Here].in # <<>>, NEW status \in Status,
           NEW id \in Slots, Answers(status, id)
    PROVE  /\ Here \in DOMAIN links
           /\ links' \in Seq(Link) /\ Len(links') = Len(links) /\ DOMAIN links' = DOMAIN links
           /\ \A k \in DOMAIN links : k # Here => links'[k] = links[k]
           /\ links'[Here].pid = links[Here].pid /\ links'[Here].sdk = links[Here].sdk
           /\ AnsweredTo(Here, status, id) \/ AnsweredToNobody(Here)
<1> DEFINE reply == encode_reply([status |-> status, region_id |-> id])
           l == Here
<1>0. LinkUse
  BY ZenonT(30) DEF MInv
<1>1. l \in DOMAIN links /\ links \in Seq(Link) /\ links[l] \in Link
  BY SMTT(30), <1>0, LinkFacts DEF MInv, AInv, LinkUse, Here
<1>2. reply \in Reply
  BY Zenon DEF Reply
<1>3. links[l].sdk \in BOOLEAN /\ links[l].in \in Seq(Datagram) /\ links[l].out \in Seq(Reply)
  BY Zenon, <1>0, <1>1, LinkFacts
<1>4. Tail(links[l].in) \in Seq(Datagram)
  BY SMTT(30), <1>3
<1>5. CASE links[l].sdk
  <2> DEFINE q == [links[l] EXCEPT !.in = Tail(@), !.out = Append(@, reply)]
  <2>1. links' = [links EXCEPT ![l] = q] /\ si' = si
    BY ZenonT(30), <1>5 DEF Answers
  <2>2. l = client /\ client # 0
    BY SMTT(30), <1>0, <1>1, <1>5, LinkFacts DEF LinkUse
  <2>3. pending # NoRequest /\ links[l].in = <<encode_request(pending)>> /\ links[l].out = <<>>
    BY ZenonT(30), <1>0, <2>2 DEF LinkUse
  <2>4. Tail(links[l].in) = <<>>
    BY SMTT(30), <2>3
  <2>5. Append(links[l].out, reply) = <<reply>>
    BY SMTT(30), <2>3
  <2>6. <<>> \in Seq(Datagram) /\ <<reply>> \in Seq(Reply)
    BY <1>2
  <2>7. q = [links[l] EXCEPT !.in = <<>>, !.out = <<reply>>]
    BY ZenonT(30), <2>4, <2>5
  <2> HIDE DEF reply, l
  <2>8. /\ q \in Link /\ q.in = <<>> /\ q.out = <<reply>> /\ q.pid = links[l].pid
        /\ q.sdk = links[l].sdk
    BY ZenonT(30), <1>1, <2>6, <2>7 DEF Link
  <2> HIDE DEF q
  <2>9. /\ links' \in Seq(Link) /\ Len(links') = Len(links) /\ DOMAIN links' = DOMAIN links
        /\ links'[l] = q /\ \A k \in DOMAIN links : k # l => links'[k] = links[k]
    BY <1>1, <2>1, <2>8, LinkUpdate
  <2> QED
    BY <1>1, <2>1, <2>2, <2>3, <2>8, <2>9 DEF AnsweredTo, l, reply
<1>6. CASE ~links[l].sdk
  <2> DEFINE q == [links[l] EXCEPT !.in = Tail(@)]
  <2>1. links' = [links EXCEPT ![l] = q] /\ si' = si + 1
    BY Zenon, <1>6 DEF Answers
  <2>2. l # client
    BY SMTT(30), <1>0, <1>1, <1>6, LinkFacts DEF LinkUse
  <2> HIDE DEF l
  <2>3. /\ q \in Link /\ q.in = Tail(links[l].in) /\ q.out = links[l].out /\ q.pid = links[l].pid
        /\ q.sdk = links[l].sdk
    BY ZenonT(30), <1>1, <1>4 DEF Link
  <2> HIDE DEF q
  <2>4. /\ links' \in Seq(Link) /\ Len(links') = Len(links) /\ DOMAIN links' = DOMAIN links
        /\ links'[l] = q /\ \A k \in DOMAIN links : k # l => links'[k] = links[k]
    BY <1>1, <2>1, <2>3, LinkUpdate
  <2> QED
    BY <1>1, <2>1, <2>2, <2>3, <2>4 DEF AnsweredToNobody, l
<1> QED
  BY ZenonT(30), <1>3, <1>5, <1>6

\* After an answer a link carries the pending request, the reply to it, or nothing.
LEMMA AnswerLinkUse ==
    ASSUME MInv, si \in DOMAIN conns, links[Here].in # <<>>, NEW status \in Status,
           NEW id \in Slots, Answers(status, id),
           UNCHANGED <<process, client, pending>>
    PROVE  LinkUse'
<1>0. LinkUse
  BY SMTT(30) DEF MInv
<1> DEFINE l == Here
<1>1. /\ l \in DOMAIN links
      /\ links' \in Seq(Link) /\ Len(links') = Len(links) /\ DOMAIN links' = DOMAIN links
      /\ \A k \in DOMAIN links : k # l => links'[k] = links[k]
      /\ links'[l].pid = links[l].pid /\ links'[l].sdk = links[l].sdk
      /\ AnsweredTo(l, status, id) \/ AnsweredToNobody(l)
  BY ZenonT(30), AnswerFacts
<1>2. UNCHANGED <<pid, alive, lastpid, client, pending>>
  BY SMTT(30) DEF process
<1> HIDE DEF l
<1>3. CASE AnsweredTo(l, status, id)
  <2>1. /\ l = client /\ pending # NoRequest
        /\ links'[l].in = <<>> /\ Len(links'[l].out) = 1
    BY ZenonT(30), <1>3 DEF AnsweredTo
  <2> QED
    BY ZenonT(30), <1>0, <1>1, <1>2, <2>1 DEF LinkUse
<1>4. CASE AnsweredToNobody(l)
  <2>1. l # client /\ links'[l].out = links[l].out
    BY Zenon, <1>4 DEF AnsweredToNobody
  <2>2. client # 0 => client \in DOMAIN links /\ links'[client] = links[client]
    BY ZenonT(30), <1>0, <1>1, <2>1, LinkFacts
  <2> QED
    BY ZenonT(30), <1>0, <1>1, <1>2, <2>1, <2>2 DEF LinkUse
<1> QED
  BY ZenonT(30), <1>1, <1>3, <1>4

\* What is still queued after an answer was queued before it.
LEMMA AnswerQueues ==
    ASSUME MInv, si \in DOMAIN conns, links[Here].in # <<>>, NEW status \in Status,
           NEW id \in Slots, Answers(status, id),
           NEW k \in DOMAIN links', NEW j \in DOMAIN links'[k].in
    PROVE  /\ k \in DOMAIN links /\ links'[k].pid = links[k].pid
           /\ \E i \in DOMAIN links[k].in : links'[k].in[j] = links[k].in[i]
<1> DEFINE l == Here
<1>1. /\ l \in DOMAIN links /\ DOMAIN links' = DOMAIN links
      /\ \A m \in DOMAIN links : m # l => links'[m] = links[m]
      /\ links'[l].pid = links[l].pid
      /\ AnsweredTo(l, status, id) \/ AnsweredToNobody(l)
  BY ZenonT(30), AnswerFacts
<1>2. links[l].in \in Seq(Datagram) /\ links[l].in # <<>>
  BY ZenonT(30), <1>1, LinkFacts DEF MInv
<1> HIDE DEF l
<1>3. CASE k # l
  BY ZenonT(30), <1>1, <1>3
<1>4. CASE k = l
  <2>1. links'[l].in = Tail(links[l].in)
    <3>1. CASE AnsweredTo(l, status, id)
      <4>1. links[l].in = <<encode_request(pending)>> /\ links'[l].in = <<>>
        BY Zenon, <3>1 DEF AnsweredTo
      <4> QED
        BY SMTT(30), <1>4, <4>1
    <3>2. CASE AnsweredToNobody(l)
      BY Zenon, <3>2 DEF AnsweredToNobody
    <3> QED
      BY ZenonT(30), <1>1, <3>1, <3>2
  <2>2. j \in 1 .. Len(Tail(links[l].in)) /\ Len(links[l].in) \in Nat
    BY SMTT(30), <1>2, <1>4, <2>1
  <2>3. j + 1 \in DOMAIN links[l].in /\ Tail(links[l].in)[j] = links[l].in[j + 1]
    BY <1>2, <2>2
  <2> QED
    BY ZenonT(30), <1>1, <1>4, <2>1, <2>3
<1> QED
  BY SMTT(30), <1>3, <1>4

\* RegionIpc::handle: the request is refused and answered, or its write begins.
LEMMA ServiceRecvMInv == \A pages \in PageMaps : MInv /\ ServiceRecv(pages) => MInv'
<1> SUFFICES ASSUME NEW pages \in PageMaps, MInv, ServiceRecv(pages) PROVE MInv'
  OBVIOUS
<1> DEFINE req == decode_request(Head(links[Here].in))
           walk == translate(links[Here].pid, pages)
           status == handle(req, links[Here].pid, walk)
<1>1. /\ wpc = "idle" /\ si \in DOMAIN conns /\ links[Here].in # <<>>
      /\ \/ /\ status # "OK" /\ Answers(status, 0) /\ UNCHANGED writing
         \/ /\ status = "OK"
            /\ op' = IF req.kind = "Register" THEN WriteRegion(req, walk.v) ELSE Dead(req.region_id)
            /\ wpc' = "begin" /\ UNCHANGED <<links, si, closed, reverifying>>
      /\ UNCHANGED <<manifest, records, conns, process, sdk, swept>>
  BY ZenonT(30) DEF ServiceRecv
<1>2. LinkUse /\ Here \in DOMAIN links /\ Head(links[Here].in) \in Datagram
  <2>1. LinkUse
    BY ZenonT(30) DEF MInv
  <2>2. Here \in DOMAIN links
    BY SMTT(30), <1>1, <2>1, LinkFacts DEF MInv, AInv, Here
  <2>3. links[Here].in \in Seq(Datagram)
    BY Zenon, <2>1, <2>2, LinkFacts
  <2> QED
    BY SMTT(30), <1>1, <2>1, <2>2, <2>3
<1>3. req \in Sendable /\ Head(links[Here].in) = encode_request(req)
  <2>1. PICK r \in Sendable : Head(links[Here].in) = encode_request(r)
    BY <1>2 DEF Datagram
  <2>2. decode_request(encode_request(r)) = r
    BY RequestCodec
  <2> QED
    BY Zenon, <2>1, <2>2
<1>4. Walked(walk)
  BY Zenon, TranslateTyped
<1>5. /\ status \in Status
      /\ status = "OK" =>
           /\ links[Here].pid = pid
           /\ req.kind = "Unregister" => LiveRecord(req.region_id)
           /\ req.kind = "Register" =>
                /\ walk.ok /\ region_count < REGION_CAPACITY
                /\ extent_count + Len(walk.v) <= EXTENT_CAPACITY
  BY ZenonT(30), <1>3, <1>4, HandleFacts DEF MInv
<1>6. reverifying = 0 /\ si \in Nat
  BY SMTT(30), <1>1 DEF MInv, AInv
<1> HIDE DEF req, walk, status
<1>7. CASE status # "OK"
  <2>1. Answers(status, 0) /\ UNCHANGED <<wpc, op, reverifying>>
    BY ZenonT(30), <1>1, <1>7 DEF writing
  <2>2. 0 \in Slots
    BY SMTT(30), ManifestAssumption DEF Slots
  <2>3. WInv' /\ VInv'
    BY ZenonT(30), <1>1, <2>1, QuietWInv, QuietVInv DEF MInv, wvars, manifest, header, process
  <2>4. LinkUse'
    BY ZenonT(30), <1>1, <1>5, <2>1, <2>2, AnswerLinkUse DEF sdk
  <2>5. /\ DOMAIN links' = DOMAIN links /\ Len(links') = Len(links)
        /\ \A k \in DOMAIN links : k # Here => links'[k] = links[k]
        /\ AnsweredTo(Here, status, 0) \/ AnsweredToNobody(Here)
    BY ZenonT(30), <1>1, <1>5, <2>1, <2>2, AnswerFacts
  <2>6. AInv'
    BY SMTT(30), <1>1, <1>6, <2>1, <2>5 DEF MInv, AInv, AnsweredTo, AnsweredToNobody
  <2>7. Offered' => Offered /\ OfferedId' = OfferedId
    <3>1. CASE AnsweredTo(Here, status, 0)
      <4>1. Here = client /\ links'[client].out[1] = encode_reply([status |-> status, region_id |-> 0])
        BY SMTT(30), <3>1 DEF AnsweredTo
      <4>2. decode_reply(links'[client].out[1]).status = status
        BY SMTT(30), <4>1, ReplyCodec
      <4> QED
        BY ZenonT(30), <1>1, <1>7, <4>2 DEF Offered, sdk
    <3>2. CASE AnsweredToNobody(Here)
      <4>1. pending # NoRequest => client \in DOMAIN links /\ client # Here
        BY ZenonT(30), <1>2, <3>2, LinkFacts DEF LinkUse, AnsweredToNobody
      <4> QED
        BY ZenonT(30), <1>1, <2>5, <4>1 DEF Offered, OfferedId, sdk
    <3> QED
      BY SMTT(30), <2>5, <3>1, <3>2
  <2>8. Ownership'
    <3>1. \A id, name : Owns(id, name) => Owns(id, name)'
      BY ZenonT(30), <1>1 DEF Owns, process
    <3>2. ASSUME NEW k \in DOMAIN links', NEW j \in DOMAIN links'[k].in, NEW id \in Slots,
                 links'[k].in[j] = encode_request(Unregistration(id))
          PROVE  /\ id + 1 \in DOMAIN records
                 /\ links'[k].pid = pid => /\ \A h \in handles : h.id # id
                                           /\ Offered => OfferedId # id
      <4>1. PICK i \in DOMAIN links[k].in : links'[k].in[j] = links[k].in[i]
        BY ZenonT(30), <1>1, <1>5, <2>1, <2>2, <3>2, AnswerQueues
      <4>2. k \in DOMAIN links /\ links'[k].pid = links[k].pid
        BY ZenonT(30), <1>1, <1>5, <2>1, <2>2, <3>2, AnswerQueues
      <4> QED
        BY ZenonT(30), <3>2, <4>1, <4>2 DEF MInv, Ownership
    <3> QED
      BY ZenonT(30), <1>1, <2>7, <3>1, <3>2 DEF MInv, Ownership, process, sdk
  <2>9. Serving'
    BY ZenonT(30), <1>1, <2>1 DEF Serving
  <2> QED
    BY ZenonT(30), <2>3, <2>4, <2>6, <2>8, <2>9 DEF MInv
<1>8. CASE status = "OK"
  <2>1. /\ op' = IF req.kind = "Register" THEN WriteRegion(req, walk.v) ELSE Dead(req.region_id)
        /\ wpc' = "begin" /\ UNCHANGED <<links, si, closed, reverifying, conns>>
    BY Zenon, <1>1, <1>8
  <2>2. LinkUse' /\ Ownership'
    BY SMTT(30), <1>1, <2>1, QuietLinkUse, QuietOwnership DEF MInv, process, sdk
  <2>3. Here' = Here /\ pid' = pid
    BY ZenonT(30), <1>1, <2>1 DEF Here, process
  <2>4. CASE req.kind = "Register"
    <3>1. PICK n \in Names \ {EmptyName} : req = Registration(n)
      BY ZenonT(30), <1>3, <2>4, SendableFacts
    <3>2. op' = WriteRegion(req, walk.v) /\ req.name = n /\ walk.v \in Seq(Extent)
      BY SMTT(30), <1>4, <1>5, <1>8, <2>1, <2>4, <3>1, SendableFacts DEF Walked
    <3>3. WInv'
      BY ZenonT(30), <1>1, <1>5, <1>8, <2>1, <2>4, <3>2, WriteRegionWInv DEF MInv
    <3>4. op'.kind = "register" /\ op'.entry.name = n
      BY SMTT(30), <3>2 DEF WriteRegion
    <3>5. AInv' /\ VInv'
      BY ZenonT(30), <1>1, <1>6, <2>1, <3>4 DEF MInv, AInv, VInv, process
    <3>6. Serving'
      BY ZenonT(30), <1>1, <1>3, <1>5, <1>8, <2>1, <2>3, <3>1, <3>4 DEF Serving
    <3> QED
      BY ZenonT(30), <2>2, <3>3, <3>5, <3>6 DEF MInv
  <2>5. CASE req.kind = "Unregister"
    <3>1. PICK id \in Slots : req = Unregistration(id)
      BY ZenonT(30), <1>3, <2>5, SendableFacts
    <3>2. op' = Dead(id) /\ LiveRecord(id) /\ id \in Nat
      BY SMTT(30), <1>5, <1>8, <2>1, <2>5, <3>1, SendableFacts DEF Slots
    <3>3. WInv'
      BY Zenon, <1>1, <2>1, <3>2, DeadWInv DEF MInv
    <3>4. op'.kind = "dead" /\ op'.id = id
      BY Zenon, <3>2 DEF Dead
    <3>5. AInv' /\ VInv'
      BY ZenonT(30), <1>1, <1>6, <2>1, <3>4 DEF MInv, AInv, VInv, process
    <3>6. Serving'
      BY ZenonT(30), <1>1, <1>3, <1>5, <1>8, <2>1, <2>3, <3>1, <3>4 DEF Serving
    <3> QED
      BY ZenonT(30), <2>2, <3>3, <3>5, <3>6 DEF MInv
  <2> QED
    BY ZenonT(30), <1>3, <2>4, <2>5, SendableFacts
<1> QED
  BY SMTT(30), <1>7, <1>8

-----------------------------------------------------------------------------
(***************************************************************************)
(* RegionIpc::reverify.                                                    *)
(***************************************************************************)
\* A sweep begins before the first record.
LEMMA ReverifyRegionsMInv == MInv /\ ReverifyRegions => MInv'
<1> SUFFICES ASSUME MInv, ReverifyRegions PROVE MInv'
  OBVIOUS
<1>1. /\ wpc = "idle" /\ si = 0 /\ reverifying = 0 /\ reverifying' = 1
      /\ UNCHANGED <<manifest, records, server, wpc, op, process, links, sdk, swept>>
  BY Zenon DEF ReverifyRegions, AgentFree
<1>2. WInv' /\ LinkUse' /\ Ownership'
  BY SMTT(30), <1>1, QuietWInv, QuietLinkUse, QuietOwnership
     DEF MInv, wvars, manifest, header, process, sdk
<1>3. AInv' /\ Serving'
  BY ZenonT(30), <1>1 DEF MInv, AInv, Serving, server
<1>4. VInv'
  <2>1. \A i \in DOMAIN records : ~(i < 1)
    BY EntryFacts DEF MInv
  <2> QED
    BY ZenonT(30), <1>1, <2>1 DEF MInv, VInv, process
<1> QED
  BY ZenonT(30), <1>2, <1>3, <1>4 DEF MInv

\* A record is passed: it is dead, or its pages were walked, which only those of
\* a live workload can be.  One that drifted is rewritten or marked dead.
LEMMA ReverifyNextMInv == \A pages \in PageMaps : MInv /\ ReverifyNext(pages) => MInv'
<1> SUFFICES ASSUME NEW pages \in PageMaps, MInv, ReverifyNext(pages) PROVE MInv'
  OBVIOUS
<1> DEFINE id == reverifying - 1
           walk == translate(records[reverifying].pid, pages)
<1>1. /\ wpc = "idle" /\ reverifying \in DOMAIN records
      /\ IF records[reverifying].dead \/ ~Drifted(id, walk)
         THEN reverifying' = reverifying + 1 /\ UNCHANGED <<wpc, op>>
         ELSE /\ op' = IF walk.ok /\ RewriteFits(id, walk.v) THEN Rewrite(id, walk.v) ELSE Dead(id)
              /\ wpc' = "begin" /\ UNCHANGED reverifying
      /\ UNCHANGED <<manifest, records, server, process, links, sdk, swept>>
  BY Zenon DEF ReverifyNext
<1>2. LinkUse' /\ Ownership'
  BY ZenonT(30), <1>1, QuietLinkUse, QuietOwnership DEF MInv, process, sdk
<1>3. /\ reverifying \in Nat \ {0} /\ id \in Nat /\ id + 1 = reverifying /\ si = 0
      /\ \A i \in DOMAIN records : i \in Nat
  <2>1. \A i \in DOMAIN records : i \in Nat /\ i # 0
    BY SMTT(30), EntryFacts DEF MInv
  <2> QED
    BY SMTT(30), <1>1, <2>1 DEF MInv, AInv
<1>4. Walked(walk) /\ (walk.ok => records[reverifying].pid = lastpid)
  <2>1. Walked(walk) /\ (walk.ok => records[reverifying].pid = pid /\ alive)
    BY Zenon, TranslateTyped
  <2> QED
    BY ZenonT(30), <2>1 DEF MInv, VInv
<1> HIDE DEF walk
<1>5. CASE records[reverifying].dead \/ ~Drifted(id, walk)
  <2>1. reverifying' = reverifying + 1 /\ UNCHANGED <<wpc, op>>
    BY ZenonT(30), <1>1, <1>5
  <2>2. records[reverifying].dead \/ records[reverifying].pid = lastpid
    BY ZenonT(30), <1>4, <1>5 DEF Drifted
  <2>3. WInv'
    BY ZenonT(30), <1>1, <2>1, QuietWInv DEF MInv, wvars, manifest, header
  <2>4. AInv' /\ Serving'
    BY SMTT(30), <1>1, <1>3, <2>1 DEF MInv, AInv, Serving, server
  <2>5. \A i \in DOMAIN records : i < reverifying + 1 => i < reverifying \/ i = reverifying
    BY SMTT(30), <1>3
  <2>6. VInv'
    BY ZenonT(30), <1>1, <2>1, <2>2, <2>5 DEF MInv, VInv, process
  <2> QED
    BY ZenonT(30), <1>2, <2>3, <2>4, <2>6 DEF MInv
<1>6. CASE ~(records[reverifying].dead \/ ~Drifted(id, walk))
  <2>1. /\ op' = IF walk.ok /\ RewriteFits(id, walk.v) THEN Rewrite(id, walk.v) ELSE Dead(id)
        /\ wpc' = "begin" /\ UNCHANGED reverifying
    BY ZenonT(30), <1>1, <1>6
  <2>2. LiveRecord(id)
    BY <1>1, <1>3, <1>6 DEF LiveRecord
  <2> HIDE DEF id
  <2>3. CASE walk.ok /\ RewriteFits(id, walk.v)
    <3>1. op' = Rewrite(id, walk.v) /\ walk.v \in Seq(Extent)
      BY ZenonT(30), <1>4, <2>1, <2>3 DEF Walked
    <3>2. WInv'
      BY <1>1, <1>3, <2>1, <2>2, <2>3, <3>1, RewriteWInv DEF MInv
    <3>3. op'.kind = "rewrite" /\ op'.id = id
      BY SMTT(30), <3>1 DEF Rewrite
    <3>4. AInv' /\ VInv' /\ Serving'
      BY ZenonT(30), <1>1, <1>3, <1>4, <2>1, <2>3, <3>3 DEF MInv, AInv, VInv, Serving, server, process, id
    <3> QED
      BY ZenonT(30), <1>2, <3>2, <3>4 DEF MInv
  <2>4. CASE ~(walk.ok /\ RewriteFits(id, walk.v))
    <3>1. op' = Dead(id)
      BY ZenonT(30), <2>1, <2>4
    <3>2. WInv'
      BY <1>1, <1>3, <2>1, <2>2, <3>1, DeadWInv DEF MInv
    <3>3. op'.kind = "dead" /\ op'.id = id
      BY SMTT(30), <3>1 DEF Dead
    <3>4. AInv' /\ VInv' /\ Serving'
      BY ZenonT(30), <1>1, <1>3, <2>1, <3>3 DEF MInv, AInv, VInv, Serving, server, process, id
    <3> QED
      BY <1>2, <3>2, <3>4 DEF MInv
  <2> QED
    BY ZenonT(30), <2>3, <2>4
<1> QED
  BY ZenonT(30), <1>5, <1>6

\* A sweep ends behind the last record.
LEMMA ReverifyDoneMInv == MInv /\ ReverifyDone => MInv'
<1> SUFFICES ASSUME MInv, ReverifyDone PROVE MInv'
  OBVIOUS
<1>1. /\ wpc = "idle" /\ reverifying > Len(records) /\ reverifying' = 0 /\ swept' = TRUE
      /\ UNCHANGED <<manifest, records, server, wpc, op, process, links, sdk>>
  BY Zenon DEF ReverifyDone
<1>2. WInv' /\ LinkUse' /\ Ownership'
  BY SMTT(30), <1>1, QuietWInv, QuietLinkUse, QuietOwnership
     DEF MInv, wvars, manifest, header, process, sdk
<1>3. AInv' /\ Serving'
  BY ZenonT(30), <1>1 DEF MInv, AInv, Serving, server
<1>4. VInv'
  <2>1. \A i \in DOMAIN records : i < reverifying
    <3>1. \A i \in DOMAIN records : i \in Nat /\ i <= Len(records)
      BY SMTT(30), EntryFacts DEF MInv
    <3>2. Len(records) \in Nat /\ reverifying \in Nat
      BY ZenonT(30), EntryFacts DEF MInv, AInv
    <3> QED
      BY SMTT(30), <1>1, <3>1, <3>2
  <2> QED
    BY ZenonT(30), <1>1, <2>1 DEF MInv, VInv, process
<1> QED
  BY <1>2, <1>3, <1>4 DEF MInv

-----------------------------------------------------------------------------
(***************************************************************************)
(* The write itself, and what follows it.                                  *)
(***************************************************************************)
\* Nobody outside the manifest sees a write going on.
LEMMA WriteMInv == MInv /\ Write => MInv'
<1> SUFFICES ASSUME MInv, Write PROVE MInv'
  OBVIOUS
<1>1. UNCHANGED <<records, server, process, links, sdk, swept>>
  BY Zenon DEF Write
<1>2. WInv'
  BY ZenonT(30), BeginWInv, WriteExtentWInv, WriteEntryWInv, WriteHeaderWInv, EndWInv DEF MInv, Write
<1>3. /\ wpc # "idle" /\ wpc' # "idle" /\ reverifying' = reverifying
      /\ op'.kind = op.kind /\ op'.id = op.id /\ op'.entry = op.entry
  <2>1. wpc # "idle"
    BY Zenon DEF Write, Begin, WriteExtent, WriteEntry, WriteHeader, End
  <2>2. op \in Op
    BY <2>1, OpFacts DEF MInv
  <2>3. op' = op \/ op' = [op EXCEPT !.w = @ + 1]
    BY DEF Write, Begin, WriteExtent, WriteEntry, WriteHeader, End
  <2>4. op'.kind = op.kind /\ op'.id = op.id /\ op'.entry = op.entry
    BY <2>2, <2>3 DEF Op
  <2>5. wpc' # "idle" /\ reverifying' = reverifying
    BY Zenon DEF Write, Begin, WriteExtent, WriteEntry, WriteHeader, End
  <2> QED
    BY <2>1, <2>4, <2>5
<1>4. LinkUse' /\ Ownership'
  BY ZenonT(30), <1>1, QuietLinkUse, QuietOwnership DEF MInv, process, sdk
<1>5. AInv'
  BY ZenonT(30), <1>1, <1>3 DEF MInv, AInv, server
<1>6. VInv'
  BY ZenonT(30), <1>1, <1>3 DEF MInv, VInv, process
<1>7. Here' = Here
  BY ZenonT(30), <1>1 DEF Here, server
<1>8. Serving'
  BY ZenonT(30), <1>1, <1>3, <1>7 DEF MInv, Serving, process
<1> QED
  BY <1>2, <1>4, <1>5, <1>6, <1>8 DEF MInv

\* A region stays its owner's, unless the write is the owner's own unregistration.
LEMMA OwnsKept ==
    ASSUME WInv, wpc = "after", NEW owner \in Nat, records' = Ledger(owner), pid' = pid,
           NEW id \in Slots, NEW name, Owns(id, name),
           op.id = id => op.kind # "dead" \/ reverifying # 0
    PROVE  Owns(id, name)'
<1>1. /\ DOMAIN records \subseteq DOMAIN records'
      /\ \A i \in DOMAIN records : i - 1 # op.id => records'[i] = records[i]
      /\ op.kind = "register" => op.id = Len(records)
      /\ op.kind = "rewrite" =>
           records'[op.id + 1] = [records[op.id + 1] EXCEPT !.exts = op.exts]
      /\ op.kind = "dead" =>
           records'[op.id + 1] = [records[op.id + 1] EXCEPT !.dead = TRUE,
                                                            !.lost = (reverifying # 0)]
  BY ZenonT(30), LedgerFacts
<1>2. /\ id + 1 \in DOMAIN records /\ records[id + 1].pid = pid /\ records[id + 1].name = name
      /\ records[id + 1].dead => records[id + 1].lost
  BY Zenon DEF Owns
<1>3. /\ id \in Nat /\ id + 1 - 1 = id /\ records[id + 1] \in Record /\ id + 1 <= Len(records)
      /\ Len(records) \in Nat /\ op.kind \in {"register", "rewrite", "dead"}
  <2>1. records[id + 1] \in Record /\ id + 1 <= Len(records) /\ Len(records) \in Nat
    BY SMTT(30), <1>2, EntryFacts
  <2>2. op.kind \in {"register", "rewrite", "dead"}
    BY Zenon, OpFacts
  <2> QED
    BY <2>1, <2>2 DEF Slots
<1>4. CASE op.id # id
  BY SMTT(30), <1>1, <1>2, <1>3, <1>4 DEF Owns
<1>5. CASE op.id = id
  <2>1. op.kind # "register"
    BY <1>1, <1>3, <1>5
  <2>2. CASE op.kind = "rewrite"
    <3>1. /\ records'[id + 1].pid = records[id + 1].pid
          /\ records'[id + 1].name = records[id + 1].name
          /\ records'[id + 1].dead = records[id + 1].dead
          /\ records'[id + 1].lost = records[id + 1].lost
      BY <1>1, <1>3, <1>5, <2>2 DEF Record
    <3> QED
      BY Zenon, <1>1, <1>2, <3>1 DEF Owns
  <2>3. CASE op.kind = "dead"
    <3>0. (reverifying # 0) = TRUE
      BY <1>5, <2>3
    <3>1. records'[id + 1] = [records[id + 1] EXCEPT !.dead = TRUE, !.lost = TRUE]
      BY ZenonT(30), <1>1, <1>5, <2>3, <3>0
    <3>2. /\ records'[id + 1].pid = records[id + 1].pid
          /\ records'[id + 1].name = records[id + 1].name
          /\ records'[id + 1].lost = TRUE
      BY ZenonT(30), <1>3, <3>1 DEF Record
    <3> QED
      BY ZenonT(30), <1>1, <1>2, <3>2 DEF Owns
  <2> QED
    BY Zenon, <1>3, <2>1, <2>2, <2>3
<1> QED
  BY Zenon, <1>4, <1>5

\* The end of a write that a request asked for: the ledger, and the reply.
LEMMA AfterRequestMInv == MInv /\ After /\ reverifying = 0 => MInv'
<1> SUFFICES ASSUME MInv, After, reverifying = 0 PROVE MInv'
  BY Zenon
<1> DEFINE owner == links[Here].pid
<1>1. /\ wpc = "after" /\ records' = Ledger(owner) /\ Answers("OK", op.id)
      /\ reverifying' = reverifying /\ wpc' = "idle"
      /\ UNCHANGED <<manifest, conns, process, sdk, swept>>
  BY Zenon DEF After
<1>2. UNCHANGED <<pid, alive, lastpid, client, pending, handles>>
  BY ZenonT(30), <1>1 DEF process, sdk
<1>3. /\ si \in DOMAIN conns /\ op.kind # "rewrite" /\ links[Here].in # <<>> /\ owner = pid
      /\ Head(links[Here].in) = encode_request(IF op.kind = "register"
                                               THEN Registration(op.entry.name)
                                               ELSE Unregistration(op.id))
  BY ZenonT(30), <1>1 DEF MInv, AInv, Serving
<1>4. /\ WInv /\ op.kind \in {"register", "dead"} /\ op.id \in Slots /\ op.id \in Nat
      /\ LinkUse /\ Ownership
  BY ZenonT(30), <1>1, <1>3, OpFacts DEF MInv
<1>5. "OK" \in Status
  BY Zenon DEF Status
<1>6. /\ Here \in DOMAIN links /\ DOMAIN links' = DOMAIN links /\ Len(links') = Len(links)
      /\ \A k \in DOMAIN links : k # Here => links'[k] = links[k]
      /\ AnsweredTo(Here, "OK", op.id) \/ AnsweredToNobody(Here)
  BY ZenonT(30), <1>1, <1>3, <1>4, <1>5, AnswerFacts
<1>7. owner \in Nat /\ owner = lastpid
  <2>1. owner \in 1 .. lastpid /\ lastpid \in Nat /\ pid \in {0, lastpid}
    BY ZenonT(30), <1>4, <1>6 DEF MInv, VInv, LinkUse
  <2> QED
    BY SMTT(30), <1>3, <2>1
<1> HIDE DEF owner
<1>8. WInv'
  BY ZenonT(30), <1>1, <1>4, <1>7, AfterWInv
<1>9. LinkUse'
  BY ZenonT(30), <1>1, <1>3, <1>4, <1>5, AnswerLinkUse DEF sdk
<1>10. AInv'
  <2>1. si' \in Nat
    BY SMTT(30), <1>6 DEF MInv, AInv, AnsweredTo, AnsweredToNobody
  <2> QED
    BY ZenonT(30), <1>1, <1>6, <2>1 DEF MInv, AInv
<1>11. /\ DOMAIN records \subseteq DOMAIN records' /\ op.id + 1 \in DOMAIN records'
       /\ \A i \in DOMAIN records : i - 1 # op.id => records'[i] = records[i]
       /\ records' \in Seq(Record)
       /\ Len(records') = Len(records) + IF op.kind = "register" THEN 1 ELSE 0
  BY ZenonT(30), <1>1, <1>4, <1>7, LedgerFacts
<1>12. /\ op.kind = "register" =>
            /\ op.id = Len(records)
            /\ records'[op.id + 1] = [pid |-> owner, name |-> op.entry.name, exts |-> op.exts,
                                      dead |-> FALSE, lost |-> FALSE]
       /\ op.kind = "dead" =>
            records'[op.id + 1] = [records[op.id + 1] EXCEPT !.dead = TRUE,
                                                             !.lost = (reverifying # 0)]
  BY ZenonT(30), <1>1, <1>4, <1>7, LedgerFacts
<1>13. Len(records) \in Nat /\ DOMAIN records = 1 .. Len(records)
  BY ZenonT(30), <1>4, EntryFacts
<1>14. VInv'
  <2>1. ASSUME NEW i \in DOMAIN records', swept \/ i < reverifying
        PROVE  records'[i].dead \/ records'[i].pid = lastpid
    <3>1. i \in Nat /\ (i - 1 # op.id => i \in DOMAIN records) /\ (i - 1 = op.id => i = op.id + 1)
      BY SMTT(30), <1>4, <1>11, <1>12, <1>13
    <3>2. CASE i - 1 # op.id
      BY Zenon, <1>11, <2>1, <3>1, <3>2 DEF MInv, VInv
    <3>3. CASE i - 1 = op.id /\ op.kind = "register"
      BY <1>7, <1>12, <3>1, <3>3
    <3>4. CASE i - 1 = op.id /\ op.kind = "dead"
      <4>1. records[op.id + 1] \in Record
        BY ZenonT(30), <1>1, <1>4, <3>4, EntryFacts, OpTarget
      <4>2. records'[i].dead = TRUE
        BY ZenonT(30), <1>12, <3>1, <3>4, <4>1 DEF Record
      <4> QED
        BY Zenon, <4>2
    <3> QED
      BY ZenonT(30), <1>4, <3>2, <3>3, <3>4
  <2> QED
    BY ZenonT(30), <1>1, <1>2, <2>1 DEF MInv, VInv
<1>15. Ownership'
  <2>1. ASSUME NEW id \in Slots, NEW name, Owns(id, name),
               op.kind = "dead" => op.id # id
        PROVE  Owns(id, name)'
    BY SMTT(30), <1>1, <1>2, <1>4, <1>7, <2>1, OwnsKept
  <2>2. op.kind = "dead" => /\ \A h \in handles : h.id # op.id
                            /\ Offered => OfferedId # op.id
    <3>1. links[Here].in \in Seq(Datagram)
      BY ZenonT(30), <1>4, <1>6, LinkFacts
    <3>2. 1 \in DOMAIN links[Here].in /\ links[Here].in[1] = Head(links[Here].in)
      BY SMTT(30), <1>3, <3>1
    <3> QED
      BY ZenonT(30), <1>3, <1>4, <1>6, <3>2 DEF Ownership, owner
  <2>3. \A h \in handles : Owns(h.id, h.name)'
    BY ZenonT(30), <1>4, <2>1, <2>2 DEF Ownership
  <2>4. /\ \A h \in handles : h.id + 1 \in DOMAIN records /\ h.id \in Nat
    BY SMTT(30), <1>4 DEF Ownership, Owns, Slots
  <2>5. CASE AnsweredTo(Here, "OK", op.id)
    <3>1. /\ Here = client /\ pending # NoRequest /\ links[Here].in = <<encode_request(pending)>>
          /\ links'[client].out[1] = encode_reply([status |-> "OK", region_id |-> op.id])
      BY SMTT(30), <2>5 DEF AnsweredTo
    <3>2. OfferedId' = op.id
      BY SMTT(30), <1>2, <3>1, ReplyCodec DEF OfferedId
    <3>3. Offered' => op.kind = "register" /\ pending = Registration(op.entry.name)
      <4> SUFFICES ASSUME Offered' PROVE op.kind = "register" /\ pending = Registration(op.entry.name)
        BY Zenon
      <4>1. pending.kind = "Register" /\ pending \in Sendable
        BY ZenonT(30), <1>2, <1>4, <3>1 DEF Offered, LinkUse
      <4>2. Head(links[Here].in) = encode_request(pending)
        BY SMTT(30), <3>1
      <4>3. CASE op.kind = "dead"
        <5>1. encode_request(pending) = encode_request(Unregistration(op.id))
          BY ZenonT(30), <1>3, <4>2, <4>3
        <5>2. pending = Unregistration(op.id)
          BY ZenonT(30), <1>4, <4>1, <5>1, RequestsDiffer, SendableFacts
        <5> QED
          BY ZenonT(30), <4>1, <5>2, SendableFacts
      <4>4. CASE op.kind = "register"
        <5>1. encode_request(pending) = encode_request(Registration(op.entry.name))
          BY ZenonT(30), <1>3, <4>2, <4>4
        <5>2. op.entry.name \in Names
          BY ZenonT(30), <1>1, <1>4, <4>4 DEF WInv, OpFits
        <5>3. op.entry.name # EmptyName
          BY ZenonT(30), <4>1, <5>1, RequestCodec, EmptyNameRefused
        <5>4. pending = Registration(op.entry.name)
          BY ZenonT(30), <4>1, <5>1, <5>2, <5>3, RequestsDiffer, SendableFacts
        <5> QED
          BY ZenonT(30), <4>4, <5>4
      <4> QED
        BY Zenon, <1>4, <4>3, <4>4
    <3>4. Offered' => Owns(OfferedId, pending.name)'
      <4> SUFFICES ASSUME Offered' PROVE Owns(OfferedId, pending.name)'
        BY Zenon
      <4>1. pending.name = op.entry.name
        BY ZenonT(30), <3>3, SendableFacts
      <4>2. /\ records'[op.id + 1].pid = owner /\ records'[op.id + 1].name = op.entry.name
            /\ records'[op.id + 1].dead = FALSE
        BY <1>12, <3>3
      <4> QED
        BY ZenonT(30), <1>2, <1>3, <1>11, <3>2, <4>1, <4>2 DEF Owns, owner
    <3>5. Offered' => \A id \in Nat : id + 1 \in DOMAIN records => id # op.id
      BY <1>12, <1>13, <3>3
    <3>6. \A id \in Slots : id \in Nat
      BY SMTT(30) DEF Slots
    <3>7. ASSUME NEW k \in DOMAIN links', NEW j \in DOMAIN links'[k].in, NEW id \in Slots,
                 links'[k].in[j] = encode_request(Unregistration(id))
          PROVE  /\ id + 1 \in DOMAIN records
                 /\ links'[k].pid = pid => \A h \in handles : h.id # id
      <4>1. PICK i \in DOMAIN links[k].in : links'[k].in[j] = links[k].in[i]
        BY ZenonT(30), <1>1, <1>3, <1>4, <1>5, <3>7, AnswerQueues
      <4>2. k \in DOMAIN links /\ links'[k].pid = links[k].pid
        BY ZenonT(30), <1>1, <1>3, <1>4, <1>5, <3>7, AnswerQueues
      <4> QED
        BY ZenonT(30), <1>4, <3>7, <4>1, <4>2 DEF Ownership
    <3> QED
      BY ZenonT(30), <1>2, <1>4, <1>11, <2>3, <2>4, <3>2, <3>4, <3>5, <3>6, <3>7 DEF Ownership
  <2>6. CASE AnsweredToNobody(Here)
    <3>1. pending # NoRequest => client \in DOMAIN links /\ client # Here
      BY ZenonT(30), <1>4, <2>6, LinkFacts DEF LinkUse, AnsweredToNobody
    <3>2. Offered' => Offered /\ OfferedId' = OfferedId
      BY ZenonT(30), <1>2, <1>6, <3>1 DEF Offered, OfferedId
    <3>3. Offered => OfferedId \in Slots
      <4> SUFFICES ASSUME Offered PROVE OfferedId \in Slots
        OBVIOUS
      <4>1. links[client].out \in Seq(Reply) /\ links[client].out # <<>>
        BY ZenonT(30), <1>4, <3>1, LinkFacts DEF Offered
      <4>2. links[client].out[1] \in Reply
        BY <4>1
      <4>3. PICK r \in [status : Status, region_id : Slots] : links[client].out[1] = encode_reply(r)
        BY Zenon, <4>2 DEF Reply
      <4>4. r = [status |-> r.status, region_id |-> r.region_id]
        BY SMTT(30), <4>3
      <4> QED
        BY SMTT(30), <4>3, <4>4, ReplyCodec DEF OfferedId
    <3>4. Offered' => Owns(OfferedId, pending.name)'
      BY ZenonT(30), <1>2, <1>4, <2>1, <2>2, <3>2, <3>3 DEF Ownership
    <3>5. ASSUME NEW k \in DOMAIN links', NEW j \in DOMAIN links'[k].in, NEW id \in Slots,
                 links'[k].in[j] = encode_request(Unregistration(id))
          PROVE  /\ id + 1 \in DOMAIN records
                 /\ links'[k].pid = pid => /\ \A h \in handles : h.id # id
                                           /\ Offered => OfferedId # id
      <4>1. PICK i \in DOMAIN links[k].in : links'[k].in[j] = links[k].in[i]
        BY ZenonT(30), <1>1, <1>3, <1>4, <1>5, <3>5, AnswerQueues
      <4>2. k \in DOMAIN links /\ links'[k].pid = links[k].pid
        BY ZenonT(30), <1>1, <1>3, <1>4, <1>5, <3>5, AnswerQueues
      <4> QED
        BY ZenonT(30), <1>4, <3>5, <4>1, <4>2 DEF Ownership
    <3> QED
      BY ZenonT(30), <1>2, <1>4, <1>11, <2>3, <3>2, <3>4, <3>5 DEF Ownership
  <2> QED
    BY ZenonT(30), <1>6, <2>5, <2>6
<1>16. Serving'
  BY ZenonT(30), <1>1 DEF Serving
<1> QED
  BY <1>8, <1>9, <1>10, <1>14, <1>15, <1>16 DEF MInv

\* The end of a write that the sweep made: it goes on behind the region.
LEMMA AfterSweepMInv == MInv /\ After /\ reverifying # 0 => MInv'
<1> SUFFICES ASSUME MInv, After, reverifying # 0 PROVE MInv'
  BY SMTT(30)
<1>1. /\ wpc = "after" /\ records' = Ledger(0) /\ reverifying' = reverifying + 1 /\ wpc' = "idle"
      /\ UNCHANGED <<links, si, closed, conns>>
      /\ UNCHANGED <<manifest, process, sdk, swept>>
  BY ZenonT(30) DEF After
<1>2. UNCHANGED <<pid, alive, lastpid, client, pending, handles>>
  BY ZenonT(30), <1>1 DEF process, sdk
<1>3. /\ WInv /\ op.kind \in {"rewrite", "dead"} /\ op.id = reverifying - 1 /\ reverifying \in Nat
      /\ si = 0
  BY ZenonT(30), <1>1, OpFacts DEF MInv, AInv
<1>4. WInv'
  BY ZenonT(30), <1>1, <1>3, AfterWInv
<1>5. LinkUse'
  BY ZenonT(30), <1>1, <1>2, QuietLinkUse DEF MInv
<1>6. AInv' /\ Serving'
  BY <1>1, <1>3 DEF MInv, AInv, Serving
<1>7. /\ DOMAIN records \subseteq DOMAIN records' /\ Len(records') = Len(records)
      /\ records' \in Seq(Record)
      /\ \A i \in DOMAIN records : i - 1 # op.id => records'[i] = records[i]
      /\ op.kind = "rewrite" =>
           records'[op.id + 1] = [records[op.id + 1] EXCEPT !.exts = op.exts]
      /\ op.kind = "dead" =>
           records'[op.id + 1] = [records[op.id + 1] EXCEPT !.dead = TRUE,
                                                            !.lost = (reverifying # 0)]
  <2>1. /\ DOMAIN records \subseteq DOMAIN records' /\ records' \in Seq(Record)
        /\ Len(records') = Len(records) + IF op.kind = "register" THEN 1 ELSE 0
        /\ \A i \in DOMAIN records : i - 1 # op.id => records'[i] = records[i]
        /\ op.kind = "rewrite" =>
             records'[op.id + 1] = [records[op.id + 1] EXCEPT !.exts = op.exts]
        /\ op.kind = "dead" =>
             records'[op.id + 1] = [records[op.id + 1] EXCEPT !.dead = TRUE,
                                                              !.lost = (reverifying # 0)]
    BY ZenonT(30), <1>1, <1>3, LedgerFacts
  <2>2. Len(records) \in Nat
    BY Zenon, <1>3, EntryFacts
  <2> QED
    BY <1>3, <2>1, <2>2
<1>8. /\ op.id + 1 \in DOMAIN records /\ op.id + 1 = reverifying /\ records[op.id + 1] \in Record
  BY SMTT(30), <1>1, <1>3, EntryFacts, OpTarget
<1>9. DOMAIN records' = DOMAIN records /\ \A i \in DOMAIN records : i \in Nat
  BY <1>3, <1>7, EntryFacts
<1>10. records'[reverifying].dead \/ records'[reverifying].pid = lastpid
  <2>1. CASE op.kind = "rewrite"
    <3>1. records'[op.id + 1].pid = records[op.id + 1].pid
      BY ZenonT(30), <1>7, <1>8, <2>1 DEF Record
    <3> QED
      BY ZenonT(30), <1>1, <1>8, <2>1, <3>1 DEF MInv, VInv
  <2>2. CASE op.kind = "dead"
    <3>1. records'[op.id + 1].dead = TRUE
      BY ZenonT(30), <1>7, <1>8, <2>2 DEF Record
    <3> QED
      BY <1>8, <3>1
  <2> QED
    BY Zenon, <1>3, <2>1, <2>2
<1>11. VInv'
  <2>1. ASSUME NEW i \in DOMAIN records, swept \/ i < reverifying + 1
        PROVE  records'[i].dead \/ records'[i].pid = lastpid
    <3>1. i \in Nat /\ (i # reverifying => i - 1 # op.id /\ (i < reverifying + 1 => i < reverifying))
      BY <1>3, <1>9
    <3>2. CASE i # reverifying
      BY ZenonT(30), <1>7, <2>1, <3>1, <3>2 DEF MInv, VInv
    <3>3. CASE i = reverifying
      BY Zenon, <1>10, <3>3
    <3> QED
      BY Zenon, <3>2, <3>3
  <2> QED
    BY ZenonT(30), <1>1, <1>2, <1>9, <2>1 DEF MInv, VInv
<1>12. Ownership'
  <2>1. \A id \in Slots : \A name : Owns(id, name) => Owns(id, name)'
    BY Zenon, <1>1, <1>2, <1>3, OwnsKept
  <2>2. (Offered' <=> Offered) /\ OfferedId' = OfferedId
    BY Zenon, <1>1, <1>2 DEF Offered, OfferedId
  <2>3. Offered => OfferedId \in Slots
    <3> SUFFICES ASSUME Offered PROVE OfferedId \in Slots
      OBVIOUS
    <3>1. LinkUse /\ client \in DOMAIN links
      BY ZenonT(30), LinkFacts DEF MInv, Offered, LinkUse
    <3>2. links[client].out \in Seq(Reply) /\ links[client].out # <<>>
      BY ZenonT(30), <3>1, LinkFacts DEF Offered
    <3>3. links[client].out[1] \in Reply
      BY <3>2
    <3>4. PICK r \in [status : Status, region_id : Slots] : links[client].out[1] = encode_reply(r)
      BY Zenon, <3>3 DEF Reply
    <3>5. r = [status |-> r.status, region_id |-> r.region_id]
      BY <3>4
    <3> QED
      BY SMTT(30), <3>4, <3>5, ReplyCodec DEF OfferedId
  <2>4. Ownership
    BY Zenon DEF MInv
  <2>5. \A h \in handles : Owns(h.id, h.name)'
    BY ZenonT(30), <2>1, <2>4 DEF Ownership
  <2>6. Offered' => Owns(OfferedId, pending.name)'
    BY ZenonT(30), <1>2, <2>1, <2>2, <2>3, <2>4 DEF Ownership
  <2> QED
    BY SMTT(30), <1>1, <1>2, <1>7, <2>2, <2>4, <2>5, <2>6 DEF Ownership
<1> QED
  BY <1>4, <1>5, <1>6, <1>11, <1>12 DEF MInv

-----------------------------------------------------------------------------
\* init_manifest and a workload that has done nothing yet.
LEMMA InitMInv == Init => MInv
<1> SUFFICES ASSUME Init PROVE MInv
  BY Zenon
<1> USE DEF Init
<1>1. MTyped /\ Parity
  <2>1. Unused \in Entry
    BY Zenon DEF Unused, Entry
  <2>2. [gpa |-> 0, len |-> 0] \in Extent
    BY Zenon DEF Extent
  <2>3. <<>> \in Seq(Record)
    BY SMTT(30)
  <2> QED
    BY SMTT(30), <2>1, <2>2, <2>3, ManifestAssumption, TranslateAssumption DEF MTyped, Parity
<1>2. Layout
  BY SMTT(30) DEF Layout, Unused, Apart
<1>3. LedgerKept
  <2>1. DOMAIN records = {} /\ Len(records) = 0
    OBVIOUS
  <2>2. region_count = 0 /\ ~Counted
    BY DEF Counted
  <2> HIDE DEF Init
  <2>3. Len(records) = region_count - IF Counted /\ op.kind = "register" THEN 1 ELSE 0
    <3>1. (IF Counted /\ op.kind = "register" THEN 1 ELSE 0) = 0
      BY <2>2
    <3>2. region_count - 0 = 0
      BY <2>2
    <3> QED
      BY <2>1, <3>1, <3>2, Zenon
  <2> QED
    BY ZenonT(30), <2>1, <2>3 DEF LedgerKept
<1>4. AInv /\ VInv
  BY SMTT(30) DEF AInv, VInv
<1>5. LinkUse
  <2>1. <<>> \in Seq(Link) /\ Len(<<>>) = 0 /\ DOMAIN <<>> = {}
    BY SMTT(30)
  <2> QED
    BY <2>1 DEF LinkUse
<1>6. Ownership /\ Serving
  BY SMTT(30) DEF Ownership, Offered, Serving
<1> QED
  BY ZenonT(30), <1>1, <1>2, <1>3, <1>4, <1>5, <1>6 DEF MInv, WInv

\* Every step keeps it.
LEMMA NextMInv == MInv /\ [Next]_vars => MInv'
<1> SUFFICES ASSUME MInv, [Next]_vars PROVE MInv'
  OBVIOUS
<1>1. CASE \E n \in Names : SdkRegisters(n)
  BY Zenon, <1>1, SdkRegistersMInv
<1>2. CASE \E h \in handles : SdkUnregisters(h)
  BY <1>2, SdkUnregistersMInv
<1>3. CASE SdkReceives \/ SdkFails
  BY <1>3, SdkReceivesMInv, SdkFailsMInv
<1>4. CASE WorkloadDies \/ WorkloadReaped \/ WorkloadStarts
  BY <1>4, WorkloadDiesMInv, WorkloadReapedMInv, WorkloadStartsMInv
<1>5. CASE Service \/ ServiceNext \/ ServiceDone
  BY <1>5, ServiceMInv, ServiceNextMInv, ServiceDoneMInv
<1>6. CASE \E pages \in PageMaps : ServiceRecv(pages) \/ ReverifyNext(pages)
  BY <1>6, ServiceRecvMInv, ReverifyNextMInv
<1>7. CASE ReverifyRegions \/ ReverifyDone
  BY <1>7, ReverifyRegionsMInv, ReverifyDoneMInv
<1>8. CASE Writer
  BY <1>8, WriteMInv, AfterRequestMInv, AfterSweepMInv DEF Writer
<1>9. CASE UNCHANGED vars
  <2>1. UNCHANGED <<manifest, records, server, writing, process, links, sdk, swept>>
    BY ZenonT(30), <1>9 DEF vars
  <2>2. WInv' /\ AInv' /\ VInv' /\ LinkUse' /\ Ownership'
    BY SMTT(30), <2>1, QuietWInv, QuietAInv, QuietVInv, QuietLinkUse, QuietOwnership
       DEF MInv, wvars, manifest, header, writing, process, sdk, server
  <2>3. Serving'
    BY ZenonT(30), <2>1 DEF MInv, Serving, Here, writing, process, server
  <2> QED
    BY <2>2, <2>3 DEF MInv
<1> QED
  BY <1>1, <1>2, <1>3, <1>4, <1>5, <1>6, <1>7, <1>8, <1>9 DEF Next

\* The manifest, the ledger, the agent's place in its loops, the sweep and the
\* links stay in step, for any number of regions, extents, links and workloads.
THEOREM ManifestInvariance == Spec => []MInv
<1> QED
  BY InitMInv, NextMInv, PTL DEF Spec

\* Between two operations of RegionIpc the ledger says what the manifest says.
THEOREM LedgerAgreesAlways == Spec => []LedgerAgrees
<1>1. MInv => LedgerAgrees
  <2> SUFFICES ASSUME MInv, wpc = "idle" PROVE LedgerAgrees
    BY Zenon DEF LedgerAgrees
  <2>1. region_count \in Nat
    BY Zenon, EntryFacts DEF MInv
  <2> QED
    BY SMTT(30), <2>1 DEF MInv, WInv, LedgerKept, LedgerAgrees, Counted, Written
<1> QED
  BY <1>1, ManifestInvariance, PTL

\* A handle is of a region that the workload registered itself, however late the
\* replies of the agent were.
THEOREM HandlesAreTrue == Spec => []HandleIsTrue
<1>1. MInv => HandleIsTrue
  BY ZenonT(30) DEF MInv, Ownership, Owns, HandleIsTrue
<1> QED
  BY <1>1, ManifestInvariance, PTL

\* A manifest with an even generation is whole: it passes validate, and every
\* region has the extents it was published with last.
THEOREM ReadsAreConsistent == Spec => []ReadIsConsistent
<1>1. MInv => ReadIsConsistent
  <2> SUFFICES ASSUME MInv, Readable PROVE ReadIsConsistent
    BY ZenonT(30) DEF ReadIsConsistent
  <2>1. WInv /\ wpc \in {"idle", "begin", "after"}
    BY DEF MInv, WInv, MTyped, Parity, Readable
  <2>2. Valid
    BY ZenonT(30), <2>1 DEF WInv, MTyped, Layout, Valid
  <2>3. ASSUME NEW s \in Slots, NEW exts \in Seq(Extent), entries[s].n = Len(exts),
               \A k \in 1 .. Len(exts) : extents[entries[s].off + k - 1] = exts[k]
        PROVE  ExtentsOf(s) = exts
    BY SMTT(30), <2>3 DEF ExtentsOf
  <2>4. wpc = "after" =>
          /\ op.id \in Slots /\ op.exts \in Seq(Extent)
          /\ op.kind # "dead" => ExtentsOf(op.id) = op.exts
          /\ op.kind = "dead" => entries[op.id].dead
    <3> SUFFICES ASSUME wpc = "after"
                 PROVE  /\ op.id \in Slots /\ op.exts \in Seq(Extent)
                        /\ op.kind # "dead" => ExtentsOf(op.id) = op.exts
                        /\ op.kind = "dead" => entries[op.id].dead
      OBVIOUS
    <3>1. op.id \in Slots /\ op.exts \in Seq(Extent)
      BY SMTT(30), <2>1, OpFacts
    <3>2. /\ entries[op.id] = op.entry /\ op.w = Len(op.exts)
          /\ \A k \in 1 .. Len(op.exts) : extents[op.off + k - 1] = op.exts[k]
          /\ op.kind # "dead" => op.entry.off = op.off /\ op.entry.n = Len(op.exts)
          /\ op.kind = "dead" => op.entry.dead
      BY ZenonT(30), <2>1 DEF WInv, OpFits, Written
    <3>3. CASE op.kind # "dead"
      <4>1. /\ entries[op.id].n = Len(op.exts)
            /\ \A k \in 1 .. Len(op.exts) : extents[entries[op.id].off + k - 1] = op.exts[k]
        BY ZenonT(30), <3>2, <3>3
      <4> QED
        BY ZenonT(30), <2>3, <3>1, <3>3, <4>1
    <3> QED
      BY ZenonT(30), <3>1, <3>2, <3>3
  <2>5. ASSUME NEW i \in DOMAIN records, ~entries[i - 1].dead
        PROVE  ExtentsOf(i - 1) = IF wpc = "after" /\ op.id = i - 1 THEN op.exts ELSE records[i].exts
    <3>1. i - 1 \in Slots /\ records[i].exts \in Seq(Extent)
      BY ZenonT(30), <2>1, EntryFacts
    <3>2. CASE wpc = "after" /\ op.id = i - 1
      BY ZenonT(30), <2>4, <2>5, <3>2
    <3>3. CASE ~(wpc = "after" /\ op.id = i - 1)
      <4>1. ~(InWrite /\ op.id = i - 1)
        BY ZenonT(30), <2>1, <3>3 DEF InWrite
      <4>2. /\ entries[i - 1].n = Len(records[i].exts)
            /\ \A k \in 1 .. Len(records[i].exts) :
                 extents[entries[i - 1].off + k - 1] = records[i].exts[k]
        BY ZenonT(30), <2>1, <4>1 DEF WInv, LedgerKept
      <4> QED
        BY <2>3, <3>1, <3>3, <4>2
    <3> QED
      BY ZenonT(30), <3>2, <3>3
  <2> QED
    BY ZenonT(30), <2>2, <2>4, <2>5 DEF ReadIsConsistent
<1> QED
  BY <1>1, ManifestInvariance, PTL

\* Once a sweep has ended, resolve gives a region of the workload started last.
THEOREM ResolvesToCurrent == Spec => []ResolveIsCurrent
<1>1. MInv => ResolveIsCurrent
  <2> SUFFICES ASSUME MInv, swept, Readable, NEW n \in Names, Candidates(n) # {},
                      resolve(n) + 1 \in DOMAIN records
               PROVE  records[resolve(n) + 1].pid = lastpid
    BY Zenon DEF ResolveIsCurrent
  <2> DEFINE s == resolve(n)
  <2>1. s \in Candidates(n)
    <3>1. Candidates(n) \subseteq Nat
      BY DEF Candidates, Slots
    <3>2. \E m \in Candidates(n) : \A k \in Candidates(n) : m <= k
      BY Zenon, <3>1, LeastNatural
    <3> QED
      BY Zenon, <3>2 DEF resolve, Min
  <2> DEFINE i == s + 1
  <2> HIDE DEF s
  <2>2. s \in Slots /\ ~entries[s].dead /\ i \in DOMAIN records /\ i - 1 = s
    BY SMTT(30), <2>1 DEF Candidates, Slots, s
  <2> HIDE DEF i
  <2>3. WInv /\ wpc \in {"idle", "begin", "after"}
    BY DEF MInv, WInv, MTyped, Parity, Readable
  <2>4. ~records[i].dead
    <3>1. CASE Written /\ op.id = s
      <4>1. wpc = "after" /\ OpFits /\ entries[op.id] = op.entry
        BY ZenonT(30), <2>3, <3>1 DEF WInv, OpFits, Written
      <4>2. op.kind # "dead"
        BY ZenonT(30), <2>2, <3>1, <4>1 DEF OpFits
      <4>3. op.kind # "register" => ~records[op.id + 1].dead
        BY ZenonT(30), <2>3, <4>1, OpTarget
      <4>4. op.kind # "register"
        <5>1. op.kind = "register" => \A j \in DOMAIN records : j - 1 # op.id
          BY ZenonT(30), <2>3, <4>1, OpTarget
        <5> QED
          BY ZenonT(30), <2>2, <3>1, <5>1
      <4> QED
        BY ZenonT(30), <3>1, <4>3, <4>4 DEF i
    <3>2. CASE ~(Written /\ op.id = s)
      <4>1. records[i].dead = entries[s].dead
        BY <2>2, <2>3, <3>2 DEF WInv, LedgerKept
      <4> QED
        BY ZenonT(30), <2>2, <4>1
    <3> QED
      BY ZenonT(30), <3>1, <3>2
  <2> QED
    BY ZenonT(30), <2>2, <2>4 DEF MInv, VInv, s, i
<1> QED
  BY <1>1, ManifestInvariance, PTL
=============================================================================
