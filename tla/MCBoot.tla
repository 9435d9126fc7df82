------------------------------- MODULE MCBoot -------------------------------
(***************************************************************************)
(* Boot for TLC: a unit with two regions, of which any subset is expected;  *)
(* and the bounded inputs on which the parser of boot.toml, the copy of the  *)
(* game image and the checks of the channel header are compared with their   *)
(* reference definitions.                                                   *)
(***************************************************************************)
EXTENDS Boot

VARIABLE probe   \* an input for one of those, or NoProbe and Boot runs

MCRegions == {"wram", "vram"}

Version(n) == KeyValue("boot_toml_version", Num(n))
UnitHeader == ArrayHeader(<<"unit">>)
Id(n) == KeyValue("id", Num(n))
Exec(path) == KeyValue("exec", Str(path))
ControlHeader == TableHeader(<<"unit", "control">>)
Protocol(name) == KeyValue("protocol", Str(name))
ProtoVersion(n) == KeyValue("proto_version", Num(n))
GameDev == KeyValue("game_dev", Str("cart"))
PvBlkSource == KeyValue("game_source", Str("pv-blk"))
Autostart(n) == <<TableHeader(<<"autostart">>), KeyValue("unit", Num(n))>>
Expected(name) ==
  <<ArrayHeader(<<"expected_region">>), KeyValue("name", Str(name)),
    KeyValue("layout_version", Num(1))>>

Plain(n) == <<UnitHeader, Id(n), Exec("/unit")>>
Control(name, n) == <<ControlHeader, Protocol(name), ProtoVersion(n)>>

\* The files Boot starts from: each kind of unit with none, one or both of its regions
\* expected (which one is no matter), and some files that the agent refuses, or finds
\* too late that it cannot drive.  Where the game comes from is settled before the gate,
\* so that one set of regions is enough for a game from pv-blk.
ExpectedList(rs) == FoldLeft(LAMBDA text, r : text \o Expected(r), <<>>, SetToSeq(rs))
Driven == Plain(0) \o Control("refwork-ctl", 1) \o <<GameDev>>
MCDocuments ==
  {<<Version(1)>> \o body \o ExpectedList(rs) :
     body \in {<<>>, Plain(0) \o Autostart(0), Driven \o Autostart(0)},
     rs \in {{}, {"wram"}, MCRegions}}
  \cup {<<Version(1)>> \o Driven \o <<PvBlkSource>> \o Autostart(0) \o Expected("wram")}
  \cup {<<Version(2)>>, <<>>,
        <<Version(1)>> \o Plain(0) \o Control("refwork-ctl", 3) \o <<GameDev>> \o Autostart(0),
        <<Version(1)>> \o Plain(0) \o Control("other-ctl", 1) \o Autostart(0)}
MCGameDevices == Devices(3)
-----------------------------------------------------------------------------
(* The inputs.  A text is put together from blocks of lines.                 *)

Blocks ==
  {<<Version(1)>>, Plain(0), Plain(1), <<UnitHeader, Exec("/unit")>>, <<UnitHeader, Id(U32_MAX + 1)>>,
   Control("refwork-ctl", 1) \o <<GameDev>>, Control("refwork-ctl", 1), <<ControlHeader>>,
   <<TableHeader(<<"unit">>), KeyValue("args", Array(<<Str("x")>>))>>,
   <<ArrayHeader(<<"unit", "args">>)>>, <<KeyValue("control", Num(1))>>,
   <<KeyValue("unit", Num(1))>>, Autostart(0), Autostart(1), Expected("wram"),
   <<KeyValue("name", Str("vram"))>>, <<Junk>>}
Texts == {<<Version(1)>> \o FoldLeft(LAMBDA text, b : text \o b, <<>>, blocks) :
            blocks \in UNION {[1 .. n -> Blocks] : n \in 0 .. 3}}
ScannedLines == UNION {[1 .. n -> {Quote, Backslash, Hash, Other}] : n \in 0 .. 6}

Descs == [offset : {0, 3, 4, 5, 6, 8, 128, 254, 255}, size : {0, 1, 2, 3, 8, 128, 256}]
Headers ==
  {[canonical EXCEPT !.ring_desc[r] = d, !.ring_desc[s] = e] :
     r \in {1, 2}, s \in {2, 3, 4}, d, e \in Descs}
  \cup [magic : BOOLEAN, version : 0 .. 2, ring_desc : {canonical.ring_desc}]

NoProbe == [of |-> "none"]
Probes ==
  [of : {"text"}, text : Texts] \cup [of : {"line"}, line : ScannedLines]
    \cup [of : {"image"}, dev : Devices(3 * SECTORS_PER_PAGE + 1), mishap : Mishaps]
    \cup [of : {"header"}, header : Headers, mapped : BOOLEAN]

\* A probe is looked at in one state, and Boot does not run from there.
MCInit ==
  /\ Init
  /\ \/ probe = NoProbe
     \/ conf = (CHOOSE c \in Configurations : ~c.tick) /\ probe \in Probes
MCNext == probe = NoProbe /\ Next /\ UNCHANGED probe
MCSpec ==
  /\ MCInit /\ [][MCNext]_<<vars, probe>>
  /\ WF_<<vars, probe>>(Agent /\ UNCHANGED probe)
  /\ WF_<<vars, probe>>(UnitKeepsOn /\ UNCHANGED probe)
-----------------------------------------------------------------------------
(* What a text says, line by line and without a tree.  The table a header    *)
(* opens is the one with as many [[headers]] of each prefix as stand above.  *)

Opens(text, l) == {k \in 1 .. l : text[k].is \in {"[[]]", "[]"}}
Open(text, l) == IF Opens(text, l) = {} THEN <<>> ELSE text[Max(Opens(text, l))].path
Element(text, path, l) ==
  Cardinality({k \in 1 .. l : text[k].is = "[[]]" /\ text[k].path = path})
Place(text, path, l) ==
  [i \in DOMAIN path |-> Seg(path[i], Element(text, SubSeq(path, 1, i), l))]
KeyLines(text) == {l \in DOMAIN text : text[l].is = "="}
ValuePlace(text, l) == Append(Place(text, Open(text, l), l), Seg(text[l].key, 0))
ArrayPlaces(text) ==
  {Append(Place(text, Front(text[l].path), l), Seg(Last(text[l].path), 0)) :
     l \in {k \in DOMAIN text : text[k].is = "[[]]"}}
TablePlaces(text) ==
  UNION {{Place(text, SubSeq(text[l].path, 1, n), l) : n \in DOMAIN text[l].path} :
           l \in Opens(text, Len(text))}

\* Every name means one thing: a value given once, a table, or an array of tables.
WellFormed(text) ==
  LET values == {ValuePlace(text, l) : l \in KeyLines(text)}
      tables == {p \in TablePlaces(text) : Last(p).element = 0}
  IN /\ \A l \in DOMAIN text : text[l].is # "junk"
     /\ Cardinality(values) = Cardinality(KeyLines(text))
     /\ values \cap (tables \cup ArrayPlaces(text)) = {}
     /\ tables \cap ArrayPlaces(text) = {}

\* The document and the manifest that come out of a text are what it says.
MeansText(text, doc, m) ==
  /\ WellFormed(text) => doc.ok
  /\ m.ok =>
       /\ WellFormed(text)
       /\ \A l \in KeyLines(text) : Node(doc.nodes, ValuePlace(text, l)) = text[l].value
       /\ Cardinality({a \in DOMAIN doc.nodes : doc.nodes[a].t \in {"Str", "Int"}})
            <= Cardinality(KeyLines(text))
       /\ \A i \in DOMAIN m.units : m.units[i].id = Num(i - 1)
       /\ Len(m.units) = Element(text, <<"unit">>, Len(text))
       /\ m.autostart # Missing => m.autostart.i + 1 \in DOMAIN m.units

\* boot.toml means what it says.  The tree parse_doc builds has every value at the
\* table its header opened, the last element of an array of tables, and no value
\* beside those; a text in which each name means one thing is a document, and of one
\* in which some name does not no manifest comes out.  An accepted manifest has its
\* units at their own ids, whatever order the file has them in, and an autostart unit
\* among them.  And what is a comment to strip_comment is never inside a string to
\* parse_string (boot.rs, tiny and parse).
ConfigIsText ==
  /\ probe.of = "text" =>
       MeansText(probe.text, parse_doc(probe.text), parse(probe.text))
  /\ probe.of = "line" => parse_string(strip_comment(probe.line)) = parse_string(probe.line)

\* What came of a copy is the image of the device.
IsImage(dev, mishap, got) ==
  /\ got.ok <=> /\ dev.present /\ dev.sectors > 0 /\ mishap = Intact
                /\ dev.bad \cap (0 .. dev.sectors - 1) = {}
                /\ (dev.sectors \div SECTORS_PER_PAGE) * SECTORS_PER_PAGE <= MAX_GAME_SECTORS
  /\ got.ok => /\ got.bytes = dev.sectors
               /\ got.file = [i \in 1 .. dev.sectors |-> i - 1]

\* The file a unit is given is the whole image: materialize succeeds exactly when the
\* device is there, has a sector, can be read to its end and is within the cap by
\* whole pages, and the file system did what it was asked; and then the file has
\* every sector in its place, whatever part of a page the last one is in
\* (read_device, verify_file).
MaterializedIsImage ==
  probe.of = "image" =>
    IsImage(probe.dev, probe.mishap, materialize(probe.dev, probe.mishap))

Bytes(d) == d.offset .. d.offset + d.size - 1

\* Host and workload agree on the channel: attach accepts a header exactly when the
\* workload's check and the wire crate's do, and then no two rings share a byte,
\* none reaches into the manifest or past the page and every index masks; and the
\* guest reads back 2 for every fault of the header and 1 only for memory that is
\* not there (Channel::attach, MappedChannel::map, ChannelHeader::validate).
AttachAgrees ==
  probe.of = "header" =>
    LET h == probe.header
        found == attach(h, probe.mapped)
        area(r) == Bytes(h.ring_desc[r])
    IN /\ probe.mapped =>
            /\ (found = "ok") <=> (validate(h) = "ok")
            /\ (found = "ok") <=> (read_and_validate_header(h) = "ok")
            /\ init_status(found) \in {0, 2}
       /\ ~probe.mapped => init_status(found) = 1
       /\ found = "ok" =>
            /\ \A r \in RingIds :
                 /\ area(r) # {} /\ area(r) \subseteq OFF_RING_C_DATA .. CHANNEL_SIZE - 1
                 /\ CHANNEL_SIZE % h.ring_desc[r].size = 0
            /\ \A r, s \in RingIds : r # s => area(r) \cap area(s) = {}
=============================================================================
