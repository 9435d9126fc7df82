------------------------------ MODULE BootToml ------------------------------
(***************************************************************************)
(* boot.toml: the TOML subset and what is asked of its contents (detguest-  *)
(* agent boot.rs, parse and mod tiny).  A document is a sequence of lines,   *)
(* already told apart: a [[header]], a [header], key = value, or none of     *)
(* those.  The value tree is kept flat, as a function from addresses to      *)
(* nodes; an address is the path from the root, and each of its segments     *)
(* names a key and, below an array of tables, the element (0 for none).      *)
(***************************************************************************)
EXTENDS Integers, Sequences, SequencesExt

CONSTANTS U32_MAX,        \* u32::MAX
          AbsolutePaths,  \* the strings that start with a slash
          LongNames       \* the strings longer than MAX_REGION_NAME

Str(s) == [t |-> "Str", s |-> s]
Num(i) == [t |-> "Int", i |-> i]
Array(items) == [t |-> "Array", items |-> items]
Table == [t |-> "Table"]
Missing == [t |-> "Missing"]

ArrayHeader(path) == [is |-> "[[]]", path |-> path]
TableHeader(path) == [is |-> "[]", path |-> path]
KeyValue(key, value) == [is |-> "=", key |-> key, value |-> value]
Junk == [is |-> "junk"]
-----------------------------------------------------------------------------
(* The two scanners of a line.  A character is one of the four kinds they    *)
(* tell apart: a quote, a backslash, a hash, or another one.                 *)

Quote == "quote"
Backslash == "backslash"
Hash == "hash"
Other == "other"

\* The line up to the first hash outside a string.
strip_comment(line) ==
  LET Step(st, i) ==
        CASE st.cut # 0 -> st
          [] line[i] = Backslash /\ st.in_str /\ ~st.escaped -> [st EXCEPT !.escaped = TRUE]
          [] line[i] = Quote /\ ~st.escaped -> [st EXCEPT !.in_str = ~@]
          [] line[i] = Hash /\ ~st.in_str -> [st EXCEPT !.cut = i]
          [] OTHER -> [st EXCEPT !.escaped = FALSE]
      end == FoldLeft(Step, [in_str |-> FALSE, escaped |-> FALSE, cut |-> 0],
                      [i \in DOMAIN line |-> i])
  IN IF end.cut = 0 THEN line ELSE SubSeq(line, 1, end.cut - 1)

\* The string a line starts with: how many characters it takes, quotes and all, and
\* 0 when there is none.  Of the escapes, n and t are "other" here.
parse_string(line) ==
  LET Step(st, i) ==
        CASE st.done -> st
          [] st.escaped /\ line[i] \in {Quote, Backslash, Other} -> [st EXCEPT !.escaped = FALSE]
          [] st.escaped -> [st EXCEPT !.done = TRUE]
          [] line[i] = Quote -> [st EXCEPT !.done = TRUE, !.taken = i]
          [] line[i] = Backslash -> [st EXCEPT !.escaped = TRUE]
          [] OTHER -> st
      end == FoldLeft(Step, [done |-> FALSE, escaped |-> FALSE, taken |-> 0],
                      [i \in 1 .. Len(line) - 1 |-> i + 1])
  IN IF line # <<>> /\ line[1] = Quote THEN end.taken ELSE 0
-----------------------------------------------------------------------------
(* The tree. *)

Seg(key, element) == [key |-> key, element |-> element]
Node(nodes, addr) == IF addr \in DOMAIN nodes THEN nodes[addr] ELSE Missing
IsArrayOfTables(node) ==
  node.t = "Array" /\ node.items # <<>> /\ Last(node.items) = Table

\* Mutant: a header that goes through an array of tables takes its first element.
DescendFirst(st, seg) ==
  LET addr == Append(st.addr, Seg(seg, 0))
      node == Node(st.nodes, addr)
  IN CASE ~st.ok -> st
       [] node = Missing -> [st EXCEPT !.nodes = @ @@ (addr :> Table), !.addr = addr]
       [] node = Table -> [st EXCEPT !.addr = addr]
       [] IsArrayOfTables(node) -> [st EXCEPT !.addr = Append(@, Seg(seg, 1))]
       [] OTHER -> [st EXCEPT !.ok = FALSE]

\* One segment of navigate: a table that is not there is made, and an array of
\* tables is entered at its last element.
Descend(st, seg) ==
  LET addr == Append(st.addr, Seg(seg, 0))
      node == Node(st.nodes, addr)
  IN CASE ~st.ok -> st
       [] node = Missing -> [st EXCEPT !.nodes = @ @@ (addr :> Table), !.addr = addr]
       [] node = Table -> [st EXCEPT !.addr = addr]
       [] IsArrayOfTables(node) ->
            [st EXCEPT !.addr = Append(@, Seg(seg, Len(node.items)))]
       [] OTHER -> [st EXCEPT !.ok = FALSE]

navigate(nodes, path) ==
  FoldLeft(Descend, [ok |-> TRUE, nodes |-> nodes, addr |-> <<>>], path)

\* What a line does at the table it is about; doc.path is the header that is open.
EnterLine(doc, line, at) ==
  LET addr == Append(at.addr, Seg(IF line.is = "=" THEN line.key ELSE Last(line.path), 0))
      old == Node(at.nodes, addr)
      Fault == [doc EXCEPT !.ok = FALSE]
      Put(node) == [x \in {addr} |-> node] @@ at.nodes
  IN CASE ~doc.ok -> doc
       [] line.is = "junk" -> Fault
       [] ~at.ok -> Fault
       [] line.is = "[[]]" /\ old = Missing ->
            [doc EXCEPT !.nodes = Put(Array(<<Table>>)), !.path = line.path]
       [] line.is = "[[]]" /\ old.t = "Array" ->
            [doc EXCEPT !.nodes = Put(Array(Append(old.items, Table))), !.path = line.path]
       [] line.is = "[]" -> [doc EXCEPT !.nodes = at.nodes, !.path = line.path]
       [] line.is = "=" /\ old = Missing -> [doc EXCEPT !.nodes = Put(line.value)]
       [] OTHER -> Fault

\* One line of parse_doc.
ParseLine(doc, line) ==
  LET path == CASE line.is = "[[]]" -> Front(line.path)
                [] line.is = "[]" -> line.path
                [] OTHER -> doc.path
  IN EnterLine(doc, line, navigate(doc.nodes, path))

parse_doc(lines) ==
  FoldLeft(ParseLine, [ok |-> TRUE, nodes |-> [a \in {} |-> Table], path |-> <<>>], lines)
-----------------------------------------------------------------------------
(* The contents.  Everything parse returns early on is one conjunct.         *)

IsU32(node) == node.t = "Int" /\ node.i \in 0 .. U32_MAX
OrMissing(node, holds) == node = Missing \/ holds

\* The elements of an array of tables.
Elements(nodes, key) ==
  LET node == Node(nodes, <<Seg(key, 0)>>)
  IN IF node.t = "Array" THEN node.items ELSE <<>>

\* [unit.control].  A game_dev that is not a string is as good as none.
InControl(nodes, i, key) == Node(nodes, <<Seg("unit", i), Seg("control", 0), Seg(key, 0)>>)
ControlOk(nodes, i) ==
  LET get(key) == InControl(nodes, i, key)
  IN /\ get("protocol").t = "Str"
     /\ IsU32(get("proto_version"))
     /\ get("protocol") = Str("refwork-ctl") => get("game_dev").t = "Str"
     /\ OrMissing(get("game_source"), get("game_source") = Str("pv-blk"))

ParseUnit(nodes, i) ==
  LET get(key) == Node(nodes, <<Seg("unit", i), Seg(key, 0)>>)
      inner(key) == InControl(nodes, i, key)
      args == get("args")
      mask == get("log_mask")
      control == get("control")
  IN [ok |-> /\ Elements(nodes, "unit")[i] = Table
             /\ IsU32(get("id"))
             /\ get("exec").t = "Str" /\ get("exec").s \in AbsolutePaths
             /\ OrMissing(args, args.t = "Array" /\ \A k \in DOMAIN args.items : args.items[k].t = "Str")
             /\ OrMissing(mask, IsU32(mask))
             /\ OrMissing(control, control = Table /\ ControlOk(nodes, i)),
      id |-> get("id"), exec |-> get("exec"),
      control |-> IF control = Missing THEN Missing ELSE inner("protocol"),
      proto_version |-> inner("proto_version"),
      game_dev |-> inner("game_dev"), game_source |-> inner("game_source")]

ParseRegion(nodes, i) ==
  LET get(key) == Node(nodes, <<Seg("expected_region", i), Seg(key, 0)>>)
  IN [ok |-> /\ Elements(nodes, "expected_region")[i] = Table
             /\ get("name").t = "Str" /\ get("name").s \notin LongNames
             /\ IsU32(get("layout_version")),
      name |-> get("name"), layout_version |-> get("layout_version")]

\* The ids, sorted, are 0, 1, and so on.
IdsOk(units) == {units[i].id.i : i \in DOMAIN units} = 0 .. Len(units) - 1

\* The manifest a document is, or a fault.
Contents(doc) ==
  LET top(key) == Node(doc.nodes, <<Seg(key, 0)>>)
      units == [i \in DOMAIN Elements(doc.nodes, "unit") |-> ParseUnit(doc.nodes, i)]
      regions == [i \in DOMAIN Elements(doc.nodes, "expected_region") |->
                    ParseRegion(doc.nodes, i)]
      wanted == Node(doc.nodes, <<Seg("autostart", 0), Seg("unit", 0)>>)
      ok == /\ doc.ok
            /\ top("boot_toml_version") = Num(1)
            /\ OrMissing(top("unit"), top("unit").t = "Array")
            /\ \A i \in DOMAIN units : units[i].ok
            /\ IdsOk(units)
            /\ OrMissing(top("autostart"),
                         /\ top("autostart") = Table /\ IsU32(wanted)
                         /\ \E i \in DOMAIN units : units[i].id = wanted)
            /\ OrMissing(top("expected_region"), top("expected_region").t = "Array")
            /\ \A i \in DOMAIN regions : regions[i].ok
            /\ \A i, j \in DOMAIN regions : i # j => regions[i].name # regions[j].name
  IN IF ok
     THEN [ok |-> TRUE, autostart |-> wanted,
           units |-> [i \in 1 .. Len(units) |-> CHOOSE u \in Range(units) : u.id.i = i - 1],
           expected |-> {regions[i].name.s : i \in DOMAIN regions}]
     ELSE [ok |-> FALSE]

\* parse: the manifest the agent boots from, or a fault.
parse(lines) == Contents(parse_doc(lines))
=============================================================================
