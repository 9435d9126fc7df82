----------------------------- MODULE RegionWire -----------------------------
(***************************************************************************)
(* The datagrams between the SDK and the agent's region socket             *)
(* (detguest-wire regionipc.rs).  A datagram is its size and its fields;   *)
(* the sizes are the code's, since the decoder tells messages apart by     *)
(* them.  A name is its length: the codec looks at nothing else of it.     *)
(***************************************************************************)
EXTENDS Naturals

HEADER_LEN == 8
REG_OFF_NAME == 38
UNREG_LEN == 12
REPLY_LEN == 28
MAX_NAME_LEN == 56
REGIONIPC_MAX_DATAGRAM == 128

KIND_REGISTER == 1
KIND_UNREGISTER == 2
KIND_REPLY == 3

BadDatagram(e) == [kind |-> "Err", why |-> e]

\* write_header
Header(kind, size) == [magic |-> TRUE, version |-> 1, kind |-> kind, size |-> size]

\* What check_header objects to, or "none".
check_header(d) ==
    CASE d.size < HEADER_LEN -> "Truncated"
      [] d.size >= HEADER_LEN /\ ~d.magic -> "BadMagic"
      [] d.size >= HEADER_LEN /\ d.magic /\ d.version # 1 -> "BadVersion"
      [] OTHER -> "none"

-----------------------------------------------------------------------------
\* The buffer is the size of the largest datagram, so it is never too small.
encode_request(req) ==
    IF req.kind = "Unregister"
    THEN [head |-> Header(KIND_UNREGISTER, UNREG_LEN), body |-> req]
    ELSE IF req.name_len \notin 1 .. MAX_NAME_LEN THEN BadDatagram("FieldTooLong")
    ELSE [head |-> Header(KIND_REGISTER, REG_OFF_NAME + req.name_len), body |-> req]

\* Mutant: bytes behind the name are let through.
DecodeTrailing(d) ==
    LET bad == check_header(d.head)
        size == d.head.size
    IN  IF bad # "none" THEN BadDatagram(bad)
        ELSE IF d.head.kind = KIND_REGISTER THEN
          IF size < REG_OFF_NAME THEN BadDatagram("Truncated")
          ELSE IF d.body.name_len \notin 1 .. MAX_NAME_LEN THEN BadDatagram("BadField")
          ELSE IF size < REG_OFF_NAME + d.body.name_len THEN BadDatagram("Truncated")
          ELSE IF d.body.dead \/ d.body.name_id = 0 \/ d.body.len = 0 THEN BadDatagram("BadField")
          ELSE d.body
        ELSE IF d.head.kind = KIND_UNREGISTER THEN
          IF size < UNREG_LEN THEN BadDatagram("Truncated")
          ELSE IF size # UNREG_LEN THEN BadDatagram("BadLen")
          ELSE d.body
        ELSE BadDatagram("BadField")

decode_request(d) ==
    LET bad == check_header(d.head)
        size == d.head.size
    IN  IF bad # "none" THEN BadDatagram(bad)
        ELSE IF d.head.kind = KIND_REGISTER THEN
          IF size < REG_OFF_NAME THEN BadDatagram("Truncated")
          ELSE IF d.body.name_len \notin 1 .. MAX_NAME_LEN THEN BadDatagram("BadField")
          ELSE IF size < REG_OFF_NAME + d.body.name_len THEN BadDatagram("Truncated")
          ELSE IF size # REG_OFF_NAME + d.body.name_len THEN BadDatagram("BadLen")
          ELSE IF d.body.dead \/ d.body.name_id = 0 \/ d.body.len = 0 THEN BadDatagram("BadField")
          ELSE d.body
        ELSE IF d.head.kind = KIND_UNREGISTER THEN
          IF size < UNREG_LEN THEN BadDatagram("Truncated")
          ELSE IF size # UNREG_LEN THEN BadDatagram("BadLen")
          ELSE d.body
        ELSE BadDatagram("BadField")

encode_reply(reply) == [head |-> Header(KIND_REPLY, REPLY_LEN), body |-> reply]

decode_reply(d) ==
    LET bad == check_header(d.head)
    IN  IF bad # "none" THEN BadDatagram(bad)
        ELSE IF d.head.kind # KIND_REPLY THEN BadDatagram("BadField")
        ELSE IF d.head.size < REPLY_LEN THEN BadDatagram("Truncated")
        ELSE IF d.head.size # REPLY_LEN THEN BadDatagram("BadLen")
        ELSE d.body
=============================================================================
