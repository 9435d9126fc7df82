---------------------------- MODULE ChannelHeader ----------------------------
(***************************************************************************)
(* The header of the channel page and its three readers: the agent writes   *)
(* the canonical one (detguest-agent channel.rs), the host checks it on      *)
(* CHANNEL_INIT (detguest-host channel.rs, attach) and the workload when it  *)
(* maps the page (detguest-sdk channel.rs).  Host and workload each have     *)
(* checks of their own around those of detguest-wire header.rs.              *)
(***************************************************************************)
EXTENDS Naturals, Sequences

CONSTANTS CHANNEL_SIZE,     \* the size of the page
          OFF_RING_C_DATA,  \* where the header and the manifest end
          ALIGN,            \* the alignment of a ring: 8 bytes
          RING_C_SIZE, RING_I_SIZE, RING_A_SIZE, RING_W_SIZE

ASSUME ChannelHeaderAssumption ==
  /\ {CHANNEL_SIZE, OFF_RING_C_DATA, ALIGN} \subseteq Nat \ {0}
  /\ {RING_C_SIZE, RING_I_SIZE, RING_A_SIZE, RING_W_SIZE} \subseteq Nat

RingIds == 1 .. 4   \* C, I, A, W

\* The rings stand back to back behind the manifest.
canonical_desc(ring) ==
  LET sizes == <<RING_C_SIZE, RING_I_SIZE, RING_A_SIZE, RING_W_SIZE>>
      offset[r \in RingIds] ==
        IF r = 1 THEN OFF_RING_C_DATA ELSE offset[r - 1] + sizes[r - 1]
  IN [offset |-> offset[ring], size |-> sizes[ring]]

canonical ==
  [magic |-> TRUE, version |-> 1, ring_desc |-> [r \in RingIds |-> canonical_desc(r)]]

IsPowerOfTwo(n) == n \in {2 ^ k : k \in 0 .. 30}

\* RingDesc::validate.
DescValid(d) ==
  /\ d.size # 0 /\ IsPowerOfTwo(d.size)
  /\ d.offset >= OFF_RING_C_DATA /\ d.offset + d.size <= CHANNEL_SIZE
  /\ d.offset % ALIGN = 0

\* Mutant: two rings overlap only when one starts inside the other.
OverlapStrict(a, b) == a.offset < b.offset /\ b.offset < a.offset + a.size

Overlap(a, b) == a.offset < b.offset + b.size /\ b.offset < a.offset + a.size

AnyOverlap(descs) == \E i, j \in RingIds : i < j /\ Overlap(descs[i], descs[j])

\* ChannelHeader::validate: the first thing that is wrong, or "ok".
validate(header) ==
  CASE ~header.magic -> "BadMagic"
    [] header.version # 1 -> "BadVersion"
    [] \E r \in RingIds : ~DescValid(header.ring_desc[r]) -> "BadField"
    [] AnyOverlap(header.ring_desc) -> "BadField"
    [] OTHER -> "ok"

\* Channel::attach asks about a ring's size before its place.
AttachRing(d) ==
  CASE ~IsPowerOfTwo(d.size) -> "BadRingSize"
    [] ~DescValid(d) -> "RingOutOfBounds"
    [] OTHER -> "ok"

\* Channel::attach at an address that is guest memory or is not: the first ring that
\* is wrong, in descriptor order, says what is reported.
attach(header, mapped) ==
  LET bad == {r \in RingIds : AttachRing(header.ring_desc[r]) # "ok"}
      first == CHOOSE r \in bad : \A other \in bad : r <= other
  IN CASE ~mapped -> "Mem"
       [] ~header.magic -> "BadMagic"
       [] header.version # 1 -> "BadVersion"
       [] bad # {} -> AttachRing(header.ring_desc[first])
       [] AnyOverlap(header.ring_desc) -> "RingsOverlap"
       [] OTHER -> "ok"

\* What the guest reads back: AttachError::init_status.
init_status(found) ==
  CASE found = "ok" -> 0
    [] found = "Mem" -> 1
    [] found = "AlreadyAttached" -> 3
    [] OTHER -> 2

\* The workload's MappedChannel::map; its errors tell magic, version and the rest apart.
read_and_validate_header(header) ==
  CASE ~header.magic -> "BadChannelHeader"
    [] header.version # 1 -> "ProtocolVersionMismatch"
    [] validate(header) # "ok" -> "AgentSocket"
    [] OTHER -> "ok"
=============================================================================
