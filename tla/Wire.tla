-------------------------------- MODULE Wire --------------------------------
(***************************************************************************)
(* How many bytes the messages and values of ABD take, and the buffers the *)
(* code sizes in advance for them: the response buffer of a request, the   *)
(* copy RetValue keeps of the newest answer, and the slab element a stored *)
(* value is encrypted into.  None of the writes into them is checked.      *)
(*                                                                         *)
(* A message is a header with two size_t, the key bytes, a Lamport clock   *)
(* behind them and the value (msg.h, key_access.h); PacketSsl puts an IV   *)
(* in front and a MAC behind.                                              *)
(***************************************************************************)
EXTENDS ABD

CONSTANTS key_size,             \* Trace_cmd::key_size
          value_size,           \* --value_size: of a put, and MaxValueSize of ABD
          client_value_size,    \* the largest value a client puts
          max_value_size        \* --max-value-size: of a slab element

ASSUME SizeAssumption == /\ key_size \in Nat
                         /\ value_size \in Nat
                         /\ client_value_size \in Nat
                         /\ max_value_size \in Nat

SizeOfLamport == 8              \* sizeof(Lamport)
SizeOfHeader == 16              \* sizeof(Encoded_msg)
ACK_SZ == 4                     \* "ACK" and its 0
IvSize == 12                    \* of PacketSsl
MacSize == 16
MetaDataSize == IvSize + MacSize

\* PacketSsl::get_buffer_size.
get_buffer_size(n) == n + MetaDataSize

\* What PacketSsl::cipher<ENCRYPT> writes: the IV, n bytes, and the MAC.
EncryptedSize(n) == IvSize + n + MacSize

\* Msg::adjust_size, KeyAccess::add_meta_size.
adjust_size(n) == n + SizeOfHeader
add_meta_size(n) == n + SizeOfLamport

----------------------------------------------------------------------------
(* What the messages take.                                                 *)

\* Ret_value::size or get_value_size(): a benchmark put has value_size bytes, an
\* absent entry none, and what RetValue writes back is the key and clock.
ValueSize(v) ==
  CASE v = NoValue -> 0
    [] v = KeyBytes -> add_meta_size(key_size)
    [] OTHER -> IF trace[v].client THEN client_value_size ELSE value_size

\* Msg::get_size() of what a handler answers.
AnswerSize(r) ==
  CASE r.round = "update" -> ACK_SZ
    [] r.round = "query" /\ trace[r.op].kind = "put" -> SizeOfLamport
    [] r.round = "query" /\ trace[r.op].kind = "get" ->
         add_meta_size(key_size) + ValueSize(r.val)

\* encrypt_and_resp: the buffer the message is encrypted into, which travels.
PacketSize(r) == get_buffer_size(adjust_size(AnswerSize(r)))

----------------------------------------------------------------------------
(* What the buffers hold.                                                  *)

\* Variant with a fault: the clock behind the key is left out.
max_package_size_NoClock == value_size + MetaDataSize

\* ABD::ABD.
max_package_size == value_size + SizeOfLamport + MetaDataSize

\* create_buffers: a response buffer for max_package_size bytes of message.
ResponseBuffer == get_buffer_size(max_package_size)

\* Variant with a fault: elements for the benchmark's values.
ElementSize_Value == value_size

\* main: create_allocator(args.host_memory, args.max_value_size, true).
ElementSize == max_value_size

----------------------------------------------------------------------------
(* Properties.                                                             *)

\* An answer fits the buffer it is encrypted into and the response buffer its
\* requester prepared, which eRPC fills, and the copy RetValue makes of the
\* newest one (its get_size() bytes) fits tmp.  max_package_size counts neither
\* the message header nor the key, so this rests on the cipher's bytes being
\* counted twice, and on what values the earlier puts and write-backs of any
\* machine left in the answering store.
AnswersFit ==
  \A r \in resps \cup UNION {cache[o] : o \in Op} :
    /\ EncryptedSize(adjust_size(AnswerSize(r))) =< PacketSize(r)
    /\ PacketSize(r) =< ResponseBuffer
    /\ r.round = "query" /\ trace[r.op].kind = "get" => AnswerSize(r) =< max_package_size

\* create_node's element holds every value that reaches a store by whatever way:
\* the node of a local put, a PutReplica of a put or of a get's write-back.
ElementsFit ==
  /\ \A n \in Node, k \in Key : ValueSize(kv[n][k].val) =< ElementSize
  /\ \A m \in reqs : m.round = "update" => ValueSize(m.val) =< ElementSize
=============================================================================
