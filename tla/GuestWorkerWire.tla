--------------------------- MODULE GuestWorkerWire ---------------------------
(***************************************************************************)
(* The control channel between controller and worker: the frame codec of   *)
(* src/execution/guest_worker_wire.cpp, and the loops of                   *)
(* guest_worker_process_session.cpp that move frames through a byte stream *)
(* (a socket pair on Linux, a named pipe on Windows) a few bytes at a time.*)
(*                                                                         *)
(* A byte is a digit of base ByteBase, so that a u16, u32 or u64 is two,   *)
(* four or eight digits, least significant first.  Every offset, size and  *)
(* enumerator is the code's own number.  A message is a record: its kind,  *)
(* and a function from the names of its fields to their values.            *)
(***************************************************************************)
EXTENDS Integers, Sequences, SequencesExt, FiniteSetsExt

CONSTANTS
    ByteBase,   \* the number of values of a byte (256 in the code)
    Magic,      \* kGuestWorkerWireMagic
    Scripts,    \* the sequences of messages one end may want to send
    Chunks,     \* the byte counts one send or one recv may transfer
    Foreign,    \* the places of a frame where a foreign peer differs
    Capacity    \* the bytes the kernel holds for a reader that is behind

ASSUME ByteBaseAssumption == ByteBase \in Nat /\ ByteBase >= 4
ASSUME MagicAssumption == Magic \in 0 .. ByteBase^4 - 1
ASSUME ChunksAssumption == Chunks \subseteq Nat \ {0} /\ Chunks # {}
ASSUME CapacityAssumption == Capacity \in Nat /\ \A c \in Chunks : c <= Capacity

HeaderSize == 12
MaxPayloadSize == 128
WireVersion == 1

-----------------------------------------------------------------------------
(* The codec. *)

\* kind_of and decode_kind: the enumerators of GuestWorkerWireMessageKind.
KindCode == [hello |-> 1, ready |-> 2, run_request |-> 3, syscall_request |-> 4,
             syscall_result |-> 5, stop |-> 6, fault |-> 7, terminate |-> 8,
             diagnostic |-> 9]
Kinds == DOMAIN KindCode

payload_size == [hello |-> 4, ready |-> 12, run_request |-> 8,
                 syscall_request |-> 88, syscall_result |-> 36, stop |-> 28,
                 fault |-> 36, terminate |-> 4, diagnostic |-> 44]

\* The order and the width in which append_payload emits the fields.
append_payload ==
    [hello |-> <<<<"protocol_version", 4>>>>,
     ready |-> <<<<"protocol_version", 4>>, <<"worker_id", 8>>>>,
     run_request |-> <<<<"budget_microseconds", 8>>>>,
     syscall_request |->
        <<<<"request_id", 8>>, <<"worker_id", 8>>, <<"thread_id", 8>>,
          <<"guest_syscall_number", 8>>, <<"argument0", 8>>, <<"argument1", 8>>,
          <<"argument2", 8>>, <<"argument3", 8>>, <<"argument4", 8>>,
          <<"argument5", 8>>, <<"guest_rip", 8>>>>,
     syscall_result |->
        <<<<"request_id", 8>>, <<"worker_id", 8>>, <<"thread_id", 8>>,
          <<"return_value", 8>>, <<"guest_errno", 4>>>>,
     stop |-> <<<<"worker_id", 8>>, <<"thread_id", 8>>, <<"reason", 4>>,
                <<"guest_rip", 8>>>>,
     fault |-> <<<<"worker_id", 8>>, <<"thread_id", 8>>, <<"kind", 4>>,
                 <<"guest_rip", 8>>, <<"fault_address", 8>>>>,
     terminate |-> <<<<"reason", 4>>>>,
     diagnostic |->
        <<<<"worker_id", 8>>, <<"thread_id", 8>>, <<"kind", 4>>,
          <<"guest_rip", 8>>, <<"detail0", 8>>, <<"detail1", 8>>>>]

\* The offset after the header and the width at which the decoder reads them.
decode_offsets ==
    [hello |-> [protocol_version |-> <<0, 4>>],
     ready |-> [protocol_version |-> <<0, 4>>, worker_id |-> <<4, 8>>],
     run_request |-> [budget_microseconds |-> <<0, 8>>],
     syscall_request |->
        [request_id |-> <<0, 8>>, worker_id |-> <<8, 8>>, thread_id |-> <<16, 8>>,
         guest_syscall_number |-> <<24, 8>>, argument0 |-> <<32, 8>>,
         argument1 |-> <<40, 8>>, argument2 |-> <<48, 8>>,
         argument3 |-> <<56, 8>>, argument4 |-> <<64, 8>>,
         argument5 |-> <<72, 8>>, guest_rip |-> <<80, 8>>],
     syscall_result |->
        [request_id |-> <<0, 8>>, worker_id |-> <<8, 8>>, thread_id |-> <<16, 8>>,
         return_value |-> <<24, 8>>, guest_errno |-> <<32, 4>>],
     stop |-> [worker_id |-> <<0, 8>>, thread_id |-> <<8, 8>>,
               reason |-> <<16, 4>>, guest_rip |-> <<20, 8>>],
     fault |-> [worker_id |-> <<0, 8>>, thread_id |-> <<8, 8>>,
                kind |-> <<16, 4>>, guest_rip |-> <<20, 8>>,
                fault_address |-> <<28, 8>>],
     terminate |-> [reason |-> <<0, 4>>],
     diagnostic |-> [worker_id |-> <<0, 8>>, thread_id |-> <<8, 8>>,
                     kind |-> <<16, 4>>, guest_rip |-> <<20, 8>>,
                     detail0 |-> <<28, 8>>, detail1 |-> <<36, 8>>]]

\* append_u16, append_u32, append_u64: the low `width` digits of a value.
append_le(value, width) ==
    [i \in 1 .. width |-> (value \div ByteBase^(i - 1)) % ByteBase]

\* read_u16, read_u32, read_u64.
read_le(bytes, offset, width) ==
    LET high[i \in 0 .. width] ==
            IF i = width THEN 0 ELSE bytes[offset + i + 1] + ByteBase * high[i + 1]
    IN  high[0]

\* std::bit_cast between the signed fields of a syscall result and the
\* unsigned integers of the wire.
SignedFields == {"return_value", "guest_errno"}
to_wire(field, value, width) ==
    IF field \in SignedFields THEN value % ByteBase^width ELSE value

\* Mutant: the wire integer is converted, not cast, to the signed field.
FromWireUnsigned(field, value, width) == value

from_wire(field, value, width) ==
    IF field \in SignedFields /\ 2 * value >= ByteBase^width
    THEN value - ByteBase^width ELSE value

\* valid_message with the four enumeration tests it calls.
valid_message(m) ==
    CASE m.kind = "run_request" -> m.fields.budget_microseconds # 0
      [] m.kind = "fault"       -> m.fields.kind \in 0 .. 3
      [] m.kind = "diagnostic"  -> m.fields.kind \in 1 .. 9
      [] m.kind = "stop"        -> m.fields.reason \in 0 .. 7
      [] m.kind = "terminate"   -> m.fields.reason \in 0 .. 4
      [] OTHER                  -> TRUE

\* encode_guest_worker_wire_message of a message valid_message accepts.
encode(m) ==
    LET emit(item) == append_le(to_wire(item[1], m.fields[item[1]], item[2]), item[2])
        layout == append_payload[m.kind]
    IN  append_le(Magic, 4) \o append_le(WireVersion, 2)
        \o append_le(KindCode[m.kind], 2) \o append_le(payload_size[m.kind], 4)
        \o FlattenSeq([i \in DOMAIN layout |-> emit(layout[i])])

\* Mutant: a frame of another wire version is read as one of this version.
HeaderVersionIgnored(header) ==
    LET raw_kind == read_le(header, 6, 2)
        declared == read_le(header, 8, 4)
        known == {k \in Kinds : KindCode[k] = raw_kind /\ payload_size[k] = declared}
    IN  IF read_le(header, 0, 4) # Magic \/ known = {}
        THEN [error |-> "invalid_magic"]
        ELSE [error |-> "none", kind |-> CHOOSE k \in known : TRUE,
              payload_size |-> declared]

\* decode_guest_worker_wire_header: the first test that fails names the error.
decode_header(header) ==
    LET raw_kind == read_le(header, 6, 2)
        declared == read_le(header, 8, 4)
        known == {k \in Kinds : KindCode[k] = raw_kind}
        failed == IF read_le(header, 0, 4) # Magic THEN "invalid_magic"
                  ELSE IF read_le(header, 4, 2) # WireVersion
                  THEN "unsupported_wire_version"
                  ELSE IF known = {} THEN "unknown_message_kind"
                  ELSE IF declared > MaxPayloadSize THEN "payload_too_large"
                  ELSE IF \E k \in known : declared # payload_size[k]
                  THEN "payload_size_mismatch" ELSE "none"
    IN  IF failed # "none" THEN [error |-> failed]
        ELSE [error |-> "none", kind |-> CHOOSE k \in known : TRUE,
              payload_size |-> declared]

\* The fields decode_guest_worker_wire_message reads from a whole frame.
decode(frame) ==
    LET kind == decode_header(SubSeq(frame, 1, HeaderSize)).kind
        at == decode_offsets[kind]
    IN  [kind |-> kind,
         fields |-> [f \in DOMAIN at |->
             from_wire(f, read_le(frame, HeaderSize + at[f][1], at[f][2]), at[f][2])]]

-----------------------------------------------------------------------------
(* The stream. *)

VARIABLES
    platform,   \* "linux" or "windows"
    script,     \* every message this end will try to send
    next,       \* the index in script of the next message
    out,        \* the bytes of the encoded frame write_all has yet to send
    sender,     \* "open", "closed", or the error send_message returned
    pipe,       \* the bytes in the kernel's buffer
    in,         \* the bytes receive_message has read of the current frame
    frame_size, \* the size of the frame, once its header has been accepted
    receiver,   \* "header", "payload", "cancelling", or the error returned
    got,        \* the messages receive_message has returned
    consumed,   \* the bytes of the frames of got, as they were read
    tampered    \* TRUE once the peer has sent bytes encode did not produce
vars == <<platform, script, next, out, sender, pipe, in, frame_size, receiver,
          got, consumed, tampered>>

receiving == <<in, frame_size, receiver, got, consumed>>

Reading == receiver \in {"header", "payload"}
Open == sender = "open"

Init ==
    /\ platform \in {"linux", "windows"}
    /\ script \in Scripts
    /\ next = 1
    /\ out = <<>> /\ pipe = <<>> /\ in = <<>> /\ frame_size = 0
    /\ sender = "open" /\ receiver = "header"
    /\ got = <<>> /\ consumed = <<>>
    /\ tampered = FALSE

\* send_message up to its write_all: encode the message or report wire_failure.
SendMessage ==
    /\ Open /\ out = <<>> /\ next <= Len(script)
    /\ IF valid_message(script[next])
       THEN out' = encode(script[next]) /\ next' = next + 1 /\ UNCHANGED sender
       ELSE sender' = "wire_failure" /\ UNCHANGED <<out, next>>
    /\ UNCHANGED <<platform, script, pipe, receiving, tampered>>

\* One turn of the loop of write_all: the kernel takes some of the bytes.
WriteSome ==
    \E c \in Chunks :
        LET n == Min({c, Len(out)})
        IN  /\ Open /\ out # <<>> /\ (Reading \/ receiver = "cancelling")
            /\ Len(pipe) + n <= Capacity
            /\ pipe' = pipe \o SubSeq(out, 1, n)
            /\ out' = SubSeq(out, n + 1, Len(out))
            /\ UNCHANGED <<platform, script, next, sender, receiving, tampered>>

\* write_all gives up: the wait for room times out, or the call fails because
\* the other end is gone.  What was written of the frame stays in the stream.
WriteFails ==
    /\ Open /\ out # <<>>
    /\ sender' \in {"timeout", "io_failure"}
    /\ UNCHANGED <<platform, script, next, out, pipe, receiving, tampered>>

\* The sending process closes its end, or dies at any point of a frame.
SenderCloses ==
    /\ Open
    /\ sender' = "closed"
    /\ UNCHANGED <<platform, script, next, out, pipe, receiving, tampered>>

\* A peer that is not this program: one byte of a frame is another byte.
Tamper ==
    /\ Open /\ ~tampered /\ next = 2 /\ Len(script) = 1
    /\ Len(out) = HeaderSize + payload_size[script[1].kind]
    /\ \E i \in DOMAIN out \cap Foreign :
        out' = [out EXCEPT ![i] = (@ + 1) % ByteBase]
    /\ tampered' = TRUE
    /\ UNCHANGED <<platform, script, next, sender, pipe, receiving>>

\* The bytes read_exact was asked for and has not read yet.
Wanted == (IF receiver = "header" THEN HeaderSize ELSE frame_size) - Len(in)

\* One turn of the loop of read_exact that transfers bytes.
ReadSome ==
    \E c \in Chunks :
        LET n == Min({c, Wanted, Len(pipe)})
        IN  /\ Reading /\ Wanted > 0 /\ pipe # <<>>
            /\ in' = in \o SubSeq(pipe, 1, n)
            /\ pipe' = SubSeq(pipe, n + 1, Len(pipe))
            /\ UNCHANGED <<platform, script, next, out, sender, frame_size, receiver, got,
                           consumed, tampered>>

\* Mutant: a recv of no bytes is taken for an interrupted one and repeated.
ReadEofRetried ==
    /\ Reading /\ Wanted > 0 /\ pipe = <<>> /\ ~Open
    /\ UNCHANGED vars

\* recv of no bytes, or a broken pipe: nobody will write the missing bytes.
ReadEof ==
    /\ Reading /\ Wanted > 0 /\ pipe = <<>> /\ ~Open
    /\ receiver' = "unexpected_eof"
    /\ UNCHANGED <<platform, script, next, out, sender, pipe, in, frame_size, got,
                   consumed, tampered>>

\* poll returns 0, or WaitForSingleObject returns WAIT_TIMEOUT: nothing can be
\* read and the deadline is over.  On Windows the pending ReadFile is cancelled.
ReadTimesOut ==
    /\ Reading /\ Wanted > 0 /\ pipe = <<>> /\ Open
    /\ receiver' = IF platform = "linux" THEN "timeout" ELSE "cancelling"
    /\ UNCHANGED <<platform, script, next, out, sender, pipe, in, frame_size, got,
                   consumed, tampered>>

\* complete_overlapped_io after CancelIoEx: the read may have completed first,
\* and the bytes it took are dropped with the frame.
CancelRead ==
    /\ receiver = "cancelling"
    /\ \E n \in {0, Len(pipe)} : pipe' = SubSeq(pipe, n + 1, Len(pipe))
    /\ receiver' = "timeout"
    /\ UNCHANGED <<platform, script, next, out, sender, in, frame_size, got, consumed, tampered>>

\* The call itself fails: poll, recv, CreateEventW, ReadFile, CancelIoEx.
ReadFails ==
    /\ Reading /\ Wanted > 0
    /\ receiver' = "io_failure"
    /\ UNCHANGED <<platform, script, next, out, sender, pipe, in, frame_size, got,
                   consumed, tampered>>

\* receive_message between its two reads.
AcceptHeader ==
    /\ receiver = "header" /\ Wanted = 0
    /\ LET header == decode_header(in)
       IN  IF header.error = "none"
           THEN /\ receiver' = "payload"
                /\ frame_size' = HeaderSize + header.payload_size
           ELSE receiver' = "wire_failure" /\ UNCHANGED frame_size
    /\ UNCHANGED <<platform, script, next, out, sender, pipe, in, got, consumed,
                   tampered>>

\* receive_message after its second read; the caller asks for the next frame.
AcceptFrame ==
    /\ receiver = "payload" /\ Wanted = 0
    /\ LET m == decode(in)
       IN  IF valid_message(m)
           THEN /\ got' = Append(got, m)
                /\ consumed' = consumed \o in
                /\ receiver' = "header" /\ in' = <<>> /\ frame_size' = 0
           ELSE /\ receiver' = "wire_failure"
                /\ UNCHANGED <<got, consumed, in, frame_size>>
    /\ UNCHANGED <<platform, script, next, out, sender, pipe, tampered>>

Next == \/ SendMessage \/ WriteSome \/ WriteFails \/ SenderCloses \/ Tamper
        \/ ReadSome \/ ReadEof \/ ReadTimesOut \/ CancelRead \/ ReadFails
        \/ AcceptHeader \/ AcceptFrame

\* Every loop of the receiver goes round while it can: the thread that runs it
\* is scheduled, a deadline passes, and a cancelled read completes.
Fairness ==
    /\ WF_vars(ReadSome \/ AcceptHeader \/ AcceptFrame)
    /\ WF_vars(ReadEof) /\ WF_vars(ReadTimesOut) /\ WF_vars(CancelRead)

Spec == Init /\ [][Next]_vars /\ Fairness

-----------------------------------------------------------------------------
(* Properties. *)

\* read_exact, write_all and the codec carry messages intact: however the bytes
\* are split over calls, and wherever the sender stops inside a frame, what
\* receive_message returns is a prefix of what was sent; an honest stream is
\* never reported as a wire failure; and a stream closed after its last frame
\* reports its end only when every message has been returned.
DeliveredAsSent ==
    ~tampered =>
        /\ IsPrefix(got, SubSeq(script, 1, next - 1))
        /\ receiver # "wire_failure"
        /\ receiver = "unexpected_eof" /\ sender \in {"closed", "wire_failure"}
           /\ out = <<>> => got = SubSeq(script, 1, next - 1)

\* Whatever the peer writes, decode_guest_worker_wire_message accepts only the
\* one byte string encode_guest_worker_wire_message produces for the message
\* it returns: no two frames mean the same, and no unknown enumerator passes.
CanonicalFrames ==
    /\ \A i \in DOMAIN got : valid_message(got[i])
    /\ consumed = FlattenSeq([i \in DOMAIN got |-> encode(got[i])])

\* receive_message always comes back: with the peer gone or silent in the
\* middle of a frame, the loop of read_exact ends in an error.
ReceiverReturns == <>(receiver \notin {"header", "payload", "cancelling"})
=============================================================================
