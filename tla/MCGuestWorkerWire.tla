------------------------- MODULE MCGuestWorkerWire -------------------------
(* Messages whose fields all differ, at the ends of their ranges and, for  *)
(* the enumerations and the budget, just outside them.                     *)
EXTENDS GuestWorkerWire

Fields(kind) == DOMAIN decode_offsets[kind]
Width(kind, f) == decode_offsets[kind][f][2]
Limit(kind, f) == ByteBase^Width(kind, f)
Order(kind, f) == decode_offsets[kind][f][1] \div 4

Enumerators(kind) == CASE kind = "fault" -> 0 .. 4 [] kind = "diagnostic" -> {0, 1, 9, 10}
                       [] kind = "stop" -> {0, 7, 8} [] kind = "terminate" -> {0, 4, 5}
                       [] OTHER -> {0}

\* Field f of a message: every field has digits of its own.
Distinct(kind, f) == (57 + 37 * Order(kind, f)) % Limit(kind, f)
Top(kind, f) == IF f \in SignedFields THEN -1 - Order(kind, f) ELSE Limit(kind, f) - 1
IsEnum(kind, f) == f = "reason" \/ (f = "kind")
Message(kind, value(_, _), e) ==
    [kind |-> kind,
     fields |-> [f \in Fields(kind) |-> IF IsEnum(kind, f) THEN e ELSE value(kind, f)]]
Zero(kind, f) == 0

Messages == UNION {{Message(k, Distinct, e) : e \in Enumerators(k)}
                   \cup {Message(k, Top, Min(Enumerators(k))),
                         Message(k, Zero, Max(Enumerators(k)))} : k \in Kinds}
LastMessage == [kind |-> "terminate", fields |-> [reason |-> 3]]

MCScripts == {<<m>> : m \in Messages}
             \cup {<<m, LastMessage>> : m \in {Message(k, Distinct, 1) : k \in Kinds}}
=============================================================================
