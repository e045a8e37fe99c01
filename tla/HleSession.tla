----------------------------- MODULE HleSession -----------------------------
(***************************************************************************)
(* run_linux_synthetic_session: the guest is entered, stops at a host gate, *)
(* dispatch_hle runs the function bound to the gate, and apply_hle_resume   *)
(* returns to the guest (linux_session.cpp, hle_runtime.cpp).               *)
(*                                                                          *)
(* The guest itself is whatever its code is: between two stops it may do    *)
(* any of GuestEffects to its memory and stop in any of GuestStops.  Only   *)
(* the context fields the host reads are kept.                              *)
(***************************************************************************)
EXTENDS ShaderCreation, Functions

CONSTANTS InitialMemories,  \* what the image may hold on entry
          InitialContext,   \* [rip, rsp]
          GuestEffects,     \* functions from some addresses to cells
          GuestStops,       \* [reason, slot, rip, rsp, arguments]
          Bindings,         \* gate slot -> function
          MaxGateStops      \* bound on the length of a session

VARIABLES memory,   \* guest memory
          shaders,  \* state.created_agc_shaders
          output,   \* transcript.output
          context,  \* the context the guest is entered with
          stop,     \* the last stop
          handler,  \* [action, value] of the last dispatch
          events,   \* the session's events
          pc, result,
          untouched \* history: headers unchanged since a shader was created from them

vars == <<memory, shaders, output, context, stop, handler, events, pc, result, untouched>>

NoStop == [reason |-> "none", slot |-> 0, rip |-> 0, rsp |-> 0, arguments |-> <<0, 0, 0>>]
NoHandler == [action |-> "none", value |-> 0]
Event(kind, rip, rsp) == [kind |-> kind, rip |-> rip, rsp |-> rsp]

\* binding_for_slot; build_synthetic_gate_region admits only registered functions.
Function == IF stop.slot \in DOMAIN Bindings THEN Bindings[stop.slot] ELSE "none"

Init ==
    /\ memory \in InitialMemories /\ context = InitialContext
    /\ shaders = << >> /\ output = << >> /\ events = << >> /\ untouched = {}
    /\ stop = NoStop /\ handler = NoHandler
    /\ pc = "enter" /\ result = "running"

\* The session returns without another change.
Return(outcome) ==
    /\ pc' = "returned" /\ result' = outcome
    /\ UNCHANGED <<memory, shaders, output, context, stop, handler, untouched>>

\* append_event or another host allocation fails.
HostAllocationFails ==
    /\ pc # "returned"
    /\ Return("host_allocation_failure")
    /\ UNCHANGED events

\* The headers of `prepared` that `after` left alone.
Intact(prepared, after) ==
    {h \in prepared : \A a \in Cells(h, memory[h + HeaderSizeCell]) : after[a] = memory[a]}

\* One round of guest code, from the context to the stop.
EnterGuest ==
    /\ pc = "enter"
    /\ Cardinality({i \in DOMAIN events : events[i].kind = "gate_stop"}) < MaxGateStops
    /\ LET entered == Append(events, Event("guest_entry", context.rip, context.rsp))
       IN  \/ \E effect \in GuestEffects, s \in GuestStops :
                 /\ memory' = effect @@ memory
                 /\ untouched' = Intact(untouched, memory')
                 /\ stop' = s
                 /\ IF s.reason = "host_gate"
                    THEN /\ pc' = "dispatch" /\ UNCHANGED result
                         /\ events' = Append(entered, Event("gate_stop", s.rip, s.rsp))
                    ELSE /\ pc' = "returned" /\ events' = entered
                         /\ result' = IF s.reason = "guest_fault" THEN "guest_fault"
                                      ELSE "unexpected_stop"
                 /\ UNCHANGED <<shaders, output, context, handler>>
           \/ Return("backend") /\ events' = entered

-----------------------------------------------------------------------------
(* dispatch_hle. *)

Handled(action, value) ==
    /\ handler' = [action |-> action, value |-> value] /\ pc' = "handled"
    /\ UNCHANGED <<context, stop, events, result>>

\* unbound_gate, or a function without a handler.
RefuseService ==
    /\ pc = "dispatch" /\ Function \notin {"CreateShader", "TestWrite", "TestExit"}
    /\ Return("hle") /\ UNCHANGED events

Call == [output |-> stop.arguments[1], header |-> stop.arguments[2],
         text |-> stop.arguments[3]]

\* Plan, prepare, materialize, register, apply; on a failed apply the
\* registration is taken back.
CreateShader ==
    /\ pc = "dispatch" /\ Function = "CreateShader"
    /\ LET shader == plan_sce_agc_create_shader(memory, Call)
           plan == plan_sce_agc_shader_preparation(Call, shader)
           created == materialize_created_agc_shader(Call, shader)
           registered == Append(shaders, created.value)
       IN  IF ~shader.ok THEN Return("hle") /\ UNCHANGED events
           ELSE IF ~plan.ok THEN Return("hle") /\ UNCHANGED events
           ELSE IF ~created.ok THEN Return("hle") /\ UNCHANGED events
           ELSE \E applied \in apply_sce_agc_shader_preparation(memory, plan.patches) :
                /\ memory' = applied.memory
                /\ UNCHANGED output
                /\ \/ /\ ~applied.ok
                      /\ shaders' = rollback_last_registration(registered, Len(registered))
                      /\ untouched' = Intact(untouched, memory')
                      /\ pc' = "returned" /\ result' = "hle"
                      /\ UNCHANGED <<context, stop, handler, events>>
                   \/ /\ applied.ok
                      /\ shaders' = registered
                      /\ untouched' = Intact(untouched \ {Call.header}, memory')
                                      \cup {Call.header}
                      /\ Handled("resume", 0)

\* The output grows first and shrinks again when the guest's buffer is unreadable.
TestWrite ==
    /\ pc = "dispatch" /\ Function = "TestWrite"
    /\ LET address == stop.arguments[1]
           count == stop.arguments[2]
       IN  IF count # 0 /\ ~ReadAdmitted(address, count)
           THEN Return("hle") /\ UNCHANGED events
           ELSE /\ output' = output \o [i \in 1 .. count |-> memory[address + i - 1]]
                /\ UNCHANGED <<memory, shaders, untouched>>
                /\ Handled("resume", count)

TestExit ==
    /\ pc = "dispatch" /\ Function = "TestExit"
    /\ UNCHANGED <<memory, shaders, output, untouched>>
    /\ Handled("exit", stop.arguments[1])

-----------------------------------------------------------------------------
(* What the session does with the handler's result. *)

ExitSession ==
    /\ pc = "handled" /\ handler.action = "exit"
    /\ events' = Append(events, Event("hle_exit", stop.rip, stop.rsp))
    /\ Return("success")

\* Mutant: the return address is not popped.
ResumeWithoutPop ==
    /\ pc = "handled" /\ handler.action = "resume" /\ ReadAdmitted(stop.rsp, 2)
    /\ LET rip == Word(memory, stop.rsp)
       IN  /\ rip \in Executable
           /\ context' = [rip |-> rip, rsp |-> stop.rsp]
           /\ events' = Append(events, Event("hle_resume", rip, stop.rsp + 2))
           /\ pc' = "enter"
           /\ UNCHANGED <<memory, shaders, output, stop, handler, result, untouched>>

\* apply_hle_resume: pop the return address, which must be executable.
Resume ==
    /\ pc = "handled" /\ handler.action = "resume"
    /\ IF ~ReadAdmitted(stop.rsp, 2) THEN Return("hle") /\ UNCHANGED events
       ELSE LET rip == Word(memory, stop.rsp)
                next == [rip |-> rip, rsp |-> stop.rsp + 2]
            IN  IF next.rsp > MaxCell \/ rip \notin Executable
                THEN Return("hle") /\ UNCHANGED events
                ELSE /\ context' = next
                     /\ events' = Append(events, Event("hle_resume", next.rip, next.rsp))
                     /\ pc' = "enter"
                     /\ UNCHANGED <<memory, shaders, output, stop, handler, result,
                                    untouched>>

Next ==
    \/ EnterGuest \/ RefuseService \/ CreateShader \/ TestWrite \/ TestExit
    \/ ExitSession \/ Resume \/ HostAllocationFails

Spec == Init /\ [][Next]_vars

-----------------------------------------------------------------------------
(* Properties. *)

PointerFields(h) ==
    {UserDataField, ContextRegistersField, ShaderRegistersField, SpecialsField,
     InputSemanticsField, OutputSemanticsField}
    \cup (IF Word(memory, h + UserDataField) = 0 THEN {}
          ELSE {UserDataField + Word(memory, h + UserDataField) + 2 * i : i \in 0 .. 4})

Pointers(h) == {f \in PointerFields(h) : Word(memory, h + f) # 0}
RegisterList(h) == h + ShaderRegistersField + Word(memory, h + ShaderRegistersField)
PreparedCells(h) ==
    UNION {Cells(h + f, 2) : f \in Pointers(h) \cup {CodeField}}
    \cup {RegisterList(h) + 1, RegisterList(h) + 3}

\* What the guest sees of a shader the host has created: every pointer of the
\* header that was set is absolute and still names what it named, the code
\* pointer and the pair of program registers both give the program's address,
\* the caller's variable holds the handle, and no other cell has changed.
Prepared(call) ==
    LET h == call.header
        list == RegisterList(h)
        written == PreparedCells(h) \cup Cells(call.output, 2)
    IN  /\ \A f \in Pointers(h) : Word(memory', h + f) = h + f + Word(memory, h + f)
        /\ Word(memory', h + CodeField) = call.text
        /\ (memory'[list + 1] + LowWidth * memory'[list + 3]) * CodeAlign = call.text
        /\ Word(memory', call.output) = h
        /\ \A a \in DOMAIN memory \ written : memory'[a] = memory[a]

\* A CreateShader whose guest write failed has changed only cells it would have
\* prepared, all of which may be written; the caller's variable, which is
\* written last, still holds what it held.
StoppedShort(call) ==
    LET written == PreparedCells(call.header)
    IN  /\ written \cup Cells(call.output, 2) \subseteq Writable
        /\ \A a \in DOMAIN memory \ written : memory'[a] = memory[a]
        /\ Word(memory', call.output) = Word(memory, call.output)

\* A handler of dispatch_hle that fails leaves the registry and the output as
\* they were, whichever of its stages failed, and guest memory too unless a
\* write of CreateShader failed after all were admitted; no caller is given a
\* handle then.  CreateShader that succeeds has registered exactly the
\* shader of the call and prepared exactly its header, however the tables and
\* lists of the header lie over each other; no other handler touches either.
HandlersAreExact ==
    [][pc = "dispatch" /\ pc' # pc =>
         IF result' # "running"
         THEN /\ UNCHANGED <<shaders, output>>
              /\ memory' # memory => Function = "CreateShader" /\ StoppedShort(Call)
         ELSE IF Function = "CreateShader"
         THEN /\ \E s \in {shaders'[Len(shaders')]} :
                    /\ shaders' = Append(shaders, s)
                    /\ s.handle = Call.header /\ s.code = Call.text
                    /\ \A i \in DOMAIN s.program : s.program[i] = memory[Call.text + i - 1]
              /\ Prepared(Call)
              /\ UNCHANGED output
         ELSE UNCHANGED <<memory, shaders>>]_vars

\* A header that a shader was created from, and that has not been written
\* since, is refused when the guest passes it to CreateShader again, provided
\* that its address is not below the size it declares: its absolute pointers are
\* then never mistaken for relative ones, and a handle is registered twice only
\* if the guest has built a new header in its place.  The size is a number of 32
\* bits, so this covers every header from 2^32 up; the absolute pointers of one
\* lower down can be offsets into it.
PreparedHeadersAreRefused ==
    [][Len(shaders') > Len(shaders) =>
         \A h \in untouched : h >= memory[h + HeaderSizeCell]
                                 => shaders'[Len(shaders')].handle # h]_vars

\* The events are the session's story: each entry is where the last resume
\* said, each resume pops one return address of the stop before it and lands on
\* executable code, and a success ends with the only exit event.
EventsChain ==
    /\ \A i \in DOMAIN events :
        LET e == events[i]
        IN  CASE i % 3 = 1 -> /\ e.kind = "guest_entry"
                              /\ i > 1 => /\ events[i - 1].kind = "hle_resume"
                                          /\ e.rip = events[i - 1].rip
                                          /\ e.rsp = events[i - 1].rsp
              [] i % 3 = 2 -> e.kind = "gate_stop"
              [] OTHER -> \/ /\ e.kind = "hle_resume" /\ e.rip \in Executable
                             /\ e.rsp = events[i - 1].rsp + 2
                          \/ e.kind = "hle_exit" /\ i = Len(events)
    /\ result = "success" <=> (events # << >> /\ events[Len(events)].kind = "hle_exit")
=============================================================================
