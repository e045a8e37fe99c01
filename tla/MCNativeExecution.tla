-------------------------- MODULE MCNativeExecution --------------------------
(* Entries in a space of sixteen addresses: code that crosses a half word   *)
(* and ends in a system call, with gates, with and without a trap site; two *)
(* ranges, the second one byte below the end of the space; a range whose    *)
(* extension does not fit the space; gates that are misaligned, at the end  *)
(* of the space, on the image, or in the allocation block of the stack; and *)
(* one entry for each check of the context.                                 *)
EXTENDS NativeExecution, TLC

Op(at) == [a \in Addresses |-> IF a \in DOMAIN at THEN at[a] ELSE "other"]
Gated == [exec |-> <<<<2, 5>>>>, op |-> Op([a \in {3, 5} |-> IF a = 3 THEN "ud2"
          ELSE "syscall"]), gate |-> <<8, 2>>, traps |-> {3}, rip |-> 2,
          stack |-> <<12, 3>>, rsp |-> 14, regions |-> {<<2, 6>>, <<12, 4>>},
          rflags |-> {"bit1"}, flat |-> TRUE, tls |-> FALSE]
Filtered == [Gated EXCEPT !.traps = {}]
Split == [Filtered EXCEPT !.exec = <<<<1, 2>>, <<12, 3>>>>, !.op = Op([a \in {1, 13}
          |-> IF a = 1 THEN "syscall" ELSE "int80"]), !.gate = <<0, 0>>, !.rip = 12,
          !.stack = <<4, 4>>, !.rsp = 4, !.regions = {<<0, 8>>, <<12, 4>>}]
AtEnd == [Split EXCEPT !.exec = <<<<13, 3>>>>, !.rip = 13]

RefusedGates == {[Gated EXCEPT !.gate = <<9, 1>>, !.rsp = 13],
                 [Gated EXCEPT !.gate = <<6, 2>>],
                 [Gated EXCEPT !.gate = <<14, 1>>, !.stack = <<10, 3>>, !.rsp = 12,
                               !.regions = {<<2, 6>>, <<10, 4>>}],
                 [Gated EXCEPT !.gate = <<8, 1>>, !.stack = <<10, 3>>, !.rsp = 12,
                               !.regions = {<<2, 6>>, <<10, 4>>}]}
RefusedContexts == {[Gated EXCEPT !.tls = TRUE], [Gated EXCEPT !.flat = FALSE],
                    [Gated EXCEPT !.rflags = {}],
                    [Gated EXCEPT !.rflags = {"bit1", "trap"}],
                    [Gated EXCEPT !.rip = 0], [Gated EXCEPT !.rsp = 15],
                    [Gated EXCEPT !.regions = {}]}

MCImages == {Gated, Filtered, Split, AtEnd} \cup RefusedGates \cup RefusedContexts
MCSignals == <<"SIGSEGV", "SIGILL", "SIGSYS">>
CallerSymmetry == Permutations(Callers)
MCDenied == <<2, 3>>
=============================================================================
