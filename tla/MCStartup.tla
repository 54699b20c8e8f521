----------------------------- MODULE MCStartup -----------------------------
(* 32 bits are two digits here, and the FIFO holds two characters.         *)
EXTENDS Startup

Machine(level, cntl, func, left, data, bss) ==
    [el |-> level, cntl |-> cntl, func |-> func, left |-> left,
     data |-> data, bss |-> bss]

MCMachines == { Machine(2, 3, 7, <<"firmware">>, 2, 0),
                Machine(3, 0, 0, <<"firmware">>, 0, 2),
                Machine(1, 3, 0, << >>, 0, 0) }

MCFaults == { [abort |-> TRUE, esr |-> 147, elr |-> 80, spsr |-> 0, far |-> 61680],
              [abort |-> FALSE, esr |-> 9, elr |-> 258, spsr |-> 4095, far |-> 0] }

MCPrints  == {<<"message", "\n">>}
MCSizes   == {120}
MCSectors == {<<0, 171>>}
=============================================================================
