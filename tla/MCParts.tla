------------------------------ MODULE MCParts ------------------------------
(***************************************************************************)
(* The components that have their own specification and share nothing with *)
(* each other, checked in one run: the initial state picks one, which then *)
(* takes steps while the others stay in an initial state of theirs.        *)
(***************************************************************************)
EXTENDS Timer, Emufs, Network, Sockets, Gdb, MCMips, MCRiscv, Alu, Decode

VARIABLES
    focus       \* the component that is checked

partsVars == <<focus, timerVars, emufsVars, netVars, sockVars, gdbVars, mipsVars,
               riscvVars, aluVars, decodeVars>>

(* Register numbers that between them have every bit of every field set.   *)
SomeRegisters == {<<1, 2, 4>>, <<8, 16, 1>>, <<31, 0, 21>>, <<5, 10, 31>>}

(* One initial state for the components out of focus.                      *)
Quiet ==
    /\ focus # "timer" => start_nsecs = 0
    /\ focus # "emufs" => named = CHOOSE f \in [Names -> Objects \ {RootDir}] :
                                    \A m, n \in Names : m # n => f[m] # f[n]
    /\ focus # "network" => \A n \in Cards : ~nic[n].rirq /\ ~nic[n].start
    /\ focus # "gdb" => debug_cpu = 0
    /\ focus # "mips" => \A f \in DOMAIN mcpu.mem : mcpu.mem[f] = CHOOSE v \in Values : TRUE

PartsInit ==
    /\ focus \in {"timer", "emufs", "network", "sockets", "gdb", "mips", "riscv", "alu", "decode"}
    /\ TimerInit /\ EmufsInit /\ NetInit /\ SockInit /\ GdbInit /\ MipsInit /\ RiscvInit /\ Quiet
    /\ IF focus = "alu" THEN AluInit ELSE alu = NoOperands
    /\ IF focus = "decode" THEN DecodeInit ELSE asm = NoInsn

PartsNext ==
    \/ /\ focus = "timer" /\ TimerNext
       /\ UNCHANGED <<focus, emufsVars, netVars, sockVars, gdbVars, mipsVars, riscvVars, aluVars, decodeVars>>
    \/ /\ focus = "emufs" /\ EmufsNext
       /\ UNCHANGED <<focus, timerVars, netVars, sockVars, gdbVars, mipsVars, riscvVars, aluVars, decodeVars>>
    \/ /\ focus = "network" /\ NetNext
       /\ UNCHANGED <<focus, timerVars, emufsVars, sockVars, gdbVars, mipsVars, riscvVars, aluVars, decodeVars>>
    \/ /\ focus = "sockets" /\ SockNext
       /\ UNCHANGED <<focus, timerVars, emufsVars, netVars, gdbVars, mipsVars, riscvVars, aluVars, decodeVars>>
    \/ /\ focus = "gdb" /\ GdbNext
       /\ UNCHANGED <<focus, timerVars, emufsVars, netVars, sockVars, mipsVars, riscvVars, aluVars, decodeVars>>
    \/ /\ focus = "mips" /\ MipsNext
       /\ UNCHANGED <<focus, timerVars, emufsVars, netVars, sockVars, gdbVars, riscvVars, aluVars, decodeVars>>
    \/ /\ focus = "riscv" /\ RiscvNext
       /\ UNCHANGED <<focus, timerVars, emufsVars, netVars, sockVars, gdbVars, mipsVars, aluVars, decodeVars>>

PartsSpec == PartsInit /\ [][PartsNext]_partsVars

-----------------------------------------------------------------------------
(* The type invariant of the component in focus.                           *)
PartsTypeOK ==
    CASE focus = "timer"   -> TimerTypeOK
      [] focus = "emufs"   -> EmufsTypeOK
      [] focus = "network" -> NetTypeOK
      [] focus = "sockets" -> SockTypeOK
      [] focus = "gdb"     -> GdbTypeOK
      [] focus = "mips"    -> MipsTypeOK
      [] focus = "riscv"   -> RTypeOK
      [] focus = "alu"     -> AluTypeOK
      [] focus = "decode"  -> DecodeTypeOK
=============================================================================
