------------------------------ MODULE MCTools ------------------------------
(***************************************************************************)
(* What surrounds the gateware, for TLC: the lines and clocks of the link, *)
(* SPI, the boot lines of the MCU, the tools that build and simulate.      *)
(* A behaviour is one of one of them, and the others stay as they began.   *)
(***************************************************************************)
EXTENDS LineFraming, SpiRegisters, EspBoot, BuildTasks, PllConfig, RefreshMonitor, FifoSim,
  Keepalives, PowerCycles

\* Bytes and words as the bits they are sent as.
AsBits(n, width) == [i \in 1 .. width |-> (n \div 2^(width - i)) % 2]
TwoAddresses == {AsBits(3, 7), AsBits(4, 7)}
TwoWords == {AsBits(1, 16), AsBits(65535, 16)}

VARIABLE part

allVars ==
  <<part, vars, spiVars, bootVars, buildVars, pllVars, monitorVars, fifoSimVars, kaVars, livesVars>>

MCInit ==
  /\ part \in {"framing", "spi", "boot", "build", "pll", "monitor", "sim", "clocks", "power"}
  /\ Init /\ SpiInit /\ BootInit /\ BuildInit /\ PllInit /\ MonitorInit
  /\ KaInit /\ FifoSimInit /\ (part # "sim" => size = CHOOSE n \in FifoSizes : TRUE)
  /\ LivesInit /\ (part # "power" => sender = "mcu")

OnFraming ==
  UNCHANGED <<part, spiVars, bootVars, buildVars, pllVars, monitorVars, fifoSimVars, kaVars, livesVars>>
OnSpi ==
  UNCHANGED <<part, vars, bootVars, buildVars, pllVars, monitorVars, fifoSimVars, kaVars, livesVars>>
OnBoot ==
  UNCHANGED <<part, vars, spiVars, buildVars, pllVars, monitorVars, fifoSimVars, kaVars, livesVars>>
OnBuild ==
  UNCHANGED <<part, vars, spiVars, bootVars, pllVars, monitorVars, fifoSimVars, kaVars, livesVars>>
OnPll ==
  UNCHANGED <<part, vars, spiVars, bootVars, buildVars, monitorVars, fifoSimVars, kaVars, livesVars>>
OnMonitor ==
  UNCHANGED <<part, vars, spiVars, bootVars, buildVars, pllVars, fifoSimVars, kaVars, livesVars>>
OnSim ==
  UNCHANGED <<part, vars, spiVars, bootVars, buildVars, pllVars, monitorVars, kaVars, livesVars>>
OnClocks ==
  UNCHANGED <<part, vars, spiVars, bootVars, buildVars, pllVars, monitorVars, fifoSimVars, livesVars>>
OnPower ==
  UNCHANGED <<part, vars, spiVars, bootVars, buildVars, pllVars, monitorVars, fifoSimVars, kaVars>>

MCNext ==
  \/ part = "framing" /\ Next /\ OnFraming
  \/ part = "spi" /\ SpiNext /\ OnSpi
  \/ part = "boot" /\ BootNext /\ OnBoot
  \/ part = "build" /\ BuildNext /\ OnBuild
  \/ part = "pll" /\ PllNext /\ OnPll
  \/ part = "monitor" /\ MonitorNext /\ OnMonitor
  \/ part = "sim" /\ FifoSimNext /\ OnSim
  \/ part = "clocks" /\ KaNext /\ OnClocks
  \/ part = "power" /\ LivesNext /\ OnPower

MCSpec == MCInit /\ [][MCNext]_allVars

\* Every part has the types its own invariant says.
ToolsTypeOK ==
  TypeOK /\ SpiTypeOK /\ BootTypeOK /\ BuildTypeOK /\ PllTypeOK /\ MonitorTypeOK /\ FifoSimTypeOK
  /\ KaTypeOK /\ LivesTypeOK
=============================================================================
