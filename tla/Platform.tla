------------------------------ MODULE Platform ------------------------------
(***************************************************************************)
(* The drivers and libraries under the rest of the platform: the SPMI      *)
(* arbiter, the power management chip behind it, the pins and their        *)
(* interrupts, the BAM descriptor pipes, shared memory with the board's    *)
(* description, a card's registers, the console, the heap and the timer.   *)
(*                                                                         *)
(* They share no state, and what one needs of another is a call carried    *)
(* out or refused: of the arbiter, Pmic says so.  A behaviour therefore    *)
(* exercises one of them, its focus, and the others rest where they start. *)
(***************************************************************************)
EXTENDS SpmiArbiter, Pmic, GpioPins, GpioIrq, Bam, Smem, MmcRegisters, FbConsole, Heap, Delay

VARIABLE focus
Parts == {"spmi", "pmic", "pins", "interrupts", "bam", "smem", "card", "console", "heap", "timer"}
platformVars == <<focus, spmiVars, pmicVars, pinVars, irqVars, bamVars, smemVars,
                  registerVars, consoleVars, heapVars, delayVars>>

\* Where a part out of focus rests.
Rests(part) == focus # part
PlatformInit ==
    /\ focus \in Parts
    /\ SpmiInit /\ (Rests("spmi") => arb = 1)
    /\ PmicInit /\ (Rests("pmic") => group = "misc")
    /\ PinInit /\ (Rests("pins") => ctl = {} /\ out = 0)
    /\ IrqInit /\ (Rests("interrupts") => /\ width = 2 /\ \A p \in IrqPins : ~status[p]
                                          /\ ~power.mask /\ ~power.request)
    /\ BamInit
    /\ IF Rests("smem") THEN SmemStart("board", <<>>, FALSE) ELSE SmemInit
    /\ RegistersInit /\ (Rests("card") => inserted = CHOOSE c \in LargeMmc : TRUE)
    /\ (Rests("card") => clock.base = CHOOSE rate \in BaseRates : TRUE)
    /\ ConsoleInit /\ (Rests("console") => ~interrupts)
    /\ HeapInit
    /\ DelayInit /\ (Rests("timer") => ticks = 0)

SpmiRests == UNCHANGED spmiVars
PmicRests == UNCHANGED pmicVars
PinsRest == UNCHANGED pinVars
IrqRests == UNCHANGED irqVars
BamRests == UNCHANGED bamVars
SmemRests == UNCHANGED smemVars
CardRests == UNCHANGED registerVars
LibrariesRest == UNCHANGED <<consoleVars, heapVars, delayVars>>
BusesRest == SpmiRests /\ PmicRests /\ PinsRest /\ IrqRests /\ BamRests /\ SmemRests /\ CardRests

PlatformNext ==
    /\ UNCHANGED focus
    /\ \/ focus = "spmi" /\ SpmiNext
          /\ PmicRests /\ PinsRest /\ IrqRests /\ BamRests /\ SmemRests /\ CardRests /\ LibrariesRest
       \/ focus = "pmic" /\ PmicNext
          /\ SpmiRests /\ PinsRest /\ IrqRests /\ BamRests /\ SmemRests /\ CardRests /\ LibrariesRest
       \/ focus = "pins" /\ PinNext
          /\ SpmiRests /\ PmicRests /\ IrqRests /\ BamRests /\ SmemRests /\ CardRests /\ LibrariesRest
       \/ focus = "interrupts" /\ IrqNext
          /\ SpmiRests /\ PmicRests /\ PinsRest /\ BamRests /\ SmemRests /\ CardRests /\ LibrariesRest
       \/ focus = "bam" /\ BamNext
          /\ SpmiRests /\ PmicRests /\ PinsRest /\ IrqRests /\ SmemRests /\ CardRests /\ LibrariesRest
       \/ focus = "smem" /\ SmemNext
          /\ SpmiRests /\ PmicRests /\ PinsRest /\ IrqRests /\ BamRests /\ CardRests /\ LibrariesRest
       \/ focus = "card" /\ RegistersNext
          /\ SpmiRests /\ PmicRests /\ PinsRest /\ IrqRests /\ BamRests /\ SmemRests /\ LibrariesRest
       \/ focus = "console" /\ ConsoleNext /\ BusesRest /\ UNCHANGED <<heapVars, delayVars>>
       \/ focus = "heap" /\ HeapNext /\ BusesRest /\ UNCHANGED <<consoleVars, delayVars>>
       \/ focus = "timer" /\ DelayNext /\ BusesRest /\ UNCHANGED <<consoleVars, heapVars>>

\* The fairness of the parts, where they are exercised.
PlatformSpec ==
    /\ PlatformInit /\ [][PlatformNext]_platformVars
    /\ WF_irqVars(focus = "interrupts" /\ SummaryIrq) /\ WF_irqVars(focus = "interrupts" /\ PowerIrq)
    /\ WF_irqVars(focus = "interrupts" /\ ClientReads)
    /\ WF_irqVars(focus = "interrupts" /\ (DualRead \/ DualFlip \/ DualLook))
    /\ WF_bamVars(focus = "bam" /\ BamDriver) /\ WF_bamVars(focus = "bam" /\ TakeDescriptor)
=============================================================================
