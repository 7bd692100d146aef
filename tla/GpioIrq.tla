------------------------------ MODULE GpioIrq ------------------------------
(***************************************************************************)
(* Interrupts: the dispatch library (InterruptsLib) that keeps a list of   *)
(* handlers by vector, and two of its users, the pin interrupts            *)
(* (GpioTlmmInterruptDxe, one summary vector for all pins) and the card    *)
(* controller's power interrupt (sdhci_msm_init).                          *)
(*                                                                         *)
(* The application starts the users one after the other and then works     *)
(* with the pins.  An interrupt is taken between any two of its steps      *)
(* unless the task priority is TPL_HIGH_LEVEL, and its handler runs to its *)
(* end: the interrupt controller holds back the next until the end of      *)
(* interrupt is signalled.  Outside, a pin's level changes at any moment.  *)
(*                                                                         *)
(* The pins' client, which this code base does not have, configures a pin  *)
(* for interrupts, reads its level and, in its handler, acknowledges and   *)
(* reads the level again.                                                  *)
(***************************************************************************)
EXTENDS Naturals

CONSTANTS IrqPins,         \* the pins with interrupts
          DetectionWidths, \* PcdGpioTlmmIntrDetectionWidth: 2 in this build
          IrqTypes,        \* the types pins are configured with
          InheritedPins,   \* the pins whose interrupts an earlier stage left on
          PinToggles,      \* bound on the changes of the pins' levels
          PowerRequests    \* bound on the controller's power requests

VARIABLES links,    \* mHandlers: each node's forward link, and the list's last
          entry,    \* the filled-in entries: vector and handler of a node
          gic,      \* per vector: [registered, enabled]
          tpl,      \* "app" or "high"
          ipc,      \* the application's next step
          width,    \* this behaviour's detection width
          cfg,      \* per pin: the interrupt configuration register
          status,   \* per pin: the status bit
          level,    \* per pin: the level outside
          enabledIrqs, \* enabled_irqs
          dualEdge, \* dual_edge_irqs
          val,      \* msm_gpio_update_dual_edge_pos: the level read first
          seen,     \* per pin: the level its client read last
          power,    \* the power block: [mask, request, asked, event]
          trouble,  \* what went wrong in a handler, if anything
          togglesLeft
irqVars == <<width, links, entry, gic, tpl, ipc, cfg, status, level, enabledIrqs, dualEdge,
             val, seen, power, trouble, togglesLeft>>

Vectors == {"summary", "power"}
Nodes == Vectors          \* the entry allocated for a vector
ListHead == "head"
Off == [enable |-> FALSE, detect |-> "none", polarity |-> 0, target |-> "none"]

-----------------------------------------------------------------------------
(* Hardware.                                                               *)

\* The summary line is up while an enabled pin that is routed to the
\* application processor has its status set.
Wants(p) == cfg[p].enable /\ status[p] /\ cfg[p].target = "kpss"
Line(v) ==
    IF v = "summary" THEN \E p \in IrqPins : Wants(p)
    ELSE power.request /\ power.mask
Pending(v) == gic[v].registered /\ gic[v].enabled /\ Line(v)

\* Whether a change of a pin to l is an edge its configuration looks for.
Detects(c, l) ==
    \/ c.detect = "rising" /\ l = 1
    \/ c.detect = "falling" /\ l = 0
    \/ c.detect = "both"
    \/ c.detect = "edge" /\ l = c.polarity

\* The level of a pin changes.
Toggle(p) ==
    /\ togglesLeft > 0 /\ togglesLeft' = togglesLeft - 1
    /\ level' = [level EXCEPT ![p] = 1 - @]
    /\ status' = [status EXCEPT ![p] = @ \/ Detects(cfg[p], level'[p])]
    /\ UNCHANGED <<width, links, entry, gic, tpl, ipc, cfg, enabledIrqs, dualEdge, val, seen, power, trouble>>

\* The controller asks for bus power, which nobody did before it was set up.
PowerRequest ==
    /\ ipc.at = "work" /\ ~power.request /\ power.asked < PowerRequests
    /\ power' = [power EXCEPT !.request = TRUE, !.asked = @ + 1]
    /\ UNCHANGED <<width, links, entry, gic, tpl, ipc, cfg, status, level, enabledIrqs, dualEdge, val, seen,
                   trouble, togglesLeft>>

-----------------------------------------------------------------------------
(* InterruptsLib.                                                          *)

\* The nodes a walk along the forward links meets.
WalkBound == 3            \* one more than there are nodes
Walk == LET next[k \in 0 .. WalkBound] ==
               IF k = 0 THEN links.fwd[ListHead] ELSE IF next[k - 1] = ListHead THEN ListHead ELSE links.fwd[next[k - 1]]
        IN { next[k] : k \in DOMAIN next } \ {ListHead}
GetInterruptHandlerEntry(v) == { n \in Walk : entry[n].vector = v }

\* A step of register_int_handler for v; after its last the user goes on.
\* The assertion that v has no handler yet, the allocation and the filled
\* entry, with the first two of InsertTailList's links.
RegFill(v) ==
    /\ ipc = [at |-> "fill", v |-> v] /\ GetInterruptHandlerEntry(v) = {}
    /\ entry' = [entry EXCEPT ![v] = [vector |-> v]]
    /\ links' = [links EXCEPT !.fwd[v] = ListHead]
    /\ ipc' = [ipc EXCEPT !.at = "link"]
    /\ UNCHANGED <<width, gic, tpl, cfg, status, level, enabledIrqs, dualEdge, val, seen, power, trouble, togglesLeft>>
\* The old last node leads to the new one ...
RegLink(v) ==
    /\ ipc = [at |-> "link", v |-> v]
    /\ links' = [links EXCEPT !.fwd[links.last] = v]
    /\ ipc' = [ipc EXCEPT !.at = "last"]
    /\ UNCHANGED <<width, entry, gic, tpl, cfg, status, level, enabledIrqs, dualEdge, val, seen, power, trouble, togglesLeft>>
\* ... and the head knows it.
RegLast(v) ==
    /\ ipc = [at |-> "last", v |-> v]
    /\ links' = [links EXCEPT !.last = v]
    /\ ipc' = [ipc EXCEPT !.at = "register"]
    /\ UNCHANGED <<width, entry, gic, tpl, cfg, status, level, enabledIrqs, dualEdge, val, seen, power, trouble, togglesLeft>>

\* The source is registered, which also enables it ...
RegSource(v) ==
    /\ ipc = [at |-> "register", v |-> v] /\ tpl' = "high"
    /\ gic' = [gic EXCEPT ![v] = [registered |-> TRUE, enabled |-> TRUE]]
    /\ ipc' = [ipc EXCEPT !.at = "mask"]
    /\ UNCHANGED <<width, links, entry, cfg, status, level, enabledIrqs, dualEdge, val, seen, power, trouble, togglesLeft>>
\* ... and masked before the priority is restored.
RegMask(v) ==
    /\ ipc = [at |-> "mask", v |-> v] /\ tpl' = "app"
    /\ gic' = [gic EXCEPT ![v].enabled = FALSE]
    /\ ipc' = [ipc EXCEPT !.at = "unmask"]
    /\ UNCHANGED <<width, links, entry, cfg, status, level, enabledIrqs, dualEdge, val, seen, power, trouble, togglesLeft>>

\* msm_gpio_irq_set_wake(1), or sdhci_msm_init's unmask_interrupt.
Unmask(v) ==
    /\ ipc = [at |-> "unmask", v |-> v]
    /\ gic' = [gic EXCEPT ![v].enabled = TRUE]
    /\ ipc' = [at |-> IF v = "summary" THEN "clear" ELSE "power on", v |-> "power"]
    /\ UNCHANGED <<width, links, entry, tpl, cfg, status, level, enabledIrqs, dualEdge, val, seen, power, trouble, togglesLeft>>

-----------------------------------------------------------------------------
(* sdhci_msm_init's part.                                                  *)

\* Mutant of PowerClear: what the reset left pending is not acknowledged.
PowerClearNot == power
\* sdhci_clear_power_ctrl_irq: acknowledges what the reset may have raised.
PowerClear == [power EXCEPT !.request = FALSE]
ClearPower ==
    /\ ipc.at = "clear" /\ power' = PowerClear
    /\ ipc' = [at |-> "fill", v |-> "power"]
    /\ UNCHANGED <<width, links, entry, gic, tpl, cfg, status, level, enabledIrqs, dualEdge, val, seen, trouble, togglesLeft>>

\* The power block's own mask is opened last.
PowerUnmask ==
    /\ ipc.at = "power on" /\ power' = [power EXCEPT !.mask = TRUE]
    /\ ipc' = [at |-> "work", v |-> "none"]
    /\ UNCHANGED <<width, links, entry, gic, tpl, cfg, status, level, enabledIrqs, dualEdge, val, seen, trouble, togglesLeft>>

-----------------------------------------------------------------------------
(* GpioTlmmInterruptDxe.                                                   *)

\* msm_gpio_irq_set_type: the route, then the kind of detection.  Hardware with
\* one detection bit takes one edge at a time, and both are emulated.
Detection(type, w) ==
    CASE type = "both" /\ w = 2 -> [detect |-> "both", polarity |-> 1]
      [] type = "both" /\ w = 1 -> [detect |-> "edge", polarity |-> 1]
      [] type = "falling" /\ w = 2 -> [detect |-> "falling", polarity |-> 1]
      [] type = "rising" /\ w = 2 -> [detect |-> "rising", polarity |-> 1]
      [] OTHER -> [detect |-> "edge", polarity |-> IF type = "rising" THEN 1 ELSE 0]

\* The polarity is turned round, by set_type and by each acknowledgement: read
\* the level, flip, and look again (TPL_HIGH_LEVEL, but the pin may move).
Dual(p, at) == [at |-> at, p |-> p]
SetType(p, type) ==
    /\ ipc.at = "work" /\ ~cfg[p].enable /\ cfg[p].target = "none"
    /\ cfg' = [cfg EXCEPT ![p] = [enable |-> FALSE, target |-> "kpss",
                                  detect |-> Detection(type, width).detect,
                                  polarity |-> Detection(type, width).polarity]]
    /\ dualEdge' = IF width = 1 /\ type = "both" THEN dualEdge \cup {p} ELSE dualEdge \ {p}
    /\ IF p \in dualEdge' THEN ipc' = Dual(p, "dual read") /\ tpl' = "high" ELSE UNCHANGED <<ipc, tpl>>
    /\ UNCHANGED <<width, links, entry, gic, status, level, enabledIrqs, val, seen, power, trouble, togglesLeft>>

DualRead ==
    /\ ipc.at = "dual read" /\ val' = level[ipc.p] /\ ipc' = Dual(ipc.p, "dual flip")
    /\ UNCHANGED <<width, links, entry, gic, tpl, cfg, status, level, enabledIrqs, dualEdge, seen, power, trouble, togglesLeft>>
DualFlip ==
    /\ ipc.at = "dual flip" /\ cfg' = [cfg EXCEPT ![ipc.p].polarity = 1 - @]
    /\ ipc' = Dual(ipc.p, "dual look")
    /\ UNCHANGED <<width, links, entry, gic, tpl, status, level, enabledIrqs, dualEdge, val, seen, power, trouble, togglesLeft>>
DualLook ==
    /\ ipc.at = "dual look"
    /\ IF status[ipc.p] \/ val = level[ipc.p] THEN ipc' = [at |-> "work", v |-> "none"] /\ tpl' = "app"
       ELSE ipc' = Dual(ipc.p, "dual read") /\ UNCHANGED tpl
    /\ UNCHANGED <<width, links, entry, gic, cfg, status, level, enabledIrqs, dualEdge, val, seen, power, trouble, togglesLeft>>

\* Mutant of EnabledWith: the bitmap is forgotten.
EnabledWithNot(p) == enabledIrqs
EnabledWith(p) == enabledIrqs \cup {p}

\* The client switches a configured pin's interrupt on, at TPL_HIGH_LEVEL, and
\* reads the level from which it will follow the pin.
IrqUnmask(p) ==
    /\ ipc.at = "work" /\ cfg[p].target = "kpss" /\ ~cfg[p].enable
    /\ cfg' = [cfg EXCEPT ![p].enable = TRUE] /\ enabledIrqs' = EnabledWith(p)
    /\ ipc' = Dual(p, "read")
    /\ UNCHANGED <<width, links, entry, gic, tpl, status, level, dualEdge, val, seen, power, trouble, togglesLeft>>
ClientReads ==
    /\ ipc.at = "read" /\ seen' = [seen EXCEPT ![ipc.p] = level[ipc.p]] /\ ipc' = [at |-> "work", v |-> "none"]
    /\ UNCHANGED <<width, links, entry, gic, tpl, cfg, status, level, enabledIrqs, dualEdge, val, power, trouble, togglesLeft>>
IrqMask(p) ==
    /\ ipc.at = "work" /\ cfg[p].enable
    /\ cfg' = [cfg EXCEPT ![p].enable = FALSE] /\ enabledIrqs' = enabledIrqs \ {p}
    /\ UNCHANGED <<width, links, entry, gic, tpl, ipc, status, level, dualEdge, val, seen, power, trouble, togglesLeft>>

-----------------------------------------------------------------------------
(* Interrupts.                                                             *)

\* What the dispatcher finds wrong before it calls anybody: no entry for the
\* vector, or a user that has not asked for interrupts yet.
Premature(v) ==
    CASE GetInterruptHandlerEntry(v) = {} -> "no entry"
      [] ipc.at \in {"fill", "link", "last", "register", "mask", "unmask"} /\ ipc.v = v -> "premature"
      [] OTHER -> trouble

\* The summary handler: of the enabled pins those whose status is set, in order;
\* their handlers acknowledge (and turn the polarity, the pin holding still
\* for that long) and read.
Flagged == { p \in enabledIrqs : status[p] }
SummaryIrq ==
    /\ tpl = "app" /\ Pending("summary")
    /\ status' = [p \in IrqPins |-> status[p] /\ p \notin Flagged]
    /\ cfg' = [p \in IrqPins |-> IF p \in Flagged \cap dualEdge THEN [cfg[p] EXCEPT !.polarity = 1 - @] ELSE cfg[p]]
    /\ seen' = [p \in IrqPins |-> IF p \in Flagged THEN level[p] ELSE seen[p]]
    /\ trouble' = IF Flagged = {} THEN "unexpected" ELSE Premature("summary")
    /\ UNCHANGED <<width, links, entry, gic, tpl, ipc, level, enabledIrqs, dualEdge, val, power, togglesLeft>>

\* sdhci_int_handler: acknowledges and signals the event.
PowerIrq ==
    /\ tpl = "app" /\ Pending("power")
    /\ power' = [power EXCEPT !.request = FALSE, !.event = @ + 1]
    /\ trouble' = IF power.asked = 0 THEN "premature" ELSE Premature("power")
    /\ UNCHANGED <<width, links, entry, gic, tpl, ipc, cfg, status, level, enabledIrqs, dualEdge, val, seen, togglesLeft>>

-----------------------------------------------------------------------------
\* An earlier stage may have left a pin's status set, and some pins' interrupts
\* on; the controller's reset a power interrupt pending with its mask open.
IrqInit ==
    /\ width \in DetectionWidths
    /\ links = [fwd |-> [n \in Nodes \cup {ListHead} |-> IF n = ListHead THEN ListHead ELSE "garbage"], last |-> ListHead]
    /\ entry = [n \in Nodes |-> [vector |-> "none"]]
    /\ gic = [v \in Vectors |-> [registered |-> FALSE, enabled |-> FALSE]]
    /\ tpl = "app" /\ ipc = [at |-> "fill", v |-> "summary"]
    /\ cfg = [p \in IrqPins |-> IF p \in InheritedPins THEN [Off EXCEPT !.enable = TRUE, !.target = "kpss"] ELSE Off]
    /\ status \in [IrqPins -> BOOLEAN] /\ level = [p \in IrqPins |-> 0]
    /\ enabledIrqs = {} /\ dualEdge = {} /\ val = 0 /\ seen = [p \in IrqPins |-> 0]
    /\ power \in [mask : BOOLEAN, request : BOOLEAN, asked : {0}, event : {0}]
    /\ trouble = "none" /\ togglesLeft = PinToggles

IrqStep ==
    \/ \E v \in Vectors : RegFill(v) \/ RegLink(v) \/ RegLast(v) \/ RegSource(v) \/ RegMask(v) \/ Unmask(v)
    \/ ClearPower \/ PowerUnmask
    \/ \E p \in IrqPins : IrqUnmask(p) \/ IrqMask(p) \/ \E t \in IrqTypes : SetType(p, t)
    \/ DualRead \/ DualFlip \/ DualLook \/ ClientReads
IrqDeliver == SummaryIrq \/ PowerIrq
IrqNext == IrqStep \/ IrqDeliver \/ (\E p \in IrqPins : Toggle(p)) \/ PowerRequest

\* The processor takes a pending interrupt when it can; the client reads after
\* unmasking, and code at TPL_HIGH_LEVEL goes on.
IrqSpec == IrqInit /\ [][IrqNext]_irqVars
           /\ WF_irqVars(SummaryIrq) /\ WF_irqVars(PowerIrq) /\ WF_irqVars(ClientReads)
           /\ WF_irqVars(DualRead \/ DualFlip \/ DualLook)

-----------------------------------------------------------------------------
(* Properties.                                                             *)

IrqOk ==
    /\ enabledIrqs \subseteq IrqPins /\ dualEdge \subseteq IrqPins /\ tpl \in {"app", "high"}
    /\ \A v \in Vectors : gic[v].enabled => gic[v].registered

\* An interrupt that comes at any point of a registration, of another vector's
\* too, walks a list in which every registered vector has its one entry.
ListSound ==
    /\ Walk \subseteq Nodes /\ \A n \in Walk : entry[n].vector = n
    /\ \A v \in Vectors : gic[v].registered => \E n \in Nodes : GetInterruptHandlerEntry(v) = {n}

\* No handler runs without its entry or before its user unmasked it, and no
\* summary interrupt is taken for a pin that the bitmap does not know.
InterruptsExpected == IrqOk /\ ListSound /\ trouble = "none"

\* A pin that stands still with its interrupt on is known to its client at the
\* level where it stopped: no edge is lost between configuration, unmasking,
\* acknowledgement and reading.
\* (Of the pins whose two edges the hardware detects.)
BothEdges(p) == cfg[p].detect = "both"
ClientKnows(p) == seen[p] = level[p] \/ ~cfg[p].enable
Quiet(p) == togglesLeft = 0 /\ cfg[p].enable
LevelKnown == \A p \in IrqPins : (Quiet(p) /\ BothEdges(p)) ~> ClientKnows(p)
\* Every power request of the running controller ends in an acknowledgement and an event.
PowerServed == (ipc.at = "work" /\ power.request) ~> ~power.request
InterruptsServed == LevelKnown /\ PowerServed

\* The same of every pin whose two edges are emulated.
EmulatedKnown == \A p \in IrqPins : (Quiet(p) /\ p \in dualEdge) ~> ClientKnows(p)
=============================================================================
