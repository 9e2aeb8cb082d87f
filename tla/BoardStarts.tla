----------------------------- MODULE BoardStarts -----------------------------
(***************************************************************************)
(* What a program may find when it starts: the clocks that the reset, the  *)
(* boot code of the chip or a loader (USE_DFU) left running, and whether a *)
(* loader left its settings.  The boot code and the loaders are not part   *)
(* of the repository.                                                      *)
(***************************************************************************)
EXTENDS BoardPrograms

From(s, m, d) == [from |-> s, mul |-> m, div |-> d]
Start0(links, running) ==
  [src |-> links, ready |-> running, settings |-> "none", loader |-> FALSE]
Left(links, running, saved) ==
  [src |-> links, ready |-> running, settings |-> saved, loader |-> TRUE]

Cold == "MainClock" :> From("Internal", 1, 1)

\* lpc43xx: also from the NOR Flash memory, and after a loader that has brought
\* the core to 204 MHz and may have started that memory.
ColdNor == Cold @@ "SpifiClock" :> From("Internal", 1, 1)
Fast == "ExternalOsc" :> From("Crystal", 1, 1) @@ "SystemPll" :> From("ExternalOsc", 17, 1)
          @@ "MainClock" :> From("SystemPll", 1, 1)
FastNor == Fast @@ "DividerD" :> From("SystemPll", 1, 7)
             @@ "SpifiClock" :> From("DividerD", 1, 1)
FastOn == {"ExternalOsc", "SystemPll"}

InRam == {Start0(Cold, {})} \cup {Left(Fast, FastOn, s) : s \in {"none", "saved"}}
InNor == {Start0(ColdNor, {})} \cup {Left(FastNor, FastOn, s) : s \in {"none", "saved"}}

\* The second core: the first one has started the clocks, maybe AudioPll too.
AfterFirstCore ==
  {Left(Fast, FastOn, "saved"),
   Left(Fast @@ "AudioPll" :> From("ExternalOsc", 40, 4), FastOn \cup {"AudioPll"}, "saved")}

\* stm32: MainClock is divided from SystemClock.
ColdStm == "SystemClock" :> From("Internal", 1, 1) @@ "MainClock" :> From("SystemClock", 1, 1)

\* imxrt: the oscillator of 24 MHz that was chosen by the boot code.
ColdImxrt == "InternalOsc" :> From("Internal", 1, 1) @@ "PeriphClock" :> From("Osc", 1, 1)
               @@ "MainClock" :> From("PeriphClock", 1, 1)

\* bl602: the boot code reads the Flash memory, from the core clock or the PLL.
ColdBl == Cold @@ "FlashClock" :> From("MainClock", 1, 1)
FastBl == Fast @@ "FlashClock" :> From("SystemPll", 1, 1)

StartsOf(p) ==
  CASE p[1] = "lpc43xx"       -> IF p[2] = "spim" \/ p[2] = "pm_suspend" THEN InRam
                                 ELSE InRam \cup InNor
    [] p[1] = "lpc43xx_m0app" -> AfterFirstCore
    [] p[1] \in {"stm32f0", "stm32f1", "stm32f4"} -> {Start0(ColdStm, {})}
    [] p[1] = "imxrt106x"     -> {Start0(ColdImxrt, {"InternalOsc"})}
    [] p[1] = "bl602"         -> {Start0(ColdBl, {}), Left(FastBl, FastOn, "none")}
    [] OTHER                  -> {Start0(Cold, {})}

=============================================================================
