------------------------------ MODULE BoardBoot ------------------------------
(***************************************************************************)
(* A program from reset to the loop of its main(): it executes the         *)
(* statements of BoardSteps one by one, while oscillators and PLLs become  *)
(* ready in their own time, and a reset may start it again at any point.   *)
(*                                                                         *)
(* Only what halm does with a statement is assumed here (the clock tree,   *)
(* readiness, the drivers' claims); the statements come from the sources.  *)
(***************************************************************************)
EXTENDS BoardSteps, FiniteSets

CONSTANTS
  Code,          \* Code[p]: the statements of program p, up to its loop
  Starts,        \* Starts[p]: what p may find when it starts, see BoardStarts
  Sharing,       \* programs known to give one resource to two drivers
  MaxResets      \* resets to look at

VARIABLES
  prog, code,    \* the program and its statements
  pc,            \* the next statement; Len(code) + 1 in the loop of main()
  src,           \* the enabled clocks, each with its source and ratio
  ready,         \* the oscillators and PLLs that run
  locals,        \* the local variables of the board function that are true
  settings,      \* "saved" when sharedClockSettings has valid contents
  devices,       \* the drivers that were initialised
  khz,           \* what the last timer that was set up counts in a millisecond
  mode,          \* "run", "asleep" or "failed": an assertion did not hold
  resets

text == << prog, code >>
vars == << text, pc, src, ready, locals, settings, devices, khz, mode, resets >>
tree == << src, ready >>
now == [src |-> src, ready |-> ready]

(* ----------------------------- the clock tree -------------------------- *)
\* Clocks that take time to start; the others select or divide.
Oscillators == {"ExternalOsc", "InternalOsc", "InternalOsc14", "RtcOsc", "WdtOsc",
                "LowPowerOsc", "InternalLowSpeedOsc"}
FractionalPlls == {"SystemPllPfd0", "SystemPllPfd2"}
Plls == {"SystemPll", "UsbPll", "AudioPll", "MainPll", "ArmPll", "Usb1Pll", "Usb2Pll"}
          \cup FractionalPlls
Slow == Oscillators \cup Plls

Link(s, m, d) == [from |-> s, mul |-> m, div |-> d]

\* The layers of the clock trees of all the chips: a clock is fed from a lower
\* one, so that no path is longer than Depth.
Depth == 7
Level(c) ==
  CASE c \in Roots                  -> 0
    [] c \in Oscillators            -> 1
    [] c = "Osc"                    -> 2
    [] c \in Plls \ FractionalPlls  -> 3
    [] c \in FractionalPlls \cup {"DividerA", "DividerB", "DividerC", "DividerD",
               "DividerE", "PeriphClock", "SystemClock"} -> 4
    [] c = "MainClock"              -> 5
    [] c \in {"Apb0Clock", "ApbClock", "IpgClock"} -> 6
    [] OTHER                        -> Depth

\* "Osc" of the imxrt is the oscillator that runs.
Up(t, c) ==
  CASE c = "Osc"          -> IF "ExternalOsc" \in t.ready THEN "ExternalOsc" ELSE "InternalOsc"
    [] c \in DOMAIN t.src -> t.src[c].from
    [] OTHER              -> c

Path(t, c) ==
  LET up[n \in 0..Depth] == IF n = 0 THEN c ELSE Up(t, up[n - 1])
  IN  up
Chain(t, c) == {Path(t, c)[n] : n \in 0..Depth}

IsReady(t, c) == c \in DOMAIN t.src /\ (c \in Slow => c \in t.ready)

\* c and everything above it run, up to a source that is always there.
Fed(t, c) == /\ \A d \in Chain(t, c) : d \in Roots \cup {"Osc"} \/ IsReady(t, d)
             /\ Path(t, c)[Depth] \in Roots

\* The rate of c in kHz, from a crystal or internal oscillator of 12 MHz: the
\* rates matter on the lpc43xx boards only.
Rate(t, c) ==
  LET rate[n \in 0..Depth] ==
        IF n = 0 THEN 12000
        ELSE LET d == Path(t, c)[Depth - n]
             IN  IF d \in DOMAIN t.src THEN (rate[n - 1] * t.src[d].mul) \div t.src[d].div
                 ELSE rate[n - 1]
  IN  rate[Depth]

\* The PLLs that lose their lock when c stops or is started again.
Below(c) == {d \in ready \cap Plls : c \in Chain(now, d)} \cup {c}

Feed(c, link) ==
  /\ src' = [x \in DOMAIN src \cup {c} |-> IF x = c THEN link ELSE src[x]]
  /\ ready' = IF c \in Plls THEN ready \ Below(c) ELSE ready

\* Every clock is fed from a lower layer.
Layered(links) ==
  \A c \in DOMAIN links : c # "Osc" /\ Level(links[c].from) < Level(c)

(* -------------------------------- programs ----------------------------- *)
\* The core and the memory that it fetches the program from.
Vital(links) == {"MainClock"} \cup ({"SpifiClock", "FlashClock"} \cap DOMAIN links)

\* What BoardSteps and the clock trees make of every program: branches stay
\* inside of it, and clocks are fed from lower layers.
ASSUME CodeAssumption ==
  \A p \in DOMAIN Code :
    /\ Len(Code[p]) \in Nat /\ DOMAIN Code[p] = 1..Len(Code[p])
    /\ \A i \in DOMAIN Code[p] :
         LET st == Code[p][i]
         IN  /\ st.op \in {"if", "jump"} =>
                  st.n \in Int /\ i + 1 + st.n \in 1..Len(Code[p]) + 1
             /\ st.op \in {"on", "within"} =>
                  st.clk # "Osc" /\ Level(st.src) < Level(st.clk)
             /\ st.op = "within" => st.mhz \in Nat \ {0}

\* A program starts with a core and a memory that are clocked, and not through
\* the oscillator that a reset leaves alone.
ASSUME StartAssumption ==
  \A p \in DOMAIN Code : \A s \in Starts[p] :
    /\ Layered(s.src) /\ s.ready \subseteq Slow \cap DOMAIN s.src
    /\ s.settings \in {"none", "saved"}
    /\ \A c \in Vital(s.src) : Fed(s, c) /\ "RtcOsc" \notin Chain(s, c)

ASSUME ResetsAssumption == MaxResets \in Nat

(* ------------------------------ statements ----------------------------- *)
Holds(t) ==
  CASE t.is = "ready"   -> IsReady(now, t.clk)
    [] t.is = "stopped" -> ~IsReady(now, t.clk)
    [] t.is = "above"   -> Rate(now, t.clk) > t.mhz * 1000
    [] t.is = "local"   -> t.var \in locals
    [] t.is = "unset"   -> t.var \notin locals
    [] t.is = "saved"   -> settings = "saved"
    [] t.is = "counts"  -> khz >= t.khz
    [] t.is = "never"   -> FALSE

InLoop == pc > Len(code)
Statement == code[pc]
At(op) == mode = "run" /\ ~InLoop /\ Statement.op = op

EnableClock ==
  /\ At("on")
  /\ Feed(Statement.clk, Link(Statement.src, Statement.mul, Statement.div))
  /\ pc' = pc + 1
  /\ UNCHANGED << text, locals, settings, devices, khz, mode, resets >>

EnableDivider ==
  /\ At("within")
  /\ LET limit == Statement.mhz * 1000
     IN  Feed(Statement.clk,
              Link(Statement.src, 1, (Rate(now, Statement.src) + limit - 1) \div limit))
  /\ pc' = pc + 1
  /\ UNCHANGED << text, locals, settings, devices, khz, mode, resets >>

AwaitClock ==
  /\ At("wait") /\ IsReady(now, Statement.clk)
  /\ pc' = pc + 1
  /\ UNCHANGED << text, tree, locals, settings, devices, khz, mode, resets >>

\* Mutant: a disabled clock is still reported as ready.
DisableButReady ==
  /\ At("off")
  /\ src' = [x \in DOMAIN src \ {Statement.clk} |-> src[x]]
  /\ pc' = pc + 1
  /\ UNCHANGED << text, ready, locals, settings, devices, khz, mode, resets >>

DisableClock ==
  /\ At("off")
  /\ src' = [x \in DOMAIN src \ {Statement.clk} |-> src[x]]
  /\ ready' = ready \ Below(Statement.clk)
  /\ pc' = pc + 1
  /\ UNCHANGED << text, locals, settings, devices, khz, mode, resets >>

CheckAssertion ==
  /\ At("assert")
  /\ mode' = IF Holds(Statement.test) THEN "run" ELSE "failed"
  /\ pc' = pc + 1
  /\ UNCHANGED << text, tree, locals, settings, devices, khz, resets >>

Assign ==
  /\ At("note")
  /\ locals' = IF Holds(Statement.test) THEN locals \cup {Statement.var}
               ELSE locals \ {Statement.var}
  /\ pc' = pc + 1
  /\ UNCHANGED << text, tree, settings, devices, khz, mode, resets >>

ForgetSettings ==
  /\ At("forget")
  /\ settings' = "none" /\ locals' = locals \ {Statement.var}
  /\ pc' = pc + 1
  /\ UNCHANGED << text, tree, devices, khz, mode, resets >>

Branch ==
  /\ At("if")
  /\ pc' = pc + 1 + (IF Holds(Statement.test) THEN 0 ELSE Statement.n)
  /\ UNCHANGED << text, tree, locals, settings, devices, khz, mode, resets >>

Jump ==
  /\ At("jump")
  /\ pc' = pc + 1 + Statement.n
  /\ UNCHANGED << text, tree, locals, settings, devices, khz, mode, resets >>

InitDevice ==
  /\ At("init")
  /\ devices' = devices \cup {[at |-> pc, clk |-> Statement.clk, res |-> Statement.res]}
  /\ khz' = IF Statement.khz > 0 THEN Statement.khz ELSE khz
  /\ pc' = pc + 1
  /\ UNCHANGED << text, tree, locals, settings, mode, resets >>

Suspend ==
  /\ At("sleep")
  /\ mode' = "asleep" /\ pc' = pc + 1
  /\ UNCHANGED << text, tree, locals, settings, devices, khz, resets >>

MainLoop ==
  /\ mode = "run" /\ InLoop
  /\ UNCHANGED vars

(* ------------------------------ surroundings --------------------------- *)
\* An oscillator starts, a PLL locks, once its source runs.
Settle(c) ==
  /\ c \in DOMAIN src \ ready /\ Fed(now, src[c].from)
  /\ ready' = ready \cup {c}
  /\ UNCHANGED << text, pc, src, locals, settings, devices, khz, mode, resets >>

\* The alarm of the RTC.
Wake ==
  /\ mode = "asleep"
  /\ mode' = "run"
  /\ UNCHANGED << text, pc, tree, locals, settings, devices, khz, resets >>

\* The watchdog, the brown-out detector or the reset button: clocks and devices
\* are those of a start, the backup oscillator and the contents of the memory
\* stay, unless a loader writes its own settings.
Kept == {"RtcOsc"} \cap DOMAIN src
Restart(s) ==
  /\ pc' = 1 /\ locals' = {} /\ devices' = {} /\ khz' = 0 /\ mode' = "run"
  /\ src' = [x \in DOMAIN s.src \cup Kept |-> IF x \in Kept THEN src[x] ELSE s.src[x]]
  /\ ready' = s.ready \cup (Kept \cap ready)
  /\ settings' = IF s.loader THEN s.settings ELSE settings
  /\ UNCHANGED text

Reset ==
  /\ resets < MaxResets /\ resets' = resets + 1
  /\ \E s \in Starts[prog] : Restart(s)

Init ==
  /\ prog \in DOMAIN Code /\ code = Code[prog]
  /\ \E s \in Starts[prog] :
       src = s.src /\ ready = s.ready /\ settings = s.settings
  /\ pc = 1 /\ locals = {} /\ devices = {} /\ khz = 0 /\ mode = "run" /\ resets = 0

\* The program: only one of these is possible at a time.
Step ==
  \/ EnableClock \/ EnableDivider \/ AwaitClock \/ DisableClock \/ CheckAssertion \/ Assign
  \/ ForgetSettings \/ Branch \/ Jump \/ InitDevice \/ Suspend

Next == Step \/ MainLoop \/ (\E c \in Slow : Settle(c)) \/ Wake \/ Reset

\* The core executes, a clock with a running source starts in the end, and the
\* alarm comes.
Fairness == WF_vars(Step) /\ WF_vars(Wake) /\ \A c \in Slow : WF_vars(Settle(c))

SafeSpec == Init /\ [][Next]_vars
Spec == SafeSpec /\ Fairness

(* ------------------------------ properties ----------------------------- *)
TypeOK ==
  /\ pc \in 1..Len(code) + 1
  /\ mode \in {"run", "asleep", "failed"} /\ settings \in {"none", "saved"}
  /\ ready \subseteq Slow \cap DOMAIN src
  /\ resets \in 0..MaxResets

\* The core and the memory that the program is fetched from never lose their
\* clock: no board function stops or restarts a clock that one of them still
\* runs from ("Running from NOR Flash, switch SPIFI clock to IRC without
\* disabling").
CoreClocked == \A c \in Vital(src) : Fed(now, c)

\* The same of the memory alone, which a program may run from or not.
FetchClocked == \A c \in {"SpifiClock", "FlashClock"} \cap DOMAIN src : Fed(now, c)

\* Every driver that was set up has its clock from then on, whatever is set up
\* after it.
DevicesClocked == mode = "run" => \A d \in devices : Fed(now, d.clk)

\* The discipline that the board functions keep, statement by statement: they
\* stop no clock, and start no PLL again, that the core, its memory or a driver
\* at work runs through; such a clock is moved only to a source that runs, the
\* memory is never moved to another, and a driver starts with a running clock.
InUse == Vital(src) \cup {d.clk : d \in devices}
Busy(c) == \E x \in InUse : c \in Chain(now, x)
Orderly ==
  mode = "run" /\ ~InLoop =>
    /\ Statement.op = "off" => ~Busy(Statement.clk)
    /\ Statement.op \in {"on", "within"} =>
         /\ Busy(Statement.clk) => Statement.clk \notin Plls
         /\ Busy(Statement.clk) \/ Statement.clk \in {"SpifiClock", "FlashClock"}
              => Fed(now, Statement.src)
    /\ Statement.op = "init" => Fed(now, Statement.clk)

\* No two drivers of a program own one pin, channel or peripheral.
Overlaps == \E d, e \in devices : d # e /\ d.res \cap e.res # {}
Exclusive == prog \notin Sharing => ~Overlaps

\* The rates that parts of the lpc43xx boards need: the Flash memory at 30 MHz
\* or below, the USB controllers at 480 and 60 MHz, the card below 52 MHz, and a
\* core of 96 MHz when it uses the SDRAM and set up its clock itself.
RatesRight ==
  /\ "SpifiClock" \in DOMAIN src => Rate(now, "SpifiClock") =< 30000
  /\ "Usb0Clock" \in DOMAIN src => Rate(now, "Usb0Clock") = 480000
  /\ "Usb1Clock" \in DOMAIN src /\ prog[1] = "lpc43xx" => Rate(now, "Usb1Clock") = 60000
  /\ "SdioClock" \in DOMAIN src => Rate(now, "SdioClock") =< 52000
  /\ (\E d \in devices : "SDRAM" \in d.res) /\ "loaded" \notin locals
       => Rate(now, "MainClock") =< 96000

\* In the loop of main() the core runs from the crystal, whatever a loader or an
\* earlier run left; asleep, no PLL and no fast oscillator is left running.
CoreSource ==
  /\ mode = "run" /\ InLoop => "Crystal" \in Chain(now, "MainClock")
  /\ mode = "asleep" => ready \subseteq {"RtcOsc"}

\* An lpc43xx core goes above 110 MHz only from 90 MHz or more.
RampUp ==
  [][resets' = resets /\ Rate(now, "MainClock")' > 110000 => Rate(now, "MainClock") >= 90000]_vars

\* assert() holds.
AssertionsHold == mode # "failed"

\* Every program reaches its loop or, when it suspends, its sleep.
BootEnds == []<>(mode = "asleep" \/ (mode = "run" /\ InLoop))
=============================================================================
