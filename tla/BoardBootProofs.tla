--------------------------- MODULE BoardBootProofs ---------------------------
(***************************************************************************)
(* The set-up of the boards, for every program, every start and every      *)
(* number of resets: what the assumptions on the statements and on the     *)
(* clock trees give is an invariant of every run.                          *)
(*                                                                         *)
(* The path of a clock climbs one layer or stays, so a fed clock ends at a *)
(* source that is always there.  A step changes one clock: paths that do   *)
(* not go through it stay (Undisturbed), those that do are moved to a      *)
(* source that runs (Moved).  The last section is about findPllConfig().   *)
(***************************************************************************)
EXTENDS BoardBoot, PllSearch, WellFoundedInduction, TLAPS

(* ------------------------------ paths ---------------------------------- *)
(* Every clock is in a layer, and the lowest one is that of the roots.     *)
LEMMA LevelRange ==
  ASSUME NEW c
  PROVE  Level(c) \in 0..7 /\ (Level(c) = 0 <=> c \in Roots)
BY DEF Level, Depth, Roots, Oscillators, Plls, FractionalPlls

(* The clock that selects an oscillator is above both.                     *)
LEMMA OscLevels ==
  Level("Osc") = 2 /\ Level("ExternalOsc") = 1 /\ Level("InternalOsc") = 1
BY DEF Level, Roots, Oscillators, Plls, FractionalPlls

(* A path starts at its clock and goes from each clock to what feeds it.   *)
LEMMA PathIs ==
  ASSUME NEW t, NEW c
  PROVE  /\ Path(t, c)[0] = c
         /\ \A n \in 1..7 : Path(t, c)[n] = Up(t, Path(t, c)[n - 1])
<1> DEFINE a1 == Up(t, c)
           a2 == Up(t, a1)
           a3 == Up(t, a2)
           a4 == Up(t, a3)
           a5 == Up(t, a4)
           a6 == Up(t, a5)
           a7 == Up(t, a6)
           g == [n \in 0..7 |-> CASE n = 0 -> c [] n = 1 -> a1 [] n = 2 -> a2 [] n = 3 -> a3
                                  [] n = 4 -> a4 [] n = 5 -> a5 [] n = 6 -> a6 [] n = 7 -> a7]
           F(f) == [n \in 0..7 |-> IF n = 0 THEN c ELSE Up(t, f[n - 1])]
<1>1. g = F(g)
  <2>1. ASSUME NEW n \in 0..7
        PROVE  g[n] = F(g)[n]
    <3>1. \/ n = 0 \/ n = 1 \/ n = 2 \/ n = 3 \/ n = 4 \/ n = 5 \/ n = 6 \/ n = 7
      OBVIOUS
    <3>2. /\ g[0] = c /\ g[1] = a1 /\ g[2] = a2 /\ g[3] = a3
          /\ g[4] = a4 /\ g[5] = a5 /\ g[6] = a6 /\ g[7] = a7
      OBVIOUS
    <3> HIDE DEF g
    <3> QED BY <3>1, <3>2
  <2> QED BY <2>1
<1>2. Path(t, c) = CHOOSE f : f = F(f)
  BY DEF Path, Depth
<1> HIDE DEF g
<1>3. Path(t, c) = F(Path(t, c))
  BY <1>1, <1>2
<1> QED BY <1>3

-----------------------------------------------------------------------------
(* A set that the sources do not lead out of holds the whole chain.        *)
LEMMA ChainWithin ==
  ASSUME NEW t, NEW S, NEW c \in S, \A d \in S : Up(t, d) \in S
  PROVE  Chain(t, c) \subseteq S
<1> DEFINE p == Path(t, c)
<1>1. p[0] = c /\ \A n \in 1..7 : p[n] = Up(t, p[n - 1])
  BY PathIs
<1> HIDE DEF p
<1>2. \A n \in 1..7 : p[n - 1] \in S => p[n] \in S
  BY <1>1
<1>3. /\ p[0] \in S /\ p[1] \in S /\ p[2] \in S /\ p[3] \in S
      /\ p[4] \in S /\ p[5] \in S /\ p[6] \in S /\ p[7] \in S
  BY <1>1, <1>2
<1>4. \A n \in 0..7 : p[n] \in S
  BY <1>3
<1> QED BY <1>4 DEF Chain, Depth, p

(* A clock is on its own chain.                                            *)
LEMMA InChain == ASSUME NEW t, NEW c PROVE c \in Chain(t, c)
BY PathIs DEF Chain, Depth

(* In a layered tree a clock is above its source, and nothing feeds what   *)
(* is always there.                                                        *)
LEMMA UpLower ==
  ASSUME NEW t, Layered(t.src), NEW c
  PROVE  /\ c \in Roots => Up(t, c) = c
         /\ c \notin Roots /\ (c = "Osc" \/ c \in DOMAIN t.src) => Level(Up(t, c)) < Level(c)
<1>1. \A d : Level(d) \in 0..7 /\ (Level(d) = 0 <=> d \in Roots)
  BY LevelRange
<1>2. c \in Roots => c # "Osc" /\ c \notin DOMAIN t.src
  BY <1>1, OscLevels DEF Layered
<1>3. CASE c = "Osc"
  BY <1>2, <1>3, OscLevels DEF Up, Layered
<1>4. CASE c # "Osc" /\ c \in DOMAIN t.src
  BY <1>2, <1>4 DEF Up, Layered
<1>5. CASE c # "Osc" /\ c \notin DOMAIN t.src
  BY <1>5 DEF Up
<1> QED BY <1>3, <1>4, <1>5

(* What a running clock stands on: its chain leads to a source that is     *)
(* always there, along clocks that run.                                    *)
Running(t, c) == c = "Osc" \/ IsReady(t, c)

LEMMA FedChain ==
  ASSUME NEW t, Layered(t.src), NEW c, Fed(t, c), NEW d \in Chain(t, c)
  PROVE  /\ Up(t, d) \in Chain(t, c)
         /\ d \in Roots \/ Running(t, d)
<1> DEFINE p == Path(t, c)
<1>1. \A n \in 1..7 : p[n] = Up(t, p[n - 1])
  BY PathIs
<1>2. Chain(t, c) = {p[n] : n \in 0..7} /\ p[7] \in Roots
  BY DEF Chain, Fed, Depth
<1> HIDE DEF p
<1>3. PICK n \in 0..7 : d = p[n]
  BY <1>2
<1>4. CASE n = 7
  <2>1. Up(t, d) = d
    BY <1>2, <1>3, <1>4, UpLower
  <2> QED BY <2>1 DEF Fed, Running
<1>5. CASE n # 7
  <2>1. n + 1 \in 1..7 /\ n + 1 \in 0..7 /\ (n + 1) - 1 = n
    BY <1>5
  <2>2. Up(t, d) = p[n + 1]
    BY <1>1, <1>3, <2>1
  <2>3. Up(t, d) \in Chain(t, c)
    BY <1>2, <2>1, <2>2
  <2> QED BY <2>3 DEF Fed, Running
<1> QED BY <1>4, <1>5

(* And the converse: a set of running clocks that their sources do not     *)
(* lead out of consists of fed clocks.                                     *)
LEMMA FedBySet ==
  ASSUME NEW t, Layered(t.src), NEW S, NEW c \in S,
         \A d \in S : d \in Roots \/ (Running(t, d) /\ Up(t, d) \in S)
  PROVE  Fed(t, c)
<1> DEFINE p == Path(t, c)
           B(n) == p[n] \in S /\ (p[n] \in Roots \/ Level(p[n]) + n =< 7)
<1>1. p[0] = c /\ \A n \in 1..7 : p[n] = Up(t, p[n - 1])
  BY PathIs
<1>2. \A d \in S : Up(t, d) \in S
  BY UpLower
<1>3. Chain(t, c) \subseteq S
  BY <1>2, ChainWithin
<1>4. \A d : Level(d) \in 0..7 /\ (Level(d) = 0 <=> d \in Roots)
  BY LevelRange
<1> HIDE DEF p
<1>5. B(0)
  BY <1>1, <1>4
<1>6. ASSUME NEW n \in 1..7, B(n - 1)
      PROVE  B(n)
  <2>1. p[n] = Up(t, p[n - 1])
    BY <1>1
  <2>2. CASE p[n - 1] \in Roots
    BY <1>6, <2>1, <2>2, UpLower
  <2>3. CASE p[n - 1] \notin Roots
    <3>1. Running(t, p[n - 1]) /\ p[n] \in S
      BY <1>6, <2>1, <2>3
    <3>2. Level(p[n]) < Level(p[n - 1])
      BY <2>1, <2>3, <3>1, UpLower DEF Running, IsReady
    <3> QED BY <1>4, <1>6, <2>3, <3>1, <3>2
  <2> QED BY <2>2, <2>3
<1> HIDE DEF B
<1>7. B(1) /\ B(2) /\ B(3) /\ B(4) /\ B(5) /\ B(6) /\ B(7)
  <2>1. B(1)
    BY <1>5, <1>6
  <2>2. B(2)
    BY <2>1, <1>6
  <2>3. B(3)
    BY <2>2, <1>6
  <2>4. B(4)
    BY <2>3, <1>6
  <2>5. B(5)
    BY <2>4, <1>6
  <2>6. B(6)
    BY <2>5, <1>6
  <2>7. B(7)
    BY <2>6, <1>6
  <2> QED BY <2>1, <2>2, <2>3, <2>4, <2>5, <2>6, <2>7
<1>8. p[7] \in Roots
  BY <1>4, <1>7 DEF B
<1>9. \A d \in Chain(t, c) : d \in Roots \cup {"Osc"} \/ IsReady(t, d)
  BY <1>3 DEF Running
<1> QED BY <1>8, <1>9 DEF Fed, Depth, p

(* What feeds a clock is below it.                                         *)
LEMMA ChainBelow ==
  ASSUME NEW t, Layered(t.src), NEW c, Fed(t, c), NEW d \in Chain(t, c)
  PROVE  Level(d) =< Level(c) /\ Chain(t, d) \subseteq Chain(t, c)
<1> DEFINE S == {e \in Chain(t, c) : Level(e) =< Level(c)}
<1>1. \A e : Level(e) \in 0..7
  BY LevelRange
<1>2. \A e \in Chain(t, c) : Up(t, e) \in Chain(t, c) /\ (e \in Roots \/ Running(t, e))
  BY FedChain
<1>3. ASSUME NEW e \in S PROVE Up(t, e) \in S
  <2>1. CASE e \in Roots
    BY <2>1, UpLower
  <2>2. CASE e \notin Roots
    BY <1>1, <1>2, <2>2, UpLower DEF Running, IsReady
  <2> QED BY <2>1, <2>2
<1>4. c \in S
  BY <1>1, InChain
<1> HIDE DEF S
<1>5. Chain(t, c) \subseteq S
  BY <1>3, <1>4, ChainWithin
<1>6. Chain(t, d) \subseteq Chain(t, c)
  BY <1>2, ChainWithin
<1> QED BY <1>5, <1>6 DEF S

-----------------------------------------------------------------------------
(* A clock that stops, or a PLL that starts again, disturbs only what runs *)
(* through it: t is the tree before, u the tree after, c the clock.        *)
LEMMA Undisturbed ==
  ASSUME NEW t, NEW u, Layered(t.src), Layered(u.src), NEW c, NEW x,
         Fed(t, x), c \notin Chain(t, x), u.ready \subseteq t.ready,
         \A d \in DOMAIN t.src \ {c} : d \in DOMAIN u.src /\ u.src[d] = t.src[d],
         \A d \in t.ready \ u.ready : d = c \/ (d \in Plls /\ c \in Chain(t, d))
  PROVE  Fed(u, x)
<1> DEFINE S == Chain(t, x)
<1>1. \A d \in S : Up(t, d) \in S /\ (d \in Roots \/ Running(t, d))
  BY FedChain
<1>2. \A d \in S : d # c /\ c \notin Chain(t, d)
  BY ChainBelow
<1>3. x \in S
  BY InChain
<1>4. \A d \in S : d \in t.ready => d \in u.ready
  BY <1>2
<1>5. ASSUME NEW d \in S, d \notin Roots
      PROVE  Running(u, d) /\ Up(u, d) = Up(t, d)
  <2>1. CASE d = "Osc"
    <3>1. "ExternalOsc" \in t.ready => "ExternalOsc" \in S
      BY <1>1, <2>1, UpLower DEF Up, Layered
    <3>2. "ExternalOsc" \in t.ready <=> "ExternalOsc" \in u.ready
      BY <1>4, <3>1
    <3>3. "Osc" \notin DOMAIN t.src /\ "Osc" \notin DOMAIN u.src
      BY DEF Layered
    <3> QED BY <2>1, <3>2, <3>3 DEF Up, Running
  <2>2. CASE d # "Osc"
    <3>1. IsReady(t, d)
      BY <1>1, <1>5, <2>2 DEF Running
    <3>2. d \in DOMAIN u.src /\ u.src[d] = t.src[d] /\ d \in DOMAIN t.src
      BY <1>2, <3>1 DEF IsReady
    <3>3. IsReady(u, d)
      BY <1>4, <3>1, <3>2 DEF IsReady
    <3> QED BY <2>2, <3>2, <3>3 DEF Up, Running
  <2> QED BY <2>1, <2>2
<1> HIDE DEF S
<1>6. \A d \in S : d \in Roots \/ (Running(u, d) /\ Up(u, d) \in S)
  BY <1>1, <1>5
<1> QED BY <1>3, <1>6, FedBySet

(* A clock that is no PLL may be moved, or started, while others run       *)
(* through it, to a source s that runs and is below it.                    *)
LEMMA Moved ==
  ASSUME NEW t, NEW u, Layered(t.src), Layered(u.src), NEW c, NEW s, Fed(t, s),
         c # "Osc", Level(s) < Level(c), u.ready = t.ready,
         DOMAIN u.src = DOMAIN t.src \cup {c}, u.src[c].from = s,
         \A d \in DOMAIN t.src \ {c} : u.src[d] = t.src[d],
         NEW x, (Fed(t, x) /\ (c \in Slow => c \in t.ready)) \/ (x = c /\ c \notin Slow)
  PROVE  Fed(u, x)
<1>1. \A d : Level(d) \in 0..7 /\ (Level(d) = 0 <=> d \in Roots)
  BY LevelRange
<1>2. /\ "Osc" \notin DOMAIN t.src /\ "Osc" \notin DOMAIN u.src
      /\ \A d \in DOMAIN t.src \cup DOMAIN u.src : d \notin Roots
  BY <1>1 DEF Layered
<1>3. ASSUME NEW d, d # c, d \in Roots \/ Running(t, d)
      PROVE  Up(u, d) = Up(t, d) /\ (d \in Roots \/ Running(u, d))
  <2>1. CASE d = "Osc"
    BY <1>2, <2>1 DEF Up, Running
  <2>2. CASE d # "Osc" /\ d \in DOMAIN t.src
    BY <1>2, <1>3, <2>2 DEF Up, Running, IsReady
  <2>3. CASE d # "Osc" /\ d \notin DOMAIN t.src
    <3>1. d \notin DOMAIN u.src /\ d \in Roots
      BY <1>3, <2>3 DEF Running, IsReady
    <3> QED BY <2>3, <3>1 DEF Up
  <2> QED BY <2>1, <2>2, <2>3
<1>4. Up(u, c) = s
  BY DEF Up
<1>5. \A d \in Chain(t, s) : d # c /\ Up(t, d) \in Chain(t, s) /\ (d \in Roots \/ Running(t, d))
  BY <1>1, FedChain, ChainBelow
<1>6. s \in Chain(t, s)
  BY InChain
<1>7. c \notin Roots /\ c \in DOMAIN u.src
  BY <1>1
<1>8. CASE x = c /\ c \notin Slow
  <2> DEFINE S == Chain(t, s) \cup {c}
  <2>1. Running(u, c)
    BY <1>7, <1>8 DEF Running, IsReady
  <2>2. ASSUME NEW d \in S PROVE d \in Roots \/ (Running(u, d) /\ Up(u, d) \in S)
    <3>1. CASE d = c
      BY <1>4, <1>6, <2>1, <3>1
    <3>2. CASE d # c
      BY <1>3, <1>5, <3>2
    <3> QED BY <3>1, <3>2
  <2>3. x \in S
    BY <1>8
  <2> HIDE DEF S
  <2> QED BY <2>2, <2>3, FedBySet
<1>9. CASE Fed(t, x) /\ (c \in Slow => c \in t.ready)
  <2> DEFINE S == Chain(t, s) \cup Chain(t, x)
  <2>1. Running(u, c)
    BY <1>7, <1>9 DEF Running, IsReady
  <2>2. \A d \in Chain(t, x) : Up(t, d) \in Chain(t, x) /\ (d \in Roots \/ Running(t, d))
    BY <1>9, FedChain
  <2>3. ASSUME NEW d \in S PROVE d \in Roots \/ (Running(u, d) /\ Up(u, d) \in S)
    <3>1. CASE d = c
      BY <1>4, <1>6, <2>1, <3>1
    <3>2. CASE d # c
      BY <1>3, <1>5, <2>2, <3>2
    <3> QED BY <3>1, <3>2
  <2>4. x \in S
    BY InChain
  <2> HIDE DEF S
  <2> QED BY <2>3, <2>4, FedBySet
<1> QED BY <1>8, <1>9

(* An oscillator or a PLL that becomes ready disturbs nothing, the imxrt   *)
(* oscillator that takes over included.                                    *)
LEMMA Settled ==
  ASSUME NEW t, NEW u, Layered(t.src), NEW c \in DOMAIN t.src, Fed(t, t.src[c].from),
         u.src = t.src, u.ready = t.ready \cup {c}, NEW x, Fed(t, x)
  PROVE  Fed(u, x)
<1>1. \A d : Level(d) \in 0..7 /\ (Level(d) = 0 <=> d \in Roots)
  BY LevelRange
<1>2. "Osc" \notin DOMAIN t.src
  BY DEF Layered
<1>3. \A d \in Chain(t, x) : Up(t, d) \in Chain(t, x) /\ (d \in Roots \/ Running(t, d))
  BY FedChain
<1>4. \A d : Running(t, d) => Running(u, d)
  BY DEF Running, IsReady
<1>5. \A d : d # "Osc" => Up(u, d) = Up(t, d)
  BY DEF Up
<1>6. x \in Chain(t, x)
  BY InChain
<1>7. CASE Up(u, "Osc") = Up(t, "Osc")
  <2> DEFINE S == Chain(t, x)
  <2>1. \A d \in S : d \in Roots \/ (Running(u, d) /\ Up(u, d) \in S)
    BY <1>3, <1>4, <1>5, <1>7
  <2> HIDE DEF S
  <2> QED BY <1>6, <2>1, FedBySet DEF S
<1>8. CASE Up(u, "Osc") # Up(t, "Osc")
  <2> DEFINE r == t.src["ExternalOsc"].from
             S == Chain(t, x) \cup {"ExternalOsc", r}
  <2>1. c = "ExternalOsc" /\ Up(u, "Osc") = "ExternalOsc"
    BY <1>2, <1>8 DEF Up
  <2>2. Level(r) < Level("ExternalOsc") /\ Level("ExternalOsc") = 1
    BY <2>1, OscLevels DEF Layered
  <2>3. r \in Roots
    BY <1>1, <2>2
  <2>4. Running(u, "ExternalOsc") /\ Up(u, "ExternalOsc") = r
    BY <2>1 DEF Running, IsReady, Up
  <2>5. ASSUME NEW d \in S PROVE d \in Roots \/ (Running(u, d) /\ Up(u, d) \in S)
    <3>1. CASE d \in {"ExternalOsc", r}
      BY <2>3, <2>4, <3>1
    <3>2. CASE d \in Chain(t, x)
      BY <1>3, <1>4, <1>5, <2>1, <3>2
    <3> QED BY <3>1, <3>2
  <2>6. x \in S
    BY <1>6
  <2> HIDE DEF S
  <2> QED BY <2>5, <2>6, FedBySet
<1> QED BY <1>7, <1>8

(* A start of the program gives it the clocks of that start; the backup    *)
(* oscillator, which stays, is none of them.                               *)
LEMMA Restarted ==
  ASSUME NEW s, NEW u, Layered(s.src), Layered(u.src), NEW x, Fed(s, x),
         "RtcOsc" \notin Chain(s, x),
         \A d \in DOMAIN s.src \ {"RtcOsc"} : d \in DOMAIN u.src /\ u.src[d] = s.src[d],
         s.ready \subseteq u.ready, u.ready \subseteq s.ready \cup {"RtcOsc"}
  PROVE  Fed(u, x)
<1>1. \A d \in Chain(s, x) : Up(s, d) \in Chain(s, x) /\ (d \in Roots \/ Running(s, d))
  BY FedChain
<1>2. "Osc" \notin DOMAIN s.src /\ "Osc" \notin DOMAIN u.src
  BY DEF Layered
<1>3. ASSUME NEW d \in Chain(s, x), d \notin Roots
      PROVE  Running(u, d) /\ Up(u, d) = Up(s, d)
  <2>1. CASE d = "Osc"
    BY <1>2, <2>1 DEF Up, Running
  <2>2. CASE d # "Osc"
    <3>1. d \in DOMAIN s.src \ {"RtcOsc"} /\ IsReady(s, d)
      BY <1>1, <1>3, <2>2 DEF Running, IsReady
    <3> QED BY <2>2, <3>1 DEF Up, Running, IsReady
  <2> QED BY <2>1, <2>2
<1> DEFINE S == Chain(s, x)
<1>4. \A d \in S : d \in Roots \/ (Running(u, d) /\ Up(u, d) \in S)
  BY <1>1, <1>3
<1>5. x \in S
  BY InChain
<1> HIDE DEF S
<1> QED BY <1>4, <1>5, FedBySet

-----------------------------------------------------------------------------
(* What a program keeps by itself, however it treats its clocks: it is one *)
(* of the programs, its clocks are layered, and each driver is that of a   *)
(* statement of the program.                                               *)
BootInv ==
  /\ prog \in DOMAIN Code /\ code = Code[prog]
  /\ Layered(src)
  /\ TypeOK
  /\ \A d \in devices :
       /\ d.at \in DOMAIN code /\ code[d.at].op = "init"
       /\ d = [at |-> d.at, clk |-> code[d.at].clk, res |-> code[d.at].res]

(* The statements of the program that runs.                                *)
LEMMA CodeFacts ==
  ASSUME BootInv
  PROVE  /\ Len(code) \in Nat /\ DOMAIN code = 1..Len(code)
         /\ \A i \in DOMAIN code :
              /\ code[i].op \in {"if", "jump"} =>
                   code[i].n \in Int /\ i + 1 + code[i].n \in 1..Len(code) + 1
              /\ code[i].op \in {"on", "within"} =>
                   code[i].clk # "Osc" /\ Level(code[i].src) < Level(code[i].clk)
              /\ code[i].op = "within" => code[i].mhz \in Nat \ {0}
BY CodeAssumption DEF BootInv, CodeAssumption

(* So is the statement that is executed next.                              *)
LEMMA NextStatement ==
  ASSUME BootInv, ~InLoop
  PROVE  pc \in DOMAIN code /\ Statement = code[pc] /\ pc + 1 \in 1..Len(code) + 1
BY CodeFacts DEF BootInv, TypeOK, InLoop, Statement

(* A new link keeps the layers.                                            *)
LEMMA FeedKeeps ==
  ASSUME BootInv, NEW c, NEW link, Feed(c, link), c # "Osc", Level(link.from) < Level(c)
  PROVE  Layered(src') /\ ready' \subseteq Slow \cap DOMAIN src' /\ ready' \subseteq ready
BY DEF BootInv, TypeOK, Feed, Layered, Below

(* A program starts at its first statement with layered clocks.            *)
LEMMA BootInvInit == Init => BootInv
<1> SUFFICES ASSUME Init PROVE BootInv
  OBVIOUS
<1>1. /\ Layered(src) /\ ready \subseteq Slow \cap DOMAIN src
      /\ settings \in {"none", "saved"}
  BY StartAssumption DEF StartAssumption, Init
<1>2. Len(code) \in Nat
  BY CodeAssumption DEF CodeAssumption, Init
<1>3. pc \in 1..Len(code) + 1 /\ resets \in 0..MaxResets
  BY <1>2, ResetsAssumption DEF ResetsAssumption, Init
<1> QED BY <1>1, <1>3 DEF Init, BootInv, TypeOK

(* A statement of a program.                                               *)
LEMMA BootInvStep ==
  ASSUME BootInv, Step
  PROVE  BootInv'
<1>1. /\ prog \in DOMAIN Code /\ code = Code[prog] /\ Layered(src)
      /\ ready \subseteq Slow \cap DOMAIN src /\ settings \in {"none", "saved"}
      /\ resets \in 0..MaxResets /\ pc \in 1..Len(code) + 1 /\ mode = "run"
      /\ prog' = prog /\ code' = code /\ resets' = resets
      /\ pc \in DOMAIN code /\ Statement = code[pc] /\ pc + 1 \in 1..Len(code) + 1
  <2>1. mode = "run" /\ ~InLoop /\ prog' = prog /\ code' = code /\ resets' = resets
    BY DEF Step, At, EnableClock, EnableDivider, AwaitClock, DisableClock, CheckAssertion,
           Assign, ForgetSettings, Branch, Jump, InitDevice, Suspend, text
  <2> QED BY <2>1, NextStatement DEF BootInv, TypeOK
<1>2. CASE EnableClock \/ EnableDivider
  <2>1. PICK link : Feed(Statement.clk, link) /\ link.from = Statement.src
    BY <1>2 DEF EnableClock, EnableDivider, Link
  <2>2. Statement.clk # "Osc" /\ Level(Statement.src) < Level(Statement.clk)
    BY <1>1, <1>2, CodeFacts DEF EnableClock, EnableDivider, At
  <2>3. Layered(src') /\ ready' \subseteq Slow \cap DOMAIN src'
    BY <2>1, <2>2, FeedKeeps
  <2>4. pc' = pc + 1 /\ UNCHANGED << settings, devices, mode >>
    BY <1>2 DEF EnableClock, EnableDivider
  <2> QED BY <1>1, <2>3, <2>4 DEF BootInv, TypeOK
<1>3. CASE DisableClock
  <2>1. Layered(src') /\ ready' \subseteq Slow \cap DOMAIN src'
    BY <1>1, <1>3 DEF DisableClock, Layered, Below
  <2>2. pc' = pc + 1 /\ UNCHANGED << settings, devices, mode >>
    BY <1>3 DEF DisableClock
  <2> QED BY <1>1, <2>1, <2>2 DEF BootInv, TypeOK
<1>4. CASE Branch \/ Jump
  <2>1. pc + 1 + Statement.n \in 1..Len(code) + 1 /\ Statement.n \in Int
    BY <1>1, <1>4, CodeFacts DEF Branch, Jump, At
  <2>2. pc' \in 1..Len(code) + 1
    BY <1>1, <1>4, <2>1 DEF Branch, Jump
  <2>3. UNCHANGED << src, ready, settings, devices, mode >>
    BY <1>4 DEF Branch, Jump, tree
  <2> QED BY <1>1, <2>2, <2>3 DEF BootInv, TypeOK
<1>5. CASE InitDevice
  <2>1. pc' = pc + 1 /\ UNCHANGED << src, ready, settings, mode >>
    BY <1>5 DEF InitDevice, tree
  <2>2. Statement.op = "init"
        /\ devices' = devices \cup {[at |-> pc, clk |-> Statement.clk, res |-> Statement.res]}
    BY <1>5 DEF InitDevice, At
  <2> QED BY <1>1, <2>1, <2>2 DEF BootInv, TypeOK
<1>6. CASE AwaitClock \/ CheckAssertion \/ Assign \/ ForgetSettings \/ Suspend
  <2>1. /\ pc' = pc + 1 /\ UNCHANGED << src, ready, devices >>
        /\ settings' \in {settings, "none"} /\ mode' \in {mode, "asleep", "failed", "run"}
    BY <1>6 DEF AwaitClock, CheckAssertion, Assign, ForgetSettings, Suspend, tree
  <2> QED BY <1>1, <2>1 DEF BootInv, TypeOK
<1> QED BY <1>2, <1>3, <1>4, <1>5, <1>6 DEF Step

(* The surroundings: clocks that settle, the alarm, a reset.               *)
LEMMA BootInvOthers ==
  ASSUME BootInv, MainLoop \/ (\E c \in Slow : Settle(c)) \/ Wake \/ Reset \/ UNCHANGED vars
  PROVE  BootInv'
<1> USE DEF BootInv, TypeOK
<1>1. CASE \E c \in Slow : Settle(c)
  BY <1>1 DEF Settle, text
<1>2. CASE Wake
  BY <1>2 DEF Wake, text, tree
<1>3. CASE Reset
  <2>1. PICK s \in Starts[prog] : Restart(s)
    BY <1>3 DEF Reset
  <2>2. /\ Layered(s.src) /\ s.ready \subseteq Slow \cap DOMAIN s.src
        /\ s.settings \in {"none", "saved"}
    BY StartAssumption DEF StartAssumption
  <2>3. Layered(src') /\ ready' \subseteq Slow \cap DOMAIN src' /\ settings' \in {"none", "saved"}
    BY <2>1, <2>2 DEF Restart, Kept, Layered
  <2>4. resets' \in 0..MaxResets
    BY <1>3, ResetsAssumption DEF Reset, ResetsAssumption
  <2>5. pc' = 1 /\ devices' = {} /\ mode' = "run" /\ prog' = prog /\ code' = code
    BY <2>1 DEF Restart, text
  <2>6. Len(code) \in Nat
    BY CodeFacts
  <2> QED BY <2>3, <2>4, <2>5, <2>6
<1>4. CASE MainLoop \/ UNCHANGED vars
  BY <1>4 DEF MainLoop, vars, text
<1> QED BY <1>1, <1>2, <1>3, <1>4

(* So it holds in every run.                                               *)
LEMMA BootInvAlways == SafeSpec => []BootInv
<1>1. BootInv /\ [Next]_vars => BootInv'
  BY BootInvStep, BootInvOthers DEF Next
<1> QED BY BootInvInit, <1>1, PTL DEF SafeSpec

(* Types: no branch leaves the program, only clocks that exist are ready.  *)
THEOREM TypeCorrect == SafeSpec => []TypeOK
<1>1. BootInv => TypeOK
  BY DEF BootInv
<1> QED BY BootInvAlways, <1>1, PTL

\* Each pin, channel and peripheral is claimed by one statement of a program.
ClaimsApart(body) ==
  \A i, j \in DOMAIN body : body[i].op = "init" /\ body[j].op = "init" /\ i # j
                             => body[i].res \cap body[j].res = {}

(* No two drivers of a program own one pin, channel or peripheral, however *)
(* it branches, loops and is reset: a driver that is initialised again is  *)
(* the same one, so it is enough that no two of its statements claim one.  *)
THEOREM DriversApart ==
  ASSUME \A p \in DOMAIN Code \ Sharing : ClaimsApart(Code[p])
  PROVE  SafeSpec => []Exclusive
<1>1. BootInv => Exclusive
  <2> SUFFICES ASSUME BootInv, prog \notin Sharing, NEW d \in devices, NEW e \in devices,
                      d.res \cap e.res # {}
               PROVE  d = e
    BY DEF Exclusive, Overlaps
  <2>1. d.at = e.at
    BY DEF ClaimsApart, BootInv
  <2> QED BY <2>1 DEF BootInv
<1> QED BY BootInvAlways, <1>1, PTL

-----------------------------------------------------------------------------
(* The core, its memory and every driver at work have a running clock.     *)
Clocked == \A x \in InUse : Fed(now, x)

(* They have it at the start.                                              *)
LEMMA ClockedInit == Init => Clocked
<1> SUFFICES ASSUME Init PROVE Clocked
  OBVIOUS
<1>1. PICK s \in Starts[prog] : src = s.src /\ ready = s.ready
  BY DEF Init
<1>2. devices = {} /\ prog \in DOMAIN Code
  BY DEF Init
<1>3. Layered(s.src) /\ \A c \in Vital(s.src) : Fed(s, c) /\ "RtcOsc" \notin Chain(s, c)
  BY <1>2, StartAssumption DEF StartAssumption
<1>4. ASSUME NEW x \in InUse PROVE Fed(now, x)
  <2>1. x \in Vital(s.src)
    BY <1>1, <1>2 DEF InUse
  <2>2. Layered(now.src) /\ now.src = s.src /\ now.ready = s.ready
    BY <1>1, <1>3 DEF now
  <2> QED BY <1>3, <2>1, <2>2, Restarted
<1> QED BY <1>4 DEF Clocked

(* What a clock that is enabled disturbs.                                  *)
LEMMA EnabledKeeps ==
  ASSUME BootInv, Orderly, Clocked, EnableClock \/ EnableDivider
  PROVE  Clocked'
<1> DEFINE c == Statement.clk
           s == Statement.src
<1>1. /\ mode = "run" /\ ~InLoop /\ devices' = devices /\ Statement.op \in {"on", "within"}
      /\ \E link : Feed(c, link) /\ link.from = s
  BY DEF EnableClock, EnableDivider, At, Link
<1>2. PICK link : Feed(c, link) /\ link.from = s
  BY <1>1
<1>3. c # "Osc" /\ Level(s) < Level(c)
  BY <1>1, CodeFacts, NextStatement
<1>4. Layered(src) /\ Layered(src') /\ ready' \subseteq ready
  BY <1>2, <1>3, FeedKeeps DEF BootInv
<1>5. /\ Busy(c) => c \notin Plls
      /\ Busy(c) \/ c \in {"SpifiClock", "FlashClock"} => Fed(now, s)
  BY <1>1 DEF Orderly
<1>6. /\ src' = [x \in DOMAIN src \cup {c} |-> IF x = c THEN link ELSE src[x]]
      /\ ready' = IF c \in Plls THEN ready \ Below(c) ELSE ready
  BY <1>2 DEF Feed
<1> HIDE DEF c, s
<1> DEFINE u == [src |-> src', ready |-> ready']
<1>7. u.src = src' /\ u.ready = ready' /\ now.src = src /\ now.ready = ready /\ now' = u
  BY DEF now
<1> HIDE DEF u
<1>8. ASSUME NEW x \in InUse, c \notin Chain(now, x)
      PROVE  Fed(u, x)
  <2>1. Fed(now, x)
    BY DEF Clocked
  <2>2. \A d \in DOMAIN src \ {c} : d \in DOMAIN src' /\ src'[d] = src[d]
    BY <1>6
  <2>3. \A d \in ready \ ready' : d = c \/ (d \in Plls /\ c \in Chain(now, d))
    BY <1>6 DEF Below
  <2> QED BY <1>4, <1>7, <1>8, <2>1, <2>2, <2>3, Undisturbed
<1>9. ASSUME NEW x, \/ x \in InUse /\ c \in Chain(now, x)
                    \/ x = c /\ x \in {"SpifiClock", "FlashClock"} /\ x \notin InUse
      PROVE  Fed(u, x)
  <2>1. Fed(now, s) /\ c \notin Plls
    BY <1>5, <1>9 DEF Busy, Plls, FractionalPlls
  <2>2. ready' = ready
    BY <1>6, <2>1
  <2>3. \/ Fed(now, x) /\ (c \in Slow => c \in ready)
        \/ x = c /\ c \notin Slow
    <3>1. CASE x \in InUse /\ c \in Chain(now, x)
      <4>1. Fed(now, x)
        BY <3>1 DEF Clocked
      <4>2. c \in Roots \/ Running(now, c)
        BY <1>4, <1>7, <3>1, <4>1, FedChain
      <4>3. c \notin Roots
        BY <1>3, LevelRange
      <4> QED BY <1>3, <1>7, <4>1, <4>2, <4>3 DEF Running, IsReady
    <3>2. CASE x = c /\ x \in {"SpifiClock", "FlashClock"}
      BY <3>2 DEF Slow, Oscillators, Plls, FractionalPlls
    <3> QED BY <1>9, <3>1, <3>2
  <2>4. DOMAIN src' = DOMAIN src \cup {c} /\ src'[c].from = s
    BY <1>2, <1>6
  <2>5. \A d \in DOMAIN src \ {c} : src'[d] = src[d]
    BY <1>6
  <2> QED BY <1>3, <1>4, <1>7, <2>1, <2>2, <2>3, <2>4, <2>5, Moved
<1>10. ASSUME NEW x \in InUse' PROVE x \in InUse \/ (x = c /\ x \in {"SpifiClock", "FlashClock"})
  BY <1>1, <1>6 DEF InUse, Vital
<1>11. ASSUME NEW x \in InUse' PROVE Fed(u, x)
  BY <1>8, <1>9, <1>10
<1> QED BY <1>7, <1>11 DEF Clocked

(* A clock that is disabled: nobody used it.                               *)
LEMMA DisabledKeeps ==
  ASSUME BootInv, Orderly, Clocked, DisableClock
  PROVE  Clocked'
<1> DEFINE c == Statement.clk
           u == [src |-> src', ready |-> ready']
<1>1. /\ src' = [x \in DOMAIN src \ {c} |-> src[x]] /\ ready' = ready \ Below(c)
      /\ devices' = devices
  BY DEF DisableClock
<1>2. ~Busy(c)
  BY DEF Orderly, DisableClock, At
<1>3. u.src = src' /\ u.ready = ready' /\ now.src = src /\ now.ready = ready /\ now' = u
  BY DEF now
<1> HIDE DEF c, u
<1>4. Layered(src) /\ Layered(src')
  BY <1>1 DEF BootInv, Layered
<1>5. \A d \in DOMAIN src \ {c} : d \in DOMAIN src' /\ src'[d] = src[d]
  BY <1>1
<1>6. ready' \subseteq ready
      /\ \A d \in ready \ ready' : d = c \/ (d \in Plls /\ c \in Chain(now, d))
  BY <1>1 DEF Below
<1>7. InUse' \subseteq InUse
  BY <1>1 DEF InUse, Vital
<1>8. ASSUME NEW x \in InUse' PROVE Fed(u, x)
  <2>1. Fed(now, x) /\ c \notin Chain(now, x)
    BY <1>2, <1>7 DEF Busy, Clocked
  <2> QED BY <1>3, <1>4, <1>5, <1>6, <2>1, Undisturbed
<1> QED BY <1>3, <1>8 DEF Clocked

(* The other statements leave the clocks alone.                            *)
LEMMA StatementKeeps ==
  ASSUME BootInv, Orderly, Clocked, Step
  PROVE  Clocked'
<1>1. CASE InitDevice
  <2>1. Fed(now, Statement.clk)
    BY <1>1 DEF InitDevice, Orderly, At
  <2>2. /\ now' = now /\ Vital(src)' = Vital(src)
        /\ devices' = devices \cup {[at |-> pc, clk |-> Statement.clk, res |-> Statement.res]}
    BY <1>1 DEF InitDevice, tree, now
  <2>3. ASSUME NEW x \in InUse' PROVE Fed(now, x)
    <3>1. CASE x \in Vital(src)
      BY <3>1 DEF Clocked, InUse
    <3>2. CASE x \notin Vital(src)
      <4>1. PICK d \in devices' : x = d.clk
        BY <2>2, <3>2 DEF InUse
      <4>2. d \in devices \/ x = Statement.clk
        BY <2>2, <4>1
      <4> QED BY <2>1, <4>1, <4>2 DEF Clocked, InUse
    <3> QED BY <3>1, <3>2
  <2> QED BY <2>2, <2>3 DEF Clocked
<1>2. CASE AwaitClock \/ CheckAssertion \/ Assign \/ ForgetSettings \/ Branch \/ Jump \/ Suspend
  <2>1. src' = src /\ ready' = ready /\ devices' = devices
    BY <1>2 DEF AwaitClock, CheckAssertion, Assign, ForgetSettings, Branch, Jump, Suspend, tree
  <2>2. now' = now /\ InUse' = InUse
    BY <2>1 DEF now, InUse
  <2> QED BY <2>2 DEF Clocked
<1> QED BY <1>1, <1>2, EnabledKeeps, DisabledKeeps DEF Step

(* Nor do the surroundings stop a clock in use, and a reset gives a start. *)
LEMMA OthersKeep ==
  ASSUME BootInv, Clocked,
         MainLoop \/ (\E c \in Slow : Settle(c)) \/ Wake \/ Reset \/ UNCHANGED vars
  PROVE  Clocked'
<1> DEFINE u == [src |-> src', ready |-> ready']
<1>1. u.src = src' /\ u.ready = ready' /\ now.src = src /\ now.ready = ready /\ now' = u
  BY DEF now
<1> HIDE DEF u
<1>2. Layered(src)
  BY DEF BootInv
<1>3. CASE \E c \in Slow : Settle(c)
  <2>1. PICK c \in Slow : Settle(c)
    BY <1>3
  <2>2. /\ c \in DOMAIN src /\ Fed(now, src[c].from) /\ src' = src
        /\ ready' = ready \cup {c} /\ InUse' = InUse
    BY <2>1 DEF Settle, InUse
  <2>3. ASSUME NEW x \in InUse' PROVE Fed(u, x)
    <3>1. Fed(now, x)
      BY <2>2 DEF Clocked
    <3> QED BY <1>1, <1>2, <2>2, <3>1, Settled
  <2> QED BY <1>1, <2>3 DEF Clocked
<1>4. CASE Reset
  <2>1. PICK s \in Starts[prog] : Restart(s)
    BY <1>4 DEF Reset
  <2>2. /\ Layered(s.src) /\ \A c \in Vital(s.src) : Fed(s, c) /\ "RtcOsc" \notin Chain(s, c)
    BY StartAssumption DEF StartAssumption, BootInv
  <2>3. /\ \A d \in DOMAIN s.src \ {"RtcOsc"} : d \in DOMAIN src' /\ src'[d] = s.src[d]
        /\ DOMAIN src' \subseteq DOMAIN s.src \cup {"RtcOsc"}
        /\ s.ready \subseteq ready' /\ ready' \subseteq s.ready \cup {"RtcOsc"}
        /\ devices' = {}
    BY <2>1 DEF Restart, Kept
  <2>4. Layered(src')
    BY <1>2, <2>1, <2>2 DEF Restart, Kept, Layered
  <2>5. InUse' \subseteq Vital(s.src)
    BY <2>3 DEF InUse, Vital
  <2>6. ASSUME NEW x \in InUse' PROVE Fed(u, x)
    <3>1. Fed(s, x) /\ "RtcOsc" \notin Chain(s, x)
      BY <2>2, <2>5
    <3> QED BY <1>1, <2>2, <2>3, <2>4, <3>1, Restarted
  <2> QED BY <1>1, <2>6 DEF Clocked
<1>5. CASE MainLoop \/ Wake \/ UNCHANGED vars
  <2>1. src' = src /\ ready' = ready /\ devices' = devices
    BY <1>5 DEF MainLoop, Wake, vars, tree
  <2>2. now' = now /\ InUse' = InUse
    BY <2>1 DEF now, InUse
  <2> QED BY <2>2 DEF Clocked
<1> QED BY <1>3, <1>4, <1>5

(* So it holds in every run of an orderly program.                         *)
LEMMA ClockedAlways == SafeSpec /\ []Orderly => []Clocked
<1>1. BootInv /\ Orderly /\ Clocked /\ [Next]_vars => Clocked'
  BY StatementKeeps, OthersKeep DEF Next
<1> QED BY ClockedInit, BootInvAlways, <1>1, PTL DEF SafeSpec

(* A program that keeps the discipline never stops the core or the memory  *)
(* that it runs from.                                                      *)
THEOREM CoreStaysClocked == SafeSpec /\ []Orderly => []CoreClocked
<1>1. Clocked => CoreClocked
  BY DEF Clocked, CoreClocked, InUse
<1> QED BY ClockedAlways, <1>1, PTL

(* And every driver keeps the clock it was started with.                   *)
THEOREM DevicesStayClocked == SafeSpec /\ []Orderly => []DevicesClocked
<1>1. Clocked => DevicesClocked
  BY DEF Clocked, DevicesClocked, InUse
<1> QED BY ClockedAlways, <1>1, PTL

-----------------------------------------------------------------------------
(* The rate of a clock.  Rates are computed from the root down; Scaled is  *)
(* what a clock d makes of the rate r that it is fed with.                 *)
Scaled(t, r, d) ==
  IF d \in DOMAIN t.src THEN (r * t.src[d].mul) \div t.src[d].div ELSE r

(* The rate of a clock, step by step from the root of its path.            *)
LEMMA RateIs ==
  ASSUME NEW t, NEW c
  PROVE  \E f : /\ f[0] = 12000 /\ Rate(t, c) = f[7]
                /\ \A n \in 1..7 : f[n] = Scaled(t, f[n - 1], Path(t, c)[7 - n])
<1> DEFINE p(n) == Path(t, c)[7 - n]
           a0 == 12000
           a1 == Scaled(t, a0, p(1))
           a2 == Scaled(t, a1, p(2))
           a3 == Scaled(t, a2, p(3))
           a4 == Scaled(t, a3, p(4))
           a5 == Scaled(t, a4, p(5))
           a6 == Scaled(t, a5, p(6))
           a7 == Scaled(t, a6, p(7))
           g == [n \in 0..7 |-> CASE n = 0 -> a0 [] n = 1 -> a1 [] n = 2 -> a2 [] n = 3 -> a3
                                  [] n = 4 -> a4 [] n = 5 -> a5 [] n = 6 -> a6 [] n = 7 -> a7]
           F(f) == [n \in 0..7 |-> IF n = 0 THEN 12000 ELSE Scaled(t, f[n - 1], p(n))]
<1>1. Rate(t, c) = (CHOOSE f : f = F(f))[7]
  BY DEF Rate, Depth, Scaled
<1> HIDE DEF p, a0
<1>2. g = F(g)
  <2>1. ASSUME NEW n \in 0..7
        PROVE  g[n] = F(g)[n]
    <3>1. \/ n = 0 \/ n = 1 \/ n = 2 \/ n = 3 \/ n = 4 \/ n = 5 \/ n = 6 \/ n = 7
      OBVIOUS
    <3>2. /\ g[0] = a0 /\ g[1] = a1 /\ g[2] = a2 /\ g[3] = a3
          /\ g[4] = a4 /\ g[5] = a5 /\ g[6] = a6 /\ g[7] = a7
      OBVIOUS
    <3>3. a0 = 12000
      BY SMT DEF a0
    <3> HIDE DEF g
    <3> QED BY <3>1, <3>2, <3>3, SMT
  <2> QED BY <2>1
<1> HIDE DEF g
<1> DEFINE h == CHOOSE f : f = F(f)
<1>3. h = F(h)
  BY <1>2
<1>4. Rate(t, c) = h[7]
  BY <1>1
<1> HIDE DEF h
<1>5. h[0] = 12000 /\ \A n \in 1..7 : h[n] = Scaled(t, h[n - 1], p(n))
  BY <1>3, SMT
<1> QED BY <1>4, <1>5 DEF p

(* Where a path has come to after six steps from a clock that feeds        *)
(* another, nothing is driven any more; and it never leads up.             *)
LEMMA PathEnds ==
  ASSUME NEW t, Layered(t.src), NEW c, Level(c) =< 6
  PROVE  /\ Path(t, c)[6] \notin DOMAIN t.src
         /\ \A n \in 0..7 : Level(Path(t, c)[n]) =< Level(c)
<1> DEFINE p == Path(t, c)
           Still(d) == d \notin DOMAIN t.src /\ Up(t, d) = d
           B(n) == /\ Level(p[n]) =< Level(c)
                   /\ Still(p[n]) \/ Level(p[n]) + n =< Level(c)
<1>1. p[0] = c /\ \A n \in 1..7 : p[n] = Up(t, p[n - 1])
  BY PathIs
<1>2. \A d : Level(d) \in 0..7 /\ (Level(d) = 0 <=> d \in Roots)
  BY LevelRange
<1>3. ASSUME NEW d PROVE Still(d) \/ Level(Up(t, d)) < Level(d)
  <2>1. CASE d \in Roots
    <3>1. d \notin DOMAIN t.src
      BY <1>2, <2>1 DEF Layered
    <3> QED BY <2>1, <3>1, UpLower
  <2>2. CASE d \notin Roots /\ (d = "Osc" \/ d \in DOMAIN t.src)
    BY <2>2, UpLower
  <2>3. CASE d # "Osc" /\ d \notin DOMAIN t.src
    BY <2>3 DEF Up
  <2> QED BY <2>1, <2>2, <2>3
<1> HIDE DEF p, Still
<1>4. B(0)
  BY <1>1, <1>2
<1>5. ASSUME NEW n \in 1..7, B(n - 1) PROVE B(n)
  <2> DEFINE d == p[n - 1]
  <2>1. p[n] = Up(t, d) /\ (Still(d) \/ Level(Up(t, d)) < Level(d))
    BY <1>1, <1>3
  <2>2. CASE Still(d)
    BY <1>5, <2>1, <2>2 DEF Still
  <2>3. CASE ~Still(d)
    <3>1. Level(p[n]) < Level(d) /\ Level(d) =< Level(c) /\ Level(d) + (n - 1) =< Level(c)
      BY <1>5, <2>1, <2>3
    <3>2. Level(p[n]) \in Nat /\ Level(d) \in Nat /\ Level(c) \in Nat
      BY <1>2
    <3> HIDE DEF d
    <3> QED BY <3>1, <3>2
  <2> QED BY <2>2, <2>3
<1> HIDE DEF B
<1>6. B(1)
  BY <1>4, <1>5
<1>7. B(2)
  BY <1>6, <1>5
<1>8. B(3)
  BY <1>7, <1>5
<1>9. B(4)
  BY <1>8, <1>5
<1>10. B(5)
  BY <1>9, <1>5
<1>11. B(6)
  BY <1>10, <1>5
<1>12. B(7)
  BY <1>11, <1>5
<1>13. p[6] \notin DOMAIN t.src
  <2>1. CASE Still(p[6])
    BY <2>1 DEF Still
  <2>2. CASE ~Still(p[6])
    <3>1. Level(p[6]) = 0
      BY <1>2, <1>11, <2>2 DEF B
    <3> QED BY <1>2, <3>1 DEF Layered
  <2> QED BY <2>1, <2>2
<1>14. \A n \in 0..7 : Level(p[n]) =< Level(c)
  BY <1>4, <1>6, <1>7, <1>8, <1>9, <1>10, <1>11, <1>12 DEF B
<1> QED BY <1>13, <1>14 DEF p

(* The rate of a clock is that of its source, scaled.                      *)
LEMMA RateOfSource ==
  ASSUME NEW t, Layered(t.src), NEW c, c # "Osc", c \in DOMAIN t.src
  PROVE  Rate(t, c) = Scaled(t, Rate(t, t.src[c].from), c)
<1> DEFINE s == t.src[c].from
           p == Path(t, c)
           q == Path(t, s)
<1>1. \A d : Level(d) \in 0..7
  BY LevelRange
<1>2. Level(s) =< 6
  BY <1>1 DEF Layered
<1>3. q[6] \notin DOMAIN t.src
  BY <1>2, PathEnds
<1>4. Up(t, c) = s
  BY DEF Up
<1>5. /\ p[0] = c /\ p[1] = q[0]
      /\ \A n \in 1..7 : p[n] = Up(t, p[n - 1]) /\ q[n] = Up(t, q[n - 1])
  BY <1>4, PathIs
<1> HIDE DEF p, q
<1>6. p[2] = q[1] /\ p[3] = q[2] /\ p[4] = q[3] /\ p[5] = q[4] /\ p[6] = q[5] /\ p[7] = q[6]
  <2>1. p[2] = q[1]
    BY <1>5
  <2>2. p[3] = q[2]
    BY <1>5, <2>1
  <2>3. p[4] = q[3]
    BY <1>5, <2>2
  <2>4. p[5] = q[4]
    BY <1>5, <2>3
  <2>5. p[6] = q[5]
    BY <1>5, <2>4
  <2>6. p[7] = q[6]
    BY <1>5, <2>5
  <2> QED BY <2>1, <2>2, <2>3, <2>4, <2>5, <2>6
<1>7. PICK f : f[0] = 12000 /\ Rate(t, c) = f[7]
               /\ \A n \in 1..7 : f[n] = Scaled(t, f[n - 1], p[7 - n])
  BY RateIs DEF p
<1>8. PICK g : g[0] = 12000 /\ Rate(t, s) = g[7]
               /\ \A n \in 1..7 : g[n] = Scaled(t, g[n - 1], q[7 - n])
  BY RateIs DEF q
<1> HIDE DEF s
<1>9. g[1] = f[0]
  <2>1. g[1] = Scaled(t, g[0], q[6])
    BY <1>8
  <2>2. f[0] = 12000 /\ g[0] = 12000
    BY <1>7, <1>8
  <2>3. Scaled(t, g[0], q[6]) = g[0]
    BY <1>3 DEF Scaled
  <2> QED BY ONLY <2>1, <2>2, <2>3
<1>10. ASSUME NEW n \in 1..6, g[n] = f[n - 1] PROVE g[n + 1] = f[n]
  <2>1. f[n] = Scaled(t, f[n - 1], p[7 - n]) /\ g[n + 1] = Scaled(t, g[n], q[6 - n])
    BY <1>7, <1>8
  <2>2. p[7 - n] = q[6 - n]
    BY <1>5, <1>6
  <2> QED BY <1>10, <2>1, <2>2
<1>11. g[7] = f[6]
  <2>1. g[2] = f[1]
    BY <1>9, <1>10
  <2>2. g[3] = f[2]
    BY <2>1, <1>10
  <2>3. g[4] = f[3]
    BY <2>2, <1>10
  <2>4. g[5] = f[4]
    BY <2>3, <1>10
  <2>5. g[6] = f[5]
    BY <2>4, <1>10
  <2> QED BY <2>5, <1>10
<1>12. f[7] = Scaled(t, f[6], c)
  BY <1>5, <1>7
<1> QED BY <1>7, <1>8, <1>11, <1>12 DEF s

\* Clock d has the same source and ratio in the trees t and u.
Agree(t, u, d) ==
  /\ Up(u, d) = Up(t, d)
  /\ d \in DOMAIN u.src <=> d \in DOMAIN t.src
  /\ d \in DOMAIN t.src => u.src[d] = t.src[d]

(* A change of a clock leaves the rates below it alone.                    *)
LEMMA RateBelow ==
  ASSUME NEW t, NEW u, Layered(t.src), NEW c, NEW s, Level(s) < Level(c),
         \A d : d # c => Agree(t, u, d)
  PROVE  Rate(u, s) = Rate(t, s)
<1> DEFINE p == Path(t, s)
           q == Path(u, s)
<1>1. \A d : Level(d) \in 0..7
  BY LevelRange
<1>2. /\ p[0] = s /\ q[0] = s
      /\ \A n \in 1..7 : p[n] = Up(t, p[n - 1]) /\ q[n] = Up(u, q[n - 1])
  BY PathIs
<1>3. \A n \in 0..7 : p[n] # c
  <2>1. \A n \in 0..7 : Level(p[n]) =< Level(s)
    BY <1>1, PathEnds
  <2> HIDE DEF p
  <2>2. ASSUME NEW n \in 0..7, p[n] = c PROVE FALSE
    BY <1>1, <2>1, <2>2
  <2> QED BY <2>2
<1> HIDE DEF p, q
<1>4. ASSUME NEW n \in 1..7, q[n - 1] = p[n - 1] PROVE q[n] = p[n]
  <2>1. q[n] = Up(u, p[n - 1]) /\ p[n] = Up(t, p[n - 1]) /\ p[n - 1] # c
    BY <1>2, <1>3, <1>4
  <2>2. Agree(t, u, p[n - 1])
    BY <2>1
  <2>3. Up(u, p[n - 1]) = Up(t, p[n - 1])
    BY <2>2 DEF Agree
  <2> QED BY <2>1, <2>3
<1>5. q[1] = p[1]
  BY <1>2, <1>4
<1>6. q[2] = p[2]
  BY <1>5, <1>4
<1>7. q[3] = p[3]
  BY <1>6, <1>4
<1>8. q[4] = p[4]
  BY <1>7, <1>4
<1>9. q[5] = p[5]
  BY <1>8, <1>4
<1>10. q[6] = p[6]
  BY <1>9, <1>4
<1>11. \A n \in 0..6 : q[n] = p[n]
  BY <1>2, <1>5, <1>6, <1>7, <1>8, <1>9, <1>10
<1>12. PICK f : f[0] = 12000 /\ Rate(t, s) = f[7]
               /\ \A n \in 1..7 : f[n] = Scaled(t, f[n - 1], p[7 - n])
  BY RateIs DEF p
<1>13. PICK g : g[0] = 12000 /\ Rate(u, s) = g[7]
               /\ \A n \in 1..7 : g[n] = Scaled(u, g[n - 1], q[7 - n])
  BY RateIs DEF q
<1>14. ASSUME NEW n \in 1..7, g[n - 1] = f[n - 1] PROVE g[n] = f[n]
  <2>1. q[7 - n] = p[7 - n] /\ p[7 - n] # c
    BY <1>3, <1>11
  <2> DEFINE d == p[7 - n]
  <2>2. Agree(t, u, d)
    BY <2>1
  <2>3. f[n] = Scaled(t, f[n - 1], d) /\ g[n] = Scaled(u, f[n - 1], d)
    BY <1>12, <1>13, <1>14, <2>1
  <2> HIDE DEF d
  <2>4. Scaled(u, f[n - 1], d) = Scaled(t, f[n - 1], d)
    BY <2>2 DEF Scaled, Agree
  <2> QED BY <2>3, <2>4
<1>15. g[0] = f[0]
  BY <1>12, <1>13
<1>16. g[1] = f[1]
  BY <1>15, <1>14
<1>17. g[2] = f[2]
  BY <1>16, <1>14
<1>18. g[3] = f[3]
  BY <1>17, <1>14
<1>19. g[4] = f[4]
  BY <1>18, <1>14
<1>20. g[5] = f[5]
  BY <1>19, <1>14
<1>21. g[6] = f[6]
  BY <1>20, <1>14
<1>22. g[7] = f[7]
  BY <1>21, <1>14
<1> QED BY <1>12, <1>13, <1>22

(* The divisor of clockEnable(): rounded up, it keeps the limit, and every *)
(* smaller one would exceed it.                                            *)
LEMMA LeastDivisor ==
  ASSUME NEW r \in Nat \ {0}, NEW l \in Nat \ {0}
  PROVE  LET d == (r + l - 1) \div l
         IN  /\ d \in Nat \ {0} /\ r \div d =< l
             /\ \A e \in 1..d - 1 : e * l < r
<1> DEFINE d == (r + l - 1) \div l
<1>1. d \in Nat /\ d * l =< r + l - 1 /\ r + l - 1 < (d + 1) * l
  BY Z3
<1> HIDE DEF d
<1>2. d \in Nat \ {0} /\ r =< d * l
  BY <1>1, Z3
<1>3. r \div d =< l
  BY <1>2, Z3
<1>4. ASSUME NEW e \in 1..d - 1 PROVE e * l < r
  <2>1. (e + 1) * l =< d * l
    BY <1>2, Z3
  <2> QED BY <1>1, <2>1, Z3
<1> QED BY <1>2, <1>3, <1>4 DEF d

(* The step of the action property: the rates of its source and of itself. *)
LEMMA DividerRate ==
  ASSUME BootInv, EnableDivider, Rate(now, Statement.src) \in Nat \ {0}
  PROVE  LET limit == Statement.mhz * 1000
         IN  /\ Rate(now', Statement.clk) =< limit
             /\ \A e \in 1..src'[Statement.clk].div - 1 : e * limit < Rate(now, Statement.src)
<1> DEFINE c == Statement.clk
           s == Statement.src
           limit == Statement.mhz * 1000
           r == Rate(now, s)
           link == Link(s, 1, (r + limit - 1) \div limit)
           u == [src |-> src', ready |-> ready']
<1>1. ~InLoop /\ Statement.op = "within" /\ Feed(c, link)
  BY DEF EnableDivider, At
<1>2. c # "Osc" /\ Level(s) < Level(c) /\ Statement.mhz \in Nat \ {0}
  BY <1>1, CodeFacts, NextStatement
<1>3. limit \in Nat \ {0}
  BY <1>2, SMT
<1>4. /\ link.from = s /\ link.mul = 1 /\ link.div = (r + limit - 1) \div limit
  BY DEF Link
<1>5. link.div \in Nat \ {0} /\ r \div link.div =< limit
      /\ \A e \in 1..link.div - 1 : e * limit < r
  <2> HIDE DEF limit, r, link
  <2> QED BY <1>3, <1>4, LeastDivisor DEF r
<1> HIDE DEF c, s, limit, r, link
<1>6. Layered(src) /\ Layered(src')
  BY <1>1, <1>2, <1>4, FeedKeeps DEF BootInv
<1>7. u.src = src' /\ u.ready = ready' /\ now.src = src /\ now.ready = ready /\ now' = u
  BY DEF now
<1> HIDE DEF u
<1>8. /\ src' = [x \in DOMAIN src \cup {c} |-> IF x = c THEN link ELSE src[x]]
      /\ ready' = IF c \in Plls THEN ready \ Below(c) ELSE ready
  BY <1>1 DEF Feed
<1>9. "ExternalOsc" \in ready' <=> "ExternalOsc" \in ready
  BY <1>8 DEF Below, Plls, FractionalPlls
<1>10. "Osc" \notin DOMAIN src /\ "Osc" \notin DOMAIN src'
  BY <1>6 DEF Layered
<1>11. ASSUME NEW d, d # c
       PROVE  Agree(now, u, d)
  <2>1. /\ d \in DOMAIN src' <=> d \in DOMAIN src
        /\ d \in DOMAIN src => src'[d] = src[d]
    BY <1>8, <1>11
  <2>2. Up(u, d) = Up(now, d)
    BY <1>7, <1>9, <1>10, <2>1 DEF Up
  <2> QED BY <1>7, <2>1, <2>2 DEF Agree
<1>12. Rate(u, s) = r
  BY <1>2, <1>6, <1>7, <1>11, RateBelow DEF r
<1>13. c \in DOMAIN src' /\ src'[c] = link
  BY <1>8
<1>14. Rate(u, c) = (r * 1) \div link.div
  BY <1>2, <1>4, <1>6, <1>7, <1>12, <1>13, RateOfSource DEF Scaled
<1>15. r * 1 = r
  BY DEF r, s
<1>16. Rate(u, c) =< limit
  BY <1>5, <1>14, <1>15
<1> QED BY <1>5, <1>7, <1>13, <1>16 DEF c, s, limit, r

(* A divider that is set up for a limit (the SPIFI memory, the SD card, the *)
(* external memory) starts within it, and with the least divisor that does. *)
THEOREM DividersKeepLimit ==
  SafeSpec =>
    [][EnableDivider /\ Rate(now, Statement.src) \in Nat \ {0}
         => LET limit == Statement.mhz * 1000
            IN  /\ Rate(now', Statement.clk) =< limit
                /\ \A e \in 1..src'[Statement.clk].div - 1 :
                     e * limit < Rate(now, Statement.src)]_vars
<1>1. BootInv /\ [Next]_vars =>
        [EnableDivider /\ Rate(now, Statement.src) \in Nat \ {0}
           => LET limit == Statement.mhz * 1000
              IN  /\ Rate(now', Statement.clk) =< limit
                  /\ \A e \in 1..src'[Statement.clk].div - 1 :
                       e * limit < Rate(now, Statement.src)]_vars
  BY DividerRate
<1> QED BY BootInvAlways, <1>1, PTL DEF SafeSpec

(* ------------------------- the search for a PLL ------------------------ *)
(* A set of numbers has a least one.                                       *)
LEMMA LeastOf ==
  ASSUME NEW T \in SUBSET Nat, T # {}
  PROVE  \E n \in T : \A k \in T : n =< k
<1> DEFINE R == OpToRel(<, Nat)
<1>1. IsWellFoundedOn(R, Nat)
  BY NatLessThanWellFounded
<1> HIDE DEF R
<1>2. PICK n \in T : \A k \in T : << k, n >> \notin R
  BY <1>1, WFMin
<1>3. \A k \in T : ~(k < n)
  BY <1>2 DEF R, OpToRel
<1> QED BY <1>3

(* The range of the oscillator of a PLL, in kHz, as numbers and no more.   *)
LEMMA CcoRange == CcoMin \in Nat /\ CcoMax \in Nat
BY SMT DEF CcoMin, CcoMax

(* The bounds of the multiplier keep every pair that is tried in the range. *)
LEMMA PairsRight ==
  ASSUME NEW input \in Nat \ {0}, NEW target \in Nat \ {0}, NEW p \in Tried(input, target)
  PROVE  /\ p.mul \in 1..256 /\ p.div \in Powers /\ p = [mul |-> p.mul, div |-> p.div]
         /\ p.mul * input \in CcoMin..CcoMax
<1>1. /\ p.mul \in LowerMul(input)..UpperMul(input) /\ p.div \in Powers
      /\ p = [mul |-> p.mul, div |-> p.div]
  BY DEF Tried
<1> DEFINE a == (CcoMin + input - 1) \div input
           b == CcoMax \div input
<1>2. a \in Nat /\ b \in Nat /\ a * input >= CcoMin /\ b * input =< CcoMax
  BY CcoRange
<1> HIDE DEF a, b
<1>3. p.mul \in Nat /\ p.mul >= 1 /\ p.mul =< 256 /\ p.mul >= a /\ p.mul =< b
  BY <1>1, <1>2 DEF LowerMul, UpperMul, Larger, Smaller, a, b
<1> DEFINE c == p.mul * input
           l == a * input
           h == b * input
<1>4. c \in Nat /\ l \in Nat /\ h \in Nat /\ c >= l /\ c =< h /\ l >= CcoMin /\ h =< CcoMax
  BY <1>2, <1>3
<1> HIDE DEF c, l, h
<1>5. c \in CcoMin..CcoMax
  BY <1>4, CcoRange
<1>6. p.mul \in 1..256
  BY <1>3
<1> QED BY <1>1, <1>5, <1>6 DEF c

(* findPllConfig() of the lpc43xx boards: when it finds anything, the PLL's *)
(* oscillator is within its range, the error that board code compares is the *)
(* distance of the resulting rate from the target, and no pair that the two *)
(* loops try has a smaller one.                                            *)
THEOREM SearchInRange ==
  ASSUME NEW input \in Nat \ {0}, NEW target \in Nat \ {0}, Tried(input, target) # {}
  PROVE  LET best == FindPllConfig(input, target)
         IN  /\ best.mul * input \in CcoMin..CcoMax /\ best.div \in Powers
             /\ best.error = Distance((best.mul * input) \div best.div, target)
             /\ \A p \in Tried(input, target) :
                  best.error =< Distance((p.mul * input) \div p.div, target)
<1> DEFINE pairs == Tried(input, target)
           Error(p) == Distance((p.mul * input) \div p.div, target)
           IsBest(p) == \A q \in pairs \ {p} :
                     Error(p) < Error(q) \/ (Error(p) = Error(q) /\ Before(p, q))
           Weight(p) == (Error(p) * 257 + p.mul) * 33 + p.div
           T == {Weight(p) : p \in pairs}
<1>1. ASSUME NEW p \in pairs
      PROVE  /\ p.mul \in 1..256 /\ p.div \in 1..32 /\ p = [mul |-> p.mul, div |-> p.div]
             /\ Error(p) \in Nat
  <2>1. /\ p.mul \in 1..256 /\ p.div \in Powers /\ p = [mul |-> p.mul, div |-> p.div]
    BY PairsRight
  <2>2. p.div \in 1..32
    BY <2>1 DEF Powers
  <2>3. p.mul * input \in Nat
    BY <2>1
  <2>4. (p.mul * input) \div p.div \in Nat
    BY <2>2, <2>3
  <2>5. Error(p) \in Nat
    BY <2>4 DEF Distance
  <2> QED BY <2>1, <2>2, <2>5
<1> HIDE DEF Error, pairs
<1>2. ASSUME NEW p \in pairs PROVE Weight(p) \in Nat
  <2> DEFINE e == Error(p)
             m == p.mul
             d == p.div
  <2>1. e \in Nat /\ m \in 1..256 /\ d \in 1..32
    BY <1>1
  <2> HIDE DEF e, m, d
  <2>2. (e * 257 + m) * 33 + d \in Nat
    BY ONLY <2>1
  <2> QED BY <2>2 DEF e, m, d
<1>3. ASSUME NEW p \in pairs, NEW q \in pairs, q # p, Weight(p) =< Weight(q)
      PROVE  Error(p) < Error(q) \/ (Error(p) = Error(q) /\ Before(p, q))
  <2>1. p.mul # q.mul \/ p.div # q.div
    BY <1>1, <1>3
  <2> DEFINE e == Error(p)
             m == p.mul
             d == p.div
             ee == Error(q)
             mm == q.mul
             dd == q.div
  <2>2. /\ e \in Nat /\ m \in 1..256 /\ d \in 1..32
        /\ ee \in Nat /\ mm \in 1..256 /\ dd \in 1..32
        /\ (e * 257 + m) * 33 + d =< (ee * 257 + mm) * 33 + dd
        /\ m # mm \/ d # dd
    BY <1>1, <1>3, <2>1
  <2> HIDE DEF e, m, d, ee, mm, dd
  <2>3. e < ee \/ (e = ee /\ (m < mm \/ (m = mm /\ d < dd)))
    BY <2>2
  <2> QED BY <2>3 DEF e, m, d, ee, mm, dd, Before
<1> HIDE DEF Weight
<1>4. PICK p \in pairs : \A q \in pairs : Weight(p) =< Weight(q)
  <2>1. T \subseteq Nat /\ T # {}
    BY <1>2 DEF pairs
  <2>2. PICK n \in T : \A k \in T : n =< k
    BY <2>1, LeastOf
  <2> QED BY <2>2
<1>5. IsBest(p)
  BY <1>3, <1>4
<1> DEFINE b == CHOOSE e \in pairs : IsBest(e)
<1>6. b \in pairs /\ IsBest(b)
  BY <1>4, <1>5
<1>7. FindPllConfig(input, target) = [mul |-> b.mul, div |-> b.div, error |-> Error(b)]
  BY DEF FindPllConfig, pairs, Error
<1> HIDE DEF b
<1>8. \A q \in pairs : Error(b) =< Error(q)
  BY <1>1, <1>6
<1>9. b.mul * input \in CcoMin..CcoMax /\ b.div \in Powers
  BY <1>6, PairsRight DEF pairs
<1> QED BY <1>7, <1>8, <1>9 DEF Error, pairs

(* Division with a remainder, and the bounds of a quotient.                *)
LEMMA Quotient ==
  ASSUME NEW a \in Nat, NEW b \in Nat \ {0}, NEW q \in Nat, NEW r \in 0..b - 1, a = q * b + r
  PROVE  a \div b = q
BY Z3

(* A quotient is within the bounds that its product is within.             *)
LEMMA QuotientBounds ==
  ASSUME NEW a \in Nat, NEW b \in Nat \ {0}, NEW q \in Nat
  PROVE  /\ q * b =< a => q =< a \div b
         /\ a < (q + 1) * b => a \div b =< q
         /\ a \div b \in Nat
BY Z3

(* A rate that the PLL can make exactly, the search finds exactly: the range *)
(* of divisors that it tries for each multiplier, powers of two from the one *)
(* at or below the quotient, leaves no exact pair out.                     *)
THEOREM ExactPairFound ==
  ASSUME NEW input \in Nat \ {0}, NEW target \in Nat \ {0},
         NEW mul \in 1..256, NEW div \in Powers,
         mul * input \in CcoMin..CcoMax, mul * input = div * target
  PROVE  LET best == FindPllConfig(input, target)
         IN  /\ best.error = 0 /\ (best.mul * input) \div best.div = target
             /\ best.mul * input \in CcoMin..CcoMax
<1> DEFINE cco == mul * input
           p == [mul |-> mul, div |-> div]
<1>1. div \in 1..32 /\ cco \in Nat /\ cco = div * target
  BY DEF Powers
<1>2. LowerMul(input) =< mul /\ mul =< UpperMul(input)
  <2> DEFINE n == CcoMin + input - 1
  <2>1. n \in Nat /\ n < (mul + 1) * input /\ cco =< CcoMax
    BY CcoRange
  <2> HIDE DEF n
  <2>2. n \div input =< mul /\ mul =< CcoMax \div input
    BY <2>1, CcoRange, QuotientBounds
  <2> QED BY <2>2 DEF LowerMul, UpperMul, Larger, Smaller, n
<1>3. cco \div target = div /\ (cco + target - 1) \div target = div /\ cco \div div = target
  <2>1. cco = div * target + 0 /\ cco + target - 1 = div * target + (target - 1)
    BY <1>1
  <2>2. cco \div target = div
    <3>1. 0 \in 0..target - 1 /\ div \in Nat /\ cco = div * target + 0
      BY <1>1
    <3> HIDE DEF cco
    <3> QED BY <1>1, <3>1, Quotient
  <2>3. (cco + target - 1) \div target = div
    BY <1>1, <2>1, Quotient
  <2>4. cco = target * div + 0
    BY <1>1
  <2>5. cco \div div = target
    BY <1>1, <2>4, Quotient
  <2> QED BY <2>2, <2>3, <2>5
<1>4. div \in Divisors(cco, target)
  BY <1>1, <1>3 DEF Divisors, Larger, Smaller
<1> HIDE DEF cco
<1>5. p \in Tried(input, target)
  <2>1. mul \in LowerMul(input)..UpperMul(input)
    BY <1>2 DEF LowerMul, UpperMul, Larger, Smaller
  <2> QED BY <1>4, <2>1 DEF Tried, cco
<1>6. Distance((p.mul * input) \div p.div, target) = 0
  BY <1>3 DEF Distance, cco
<1> DEFINE best == FindPllConfig(input, target)
           q == (best.mul * input) \div best.div
<1>7. /\ best.mul * input \in CcoMin..CcoMax /\ best.error = Distance(q, target)
      /\ best.error =< 0 /\ best.div \in Powers
  BY <1>5, <1>6, SearchInRange
<1>8. q = target /\ best.error = 0
  <2>1. q \in Nat
    BY <1>7, CcoRange DEF Powers
  <2> HIDE DEF q, best
  <2> QED BY <1>7, <2>1 DEF Distance
<1> QED BY <1>7, <1>8
=============================================================================
