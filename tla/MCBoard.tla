------------------------------- MODULE MCBoard -------------------------------
(* The parts of the console and of its frontends that share no state in these *)
(* models, in one specification: the clock, the panel of screen and sound,    *)
(* the rings in a saved state, a key, the time override of the desktop        *)
(* frontend, the libretro core, the content files and the TCP transport.  A   *)
(* behaviour is one of them with its software, its host and its user.  MCUnits*)
(* does the same for the blocks that RunLoop puts together, the flash, the    *)
(* serial block and the shell of the desktop frontend.                        *)
EXTENDS ClockUnit, PanelUnit, RingUnit, ButtonUnit, OverrideUnit, LibretroUnit,
        ContentUnit, TcpUnit

CONSTANT Parts  \* the parts of this instance

ASSUME BoardAssumption ==
    Parts \subseteq {"clock", "panel", "rings", "key", "override", "libretro", "content", "tcp"}

VARIABLE part    \* the part of the behaviour

vars == <<part, clockVars, panelVars, ringVars, buttonVars, overrideVars, retroVars,
          contentVars, tcpVars>>

Init ==
    /\ part \in Parts
    /\ ClockInit /\ PanelInit /\ RingInit
    /\ ButtonInit /\ OverrideInit /\ RetroInit
    /\ ContentInit /\ TcpInit

Next ==
    /\ UNCHANGED part
    /\ \/ /\ part = "clock" /\ ClockNext
          /\ UNCHANGED <<panelVars, ringVars, buttonVars, overrideVars,
                         retroVars, contentVars, tcpVars>>
       \/ /\ part = "panel" /\ PanelNext
          /\ UNCHANGED <<clockVars, ringVars, buttonVars, overrideVars,
                         retroVars, contentVars, tcpVars>>
       \/ /\ part = "rings" /\ RingNext
          /\ UNCHANGED <<clockVars, panelVars, buttonVars, overrideVars,
                         retroVars, contentVars, tcpVars>>
       \/ /\ part = "key" /\ ButtonNext
          /\ UNCHANGED <<clockVars, panelVars, ringVars, overrideVars,
                         retroVars, contentVars, tcpVars>>
       \/ /\ part = "override" /\ OverrideNext
          /\ UNCHANGED <<clockVars, panelVars, ringVars, buttonVars,
                         retroVars, contentVars, tcpVars>>
       \/ /\ part = "libretro" /\ RetroNext
          /\ UNCHANGED <<clockVars, panelVars, ringVars, buttonVars,
                         overrideVars, contentVars, tcpVars>>
       \/ /\ part = "content" /\ ContentNext
          /\ UNCHANGED <<clockVars, panelVars, ringVars, buttonVars,
                         overrideVars, retroVars, tcpVars>>
       \/ /\ part = "tcp" /\ TcpNext
          /\ UNCHANGED <<clockVars, panelVars, ringVars, buttonVars,
                         overrideVars, retroVars, contentVars>>

\* The fairness of the parts.  Frames follow each other, the real-time clock wakes a
\* CPU that stopped (each frame has some of its time only), and the CPU takes time
\* when it executes.  The fairness asks for nothing of a part that is not the one of
\* the behaviour: the actions of the override have the part as a guard, and no fair
\* action of the clock or of the transport is enabled where they start.
Fairness ==
    /\ ClockFairness /\ TcpFairness
    /\ WF_overrideVars(part = "override" /\ (FrameBegins \/ PassStopped))
    /\ SF_overrideVars(part = "override" /\ Wake)
    /\ SF_overrideVars(part = "override" /\ Execute(1))

Spec == Init /\ [][Next]_vars /\ Fairness

-----------------------------------------------------------------------------
(* The instance.                                                              *)

EachPart == {"clock", "panel", "rings", "key", "override", "libretro",
             "content", "tcp"}

\* The last second of: a century, the February of a common year, of the year after
\* a leap year and of a leap year, a month of 30 days, and a year of an ordinary
\* month; and times where each BCD digit is at its limit.
BoardTimes ==
    {<<99, 12, 31, 23, 59, 59, 7>>, <<0, 2, 28, 23, 59, 59, 3>>, <<1, 2, 28, 23, 59, 59, 3>>,
     <<4, 2, 29, 23, 59, 59, 1>>, <<26, 4, 30, 19, 59, 59, 5>>, <<26, 9, 9, 9, 9, 59, 5>>}

BoardTargets == {<<99, 1, 1, 0, 0, 0, 4>>, <<0, 12, 30, 1, 2, 3, 4>>}

\* From the seconds to the year, and from the year to the seconds.
BoardOrders == {<<0, 1, 2, 3, 4, 5, 6>>, <<6, 5, 4, 3, 2, 1, 0>>}

\* A byte of pixels that its mirror image differs from.
OneByte == {[i \in 0..1 |-> i = 0]}

Bits   == {0, 1}
Images == [saves : 1..2, data : 1..2]

\* Cards of three blocks of four frames: apps of one cell to two blocks, with icons
\* that end in the body or after it; exports, one with a size that it does not
\* have; a card, and the parts of it that a .gme file can hold.
AppBody(n, icons) == [i \in 1..n |-> IF i = 1 THEN Title(icons, 1) ELSE Data(1)]
SomeApps == {AppBody(n, 0) : n \in {1, 4, 5}} \cup {AppBody(8, 3)}
SomeExports ==
    {<<Entry("first", 4, NoBlock, 1, FALSE)>> \o AppBody(n, 1) : n \in {4, 8}}
    \cup {<<Entry("first", 8, 0, 1, FALSE)>> \o AppBody(8, 2)}
CardPart(n) ==
    Part(<<CardHead, Entry("first", 4, NoBlock, 1, FALSE), Entry("free", 0, NoBlock, 2, FALSE),
           Blank>> \o AppBody(4, 1) \o Blanks(4), 1, n)
SomeContent ==
    SomeApps \cup SomeExports \cup {CardPart(12)} \cup {<<GmeHead>> \o CardPart(n) : n \in {4, 6, 8, 12}}
SomeStores == {Data(2), Title(2, 2), Entry("first", 4, NoBlock, 3, FALSE)}

TwoClients == {"c1", "c2"}

\* The name of the host resolves to an address of another machine before the right
\* one, to one of a family that the client lacks, or to one address.
Address(family, right, usable) == [family |-> family, right |-> right, usable |-> usable]
SomeAddresses ==
    {<<Address("IPv6", FALSE, TRUE), Address("IPv4", TRUE, TRUE)>>,
     <<Address("IPv6", TRUE, FALSE), Address("IPv4", TRUE, TRUE)>>,
     <<Address("IPv6", TRUE, TRUE)>>}
=============================================================================
